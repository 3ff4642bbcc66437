------------------------------- MODULE Discovery -------------------------------
(***************************************************************************)
(* discover_repositories of the C++ port, on POSIX and on Windows: a       *)
(* depth-first walk with a stack of pending directories, in a file system  *)
(* that others may be deleting from.                                       *)
(***************************************************************************)
EXTENDS GoDiscovery, Sequences, Functions

CONSTANTS
  Platforms,
  RootKinds,    \* what the scan root may be
  Kinds,        \* what the nodes below it may be
  TrailingSlash,\* lexically_normal leaves the root's path ending in a slash
  MayVanish     \* bound: how many times someone deletes a subtree

ASSUME DiscoveryAssumption ==
  /\ Platforms \subseteq {"posix", "windows"}
  /\ RootKinds \subseteq Kind /\ Kinds \subseteq Kind
  /\ TrailingSlash \in BOOLEAN /\ MayVanish \in Nat

VARIABLES
  platform,
  gone,          \* the nodes deleted so far
  deletions,
  step,
  pending,       \* the stack
  current,       \* the directory being read
  unread,        \* its entries the iterator has still to come to
  repositories,
  warnings,
  error

world == <<kind, platform, gone, deletions>>
result == <<repositories, warnings, error>>
vars == <<world, step, pending, current, unread, result>>

-------------------------------------------------------------------------------
(* Mutated forms, each the bug its name says; no specification uses them.  *)

ShouldDescend_FollowsLinks(e) == kind[e].type \in {"directory", "link"}
AfterMarker_ReadsOn(n) == "open"
Rest_NotAdvanced(e) == unread
AfterBreak_Retries == "read"
OpenWarning_None(n) == {}

-------------------------------------------------------------------------------
(* filename() is empty after a trailing slash, as the root may have one.   *)
IsExcluded(n) == kind[n].excluded /\ ~(n = Root /\ TrailingSlash)

Init ==
  /\ kind \in [Node -> Kinds \cup RootKinds]
  /\ kind[Root] \in RootKinds /\ \A n \in Node \ {Root} : kind[n] \in Kinds
  /\ platform \in Platforms
  /\ gone = {} /\ deletions = 0
  /\ step = "open root"
  /\ pending = <<>>
  /\ current = Root
  /\ unread = {}
  /\ repositories = <<>>
  /\ warnings = {}
  /\ error = "none"

(* absolute() fails if the working directory is gone; status() follows     *)
(* links.                                                                  *)
OpenRoot ==
  /\ step = "open root"
  /\ error' \in {"resolve",
                IF Root \in gone \/ kind[Root].type = "bad link" THEN "open"
                ELSE IF kind[Root].type = "file" THEN "not a directory" ELSE "none"}
  /\ IF error' = "none"
     THEN step' = "pop" /\ pending' = <<Root>>
     ELSE step' = "done" /\ UNCHANGED pending
  /\ UNCHANGED <<world, current, unread, repositories, warnings>>

Top == pending[Len(pending)]
Popped == SubSeq(pending, 1, Len(pending) - 1)

PopExcluded ==
  /\ step = "pop" /\ pending # <<>>
  /\ IsExcluded(Top)
  /\ pending' = Popped
  /\ UNCHANGED <<world, step, current, unread, result>>

(* A .git directory or file makes a repository, whose content is left      *)
(* alone; stat follows links, and ENOENT is no error. On Windows anything  *)
(* of that name will do, a link that leads nowhere included.               *)
WindowsMarkers == {"git", "dead link"}
Markers == IF platform = "windows" THEN WindowsMarkers ELSE {"git"}
HasMarker(n) == n \notin gone /\ kind[n].marker \in Markers
AfterMarker(n) == IF HasMarker(n) THEN "pop" ELSE "open"
MarkerWarning(n) ==
  IF n \notin gone /\ kind[n].marker = "unreadable" THEN {<<"inspect", n>>} ELSE {}

InspectMarker ==
  /\ step = "pop" /\ pending # <<>>
  /\ ~IsExcluded(Top)
  /\ pending' = Popped
  /\ current' = Top
  /\ repositories' = IF HasMarker(Top) THEN Append(repositories, Top) ELSE repositories
  /\ warnings' = warnings \cup MarkerWarning(Top)
  /\ step' = AfterMarker(Top)
  /\ UNCHANGED <<world, unread, error>>

(* directory_iterator: any error is reported, a directory that has gone    *)
(* since it was pushed included. FindFirstFileEx passes over one that has  *)
(* gone.                                                                   *)
CanOpen(n) == n \notin gone /\ kind[n].listing # "none"
SearchWarning(n) == {<<"walk", m>> : m \in {n} \ gone}
OpenWarning(n) == IF platform = "windows" THEN SearchWarning(n) ELSE {<<"walk", n>>}

OpenDirectory ==
  /\ step = "open"
  /\ IF CanOpen(current)
     THEN step' = "read" /\ unread' = Children(current) \ gone /\ UNCHANGED warnings
     ELSE step' = "pop" /\ warnings' = warnings \cup OpenWarning(current) /\ UNCHANGED unread
  /\ UNCHANGED <<world, pending, current, repositories, error>>

(* should_descend asks for the type with links followed, which may fail,   *)
(* and then whether the entry is a link. The type of a directory came with *)
(* the listing, so it is pushed even when it has gone meanwhile.           *)
ShouldDescend(e) == kind[e].type = "directory"
TypeFails(e) == kind[e].type = "bad link" /\ e \notin gone
Rest(e) == unread \ {e}

ReadEntry ==
  /\ step = "read" /\ platform = "posix"
  /\ \E e \in unread :
       /\ unread' = Rest(e)
       /\ IF ShouldDescend(e) /\ ~IsExcluded(e)
          THEN pending' = Append(pending, e) /\ UNCHANGED warnings
          ELSE /\ warnings' = warnings \cup IF TypeFails(e) THEN {<<"inspect", e>>} ELSE {}
               /\ UNCHANGED pending
  /\ UNCHANGED <<world, step, current, repositories, error>>

(* The attributes come with the entry; a link is a reparse point.          *)
IsPlainDirectory(e) == kind[e].type = "directory"

ReadFindData ==
  /\ step = "read" /\ platform = "windows"
  /\ \E e \in unread :
       /\ unread' = Rest(e)
       /\ pending' = IF IsPlainDirectory(e) /\ ~IsExcluded(e) THEN Append(pending, e) ELSE pending
  /\ UNCHANGED <<world, step, current, result>>

(* readdir no longer returns an entry that has gone.                       *)
MissEntry ==
  /\ step = "read"
  /\ \E e \in unread \cap gone : unread' = unread \ {e}
  /\ UNCHANGED <<world, step, pending, current, result>>

(* The iterator fails on its way; what it has yielded stays pushed.        *)
AfterBreak == "pop"

BreakOff ==
  /\ step = "read" /\ kind[current].listing = "breaks"
  /\ warnings' = warnings \cup {<<"walk", current>>}
  /\ unread' = {}
  /\ step' = AfterBreak
  /\ UNCHANGED <<world, pending, current, repositories, error>>

EndOfDirectory ==
  /\ step = "read" /\ unread = {} /\ kind[current].listing # "breaks"
  /\ step' = "pop"
  /\ UNCHANGED <<world, pending, current, unread, result>>

(* std::sort by the path's text: some permutation that is ordered by it.   *)
SortAndReturn ==
  /\ step = "pop" /\ pending = <<>>
  /\ \E order \in Bijection(DOMAIN repositories, DOMAIN repositories) :
       /\ repositories' = [i \in DOMAIN repositories |-> repositories[order[i]]]
       /\ \A i, j \in DOMAIN repositories : i < j => repositories'[i] <= repositories'[j]
  /\ step' = "done"
  /\ UNCHANGED <<world, pending, current, unread, warnings, error>>

(* A node and everything under it: what is in every set that holds the     *)
(* node and, with a directory, its entries.                                *)
Below ==
  [n \in Node |->
     {m \in Node : \A S \in SUBSET Node :
        n \in S /\ (\A k \in DOMAIN Parent : Parent[k] \in S => k \in S) => m \in S}]

Vanish ==
  /\ step # "done" /\ deletions < MayVanish
  /\ \E n \in Node \ gone : gone' = gone \cup Below[n]
  /\ deletions' = deletions + 1
  /\ UNCHANGED <<kind, platform, step, pending, current, unread, result>>

Walk ==
  \/ OpenRoot \/ PopExcluded \/ InspectMarker \/ OpenDirectory
  \/ ReadEntry \/ ReadFindData \/ MissEntry \/ BreakOff \/ EndOfDirectory \/ SortAndReturn

Next == Walk \/ Vanish

Spec == Init /\ [][Next]_vars /\ WF_vars(Walk)

-------------------------------------------------------------------------------
Found == {repositories[i] : i \in DOMAIN repositories}

Done == step = "done"

(* README.md:3: the walk stops at every repository boundary. No repository *)
(* found lies under another, whatever is deleted in between.               *)
StopsAtBoundary == \A n \in Found : Below[n] \cap Found = {n}

(* No directory is walked twice, so no repository is checked and counted   *)
(* twice (app.cpp:571-632).                                                *)
EachOnce ==
  /\ \A i, j \in DOMAIN repositories : repositories[i] = repositories[j] => i = j
  /\ \A i, j \in DOMAIN pending : pending[i] = pending[j] => i = j
  /\ \A i \in DOMAIN pending : pending[i] \notin Found

(* Exit code 0 says that nothing was missed: without a warning, every      *)
(* repository that is still there, and that no exclusion, boundary or link *)
(* hides, is in the list (app.cpp:574-624, 880).                           *)
InTheOpen(n) ==
  \A m \in Node \ {n} : n \in Below[m] =>
    (m = Root \/ Entered(m)) /\ ~kind[m].excluded /\ kind[m].marker \notin {"git", "dead link"}

NothingLostSilently ==
  Done /\ error = "none" /\ warnings = {} =>
    \A n \in Node \ gone :
      Entered(n) /\ kind[n].marker = "git" /\ InTheOpen(n) => n \in Found

(* The walk ends.                                                          *)
Termination == <>Done

(* cpp/README.md:3: the port "mirrors the Go CLI's repository discovery",  *)
(* and warnings decide the exit code. On a tree at rest it does, from any  *)
(* order of the entries: the same repositories, sorted, the same warnings, *)
(* and an error for the same roots. They differ, and the premise says so,  *)
(* where a listing breaks off, a link loops or is the root, an excluded    *)
(* root ends in a slash, and on Windows where .git is a link that leads    *)
(* nowhere.                                                                *)
AtRest == gone = {} /\ error # "resolve"

Alike ==
  /\ \A n \in Node : kind[n].listing # "breaks"
  /\ kind[Root].type # "link"
  /\ TrailingSlash => ~kind[Root].excluded
  /\ platform = "posix" => \A n \in Node \ {Root} : kind[n].type # "bad link"
  /\ platform = "windows" => \A n \in Node : kind[n].marker # "dead link"

MirrorsGo ==
  Done /\ AtRest /\ Alike =>
    /\ error # "none" <=> GoFails
    /\ error = "none" => /\ Found = GoRepositories
                         /\ warnings = GoWarnings
    /\ \A i, j \in DOMAIN repositories : i < j => repositories[i] < repositories[j]

(* tests.cpp:239: "a build directory used as the scan root should still be *)
(* excluded".                                                              *)
BuildRootExcluded == Done /\ kind[Root].excluded => Found = {}

===============================================================================
