---------------------------- MODULE DiscoveryProofs ----------------------------
(***************************************************************************)
(* Proofs about Discovery, for every tree, with whatever in it, on both    *)
(* platforms and with any number of deletions during the walk.             *)
(***************************************************************************)
EXTENDS Discovery, WellFoundedInduction, TLAPS

-------------------------------------------------------------------------------
(* The tree.                                                               *)

ClosedDownwards(S) == \A k \in DOMAIN Parent : Parent[k] \in S => k \in S

LEMMA Tree ==
  /\ Node \subseteq Nat /\ Root \in Node /\ DOMAIN Parent = Node \ {Root}
  /\ \A n \in DOMAIN Parent : Parent[n] \in Node /\ Parent[n] < n
BY TreeAssumption

LEMMA BelowIsLeast ==
  ASSUME NEW n \in Node
  PROVE  /\ Below[n] \subseteq Node /\ n \in Below[n] /\ ClosedDownwards(Below[n])
         /\ \A S \in SUBSET Node : n \in S /\ ClosedDownwards(S) => Below[n] \subseteq S
<1>1. Below[n] = {m \in Node : \A S \in SUBSET Node : n \in S /\ ClosedDownwards(S) => m \in S}
  BY DEF Below, ClosedDownwards
<1>2. ClosedDownwards(Below[n])
  BY <1>1, Tree DEF ClosedDownwards
<1> QED
  BY <1>1, <1>2

(* Nodes are numbered in the order of their paths, and so after those they *)
(* are in.                                                                 *)
LEMMA BelowIsAfter ==
  ASSUME NEW n \in Node
  PROVE  \A m \in Below[n] : m >= n
<1> DEFINE after == {m \in Node : m >= n}
<1>1. after \in SUBSET Node /\ n \in after
  BY Tree
<1>2. ClosedDownwards(after)
  <2>1. SUFFICES ASSUME NEW k \in DOMAIN Parent, Parent[k] >= n PROVE k \in Node /\ k >= n
    BY DEF ClosedDownwards
  <2>2. k \in Nat /\ Parent[k] \in Nat /\ n \in Nat /\ Parent[k] < k
    BY Tree
  <2> QED
    BY <2>1, <2>2, Tree
<1>3. Below[n] \subseteq after
  <2> HIDE DEF after
  <2> QED
    BY <1>1, <1>2, BelowIsLeast
<1> QED
  BY <1>3

(* What is under a node is in a directory that is under it too.            *)
LEMMA ParentIsBelow ==
  ASSUME NEW n \in Node, NEW m \in Below[n], m # n
  PROVE  m \in DOMAIN Parent /\ Parent[m] \in Below[n]
<1> DEFINE S == {n} \cup {k \in DOMAIN Parent : Parent[k] \in Below[n]}
<1>1. S \in SUBSET Node /\ n \in S
  BY Tree
<1>2. S \subseteq Below[n]
  BY BelowIsLeast DEF ClosedDownwards
<1>3. ClosedDownwards(S)
  BY <1>2 DEF ClosedDownwards
<1>4. m \in S
  BY <1>1, <1>3, BelowIsLeast
<1> QED
  BY <1>4

(* ... and so under one of the node's own entries.                         *)
LEMMA UnderAChild ==
  ASSUME NEW n \in Node, NEW m \in Below[n], m # n
  PROVE  \E c \in Children(n) : m \in Below[c]
<1> DEFINE S == {n} \cup UNION {Below[c] : c \in Children(n)}
<1>1. \A c \in Children(n) : c \in Node /\ c \in Below[c] /\ Below[c] \subseteq Node
                             /\ ClosedDownwards(Below[c])
  BY Tree, BelowIsLeast DEF Children
<1>2. S \in SUBSET Node /\ n \in S
  BY <1>1
<1>3. ClosedDownwards(S)
  BY <1>1 DEF ClosedDownwards, Children
<1> QED
  BY <1>2, <1>3, BelowIsLeast

LEMMA BelowIsTransitive ==
  ASSUME NEW n \in Node, NEW m \in Below[n]
  PROVE  Below[m] \subseteq Below[n]
BY BelowIsLeast

(* The root is above everything: a least node outside would have its       *)
(* parent inside.                                                          *)
LEMMA AllBelowRoot == Below[Root] = Node
<1>1. Below[Root] \subseteq Node /\ Root \in Below[Root] /\ ClosedDownwards(Below[Root])
  BY Tree, BelowIsLeast
<1>2. SUFFICES ASSUME Node \ Below[Root] # {} PROVE FALSE
  BY <1>1
<1> DEFINE less == {pair \in Nat \X Nat : pair[1] < pair[2]}
           outside == Node \ Below[Root]
<1>3. IsWellFoundedOn(less, Nat)
  BY NatLessThanWellFounded DEF OpToRel
<1> HIDE DEF less
<1>4. outside \subseteq Nat /\ outside # {}
  BY <1>2, Tree
<1> HIDE DEF outside
<1>5. PICK least \in outside : \A n \in outside : ~(<<n, least>> \in less)
  BY <1>3, <1>4, WFMin
<1>6. least \in DOMAIN Parent /\ Parent[least] \in Node /\ Parent[least] < least
  BY <1>1, Tree DEF outside
<1>7. Parent[least] \in Nat /\ least \in Nat
  BY <1>6, Tree
<1>8. <<Parent[least], least>> \in less
  BY <1>6, <1>7 DEF less
<1>9. Parent[least] \in Below[Root]
  BY <1>5, <1>6, <1>8 DEF outside
<1> QED
  BY <1>1, <1>5, <1>6, <1>9 DEF ClosedDownwards, outside

-------------------------------------------------------------------------------
(* The walk.                                                               *)

RangeOf(s) == {s[i] : i \in DOMAIN s}

OneOfEach(s) == \A i, j \in DOMAIN s : s[i] = s[j] => i = j

Opening == IF step = "open" THEN {current} ELSE {}

(* What the walk has found and what it still has to look at.               *)
Ahead == RangeOf(pending) \cup unread \cup Opening

Typed ==
  /\ kind \in [Node -> Kind] /\ platform \in {"posix", "windows"}
  /\ gone \in SUBSET Node
  /\ step \in {"open root", "pop", "open", "read", "done"}
  /\ pending \in Seq(Node) /\ repositories \in Seq(Node)
  /\ current \in Node /\ unread \in SUBSET (Node \ {Root})

(* Where the walk is: the iterator has entries only while it reads, and a  *)
(* directory is opened only if it is no repository.                        *)
InStep ==
  /\ step # "read" => unread = {}
  /\ step = "open root" => pending = <<>> /\ repositories = <<>>
  /\ step = "open" => ~HasMarker(current)
  /\ step = "done" => pending = <<>>

(* Nothing is in two places, and of what has been found or is still ahead  *)
(* nothing lies under another.                                             *)
Apart ==
  /\ OneOfEach(repositories) /\ OneOfEach(pending)
  /\ Found \cap Ahead = {}
  /\ RangeOf(pending) \cap unread = {}
  /\ (RangeOf(pending) \cup unread) \cap Opening = {}
  /\ \A n, m \in Found \cup Ahead : m \in Below[n] => m = n

(* What is deleted is deleted with everything under it.                    *)
DeletedWhole == ClosedDownwards(gone)

Wanted(n) == n \notin gone /\ Entered(n) /\ kind[n].marker = "git" /\ InTheOpen(n)

(* As long as nothing has been reported, every repository that should be   *)
(* found has been, or is under something ahead.                            *)
Covered ==
  step # "open root" /\ error = "none" /\ warnings = {} =>
    \A n \in Node : Wanted(n) => n \in Found \/ \E m \in Ahead : n \in Below[m]

IInv == Typed /\ InStep /\ Apart /\ DeletedWhole /\ Covered

-------------------------------------------------------------------------------
(* The stack and the list.                                                 *)

LEMMA ShortLists ==
  /\ <<>> \in Seq(Node) /\ RangeOf(<<>>) = {} /\ OneOfEach(<<>>)
  /\ <<Root>> \in Seq(Node) /\ RangeOf(<<Root>>) = {Root} /\ OneOfEach(<<Root>>)
<1>1. DOMAIN <<>> = {} /\ <<>> \in Seq(Node)
  OBVIOUS
<1>2. DOMAIN <<Root>> = {1} /\ <<Root>>[1] = Root /\ <<Root>> \in Seq(Node)
  BY Tree
<1> QED
  BY <1>1, <1>2 DEF RangeOf, OneOfEach

LEMMA FoundIsRange == Found = RangeOf(repositories)
BY DEF Found, RangeOf

LEMMA Members ==
  ASSUME NEW s \in Seq(Node)
  PROVE  RangeOf(s) \subseteq Node
<1>1. DOMAIN s = 1 .. Len(s) /\ \A i \in 1 .. Len(s) : s[i] \in Node
  OBVIOUS
<1> QED
  BY <1>1 DEF RangeOf

LEMMA Pushed ==
  ASSUME NEW s \in Seq(Node), NEW e \in Node
  PROVE  /\ Append(s, e) \in Seq(Node) /\ RangeOf(Append(s, e)) = RangeOf(s) \cup {e}
         /\ OneOfEach(s) /\ e \notin RangeOf(s) => OneOfEach(Append(s, e))
<1>1. /\ Append(s, e) \in Seq(Node) /\ Len(Append(s, e)) = Len(s) + 1
      /\ \A i \in 1 .. Len(s) : Append(s, e)[i] = s[i]
      /\ Append(s, e)[Len(s) + 1] = e
  OBVIOUS
<1>2. /\ DOMAIN s = 1 .. Len(s) /\ DOMAIN Append(s, e) = 1 .. Len(s) + 1
      /\ Len(s) \in Nat
  BY <1>1
<1>3. RangeOf(Append(s, e)) = RangeOf(s) \cup {e}
  BY <1>1, <1>2 DEF RangeOf
<1> QED
  BY <1>1, <1>2, <1>3 DEF RangeOf, OneOfEach

LEMMA Popping ==
  ASSUME pending \in Seq(Node), pending # <<>>
  PROVE  /\ Top \in Node /\ Popped \in Seq(Node)
         /\ RangeOf(pending) = RangeOf(Popped) \cup {Top}
         /\ OneOfEach(pending) => OneOfEach(Popped) /\ Top \notin RangeOf(Popped)
<1> PICK length \in Nat : length = Len(pending) /\ length > 0
  OBVIOUS
<1>1. /\ DOMAIN pending = 1 .. length /\ Top = pending[length] /\ Top \in Node
  BY DEF Top
<1>2. /\ Popped \in Seq(Node) /\ DOMAIN Popped = 1 .. length - 1
      /\ \A i \in 1 .. length - 1 : Popped[i] = pending[i]
  BY DEF Popped
<1>3. RangeOf(pending) = RangeOf(Popped) \cup {Top}
  BY <1>1, <1>2 DEF RangeOf
<1>4. OneOfEach(pending) => OneOfEach(Popped) /\ Top \notin RangeOf(Popped)
  BY <1>1, <1>2 DEF OneOfEach, RangeOf
<1> QED
  BY <1>1, <1>2, <1>3, <1>4

LEMMA Sorting ==
  ASSUME repositories \in Seq(Node),
         NEW order \in Bijection(DOMAIN repositories, DOMAIN repositories),
         NEW s, s = [i \in DOMAIN repositories |-> repositories[order[i]]]
  PROVE  /\ s \in Seq(Node) /\ RangeOf(s) = RangeOf(repositories)
         /\ OneOfEach(repositories) => OneOfEach(s)
<1> DEFINE places == DOMAIN repositories
<1>1. /\ order \in [places -> places]
      /\ \A i, j \in places : order[i] = order[j] => i = j
      /\ \A j \in places : \E i \in places : order[i] = j
  BY DEF Bijection, Injection, Surjection, IsInjective
<1>2. DOMAIN s = places /\ \A i \in places : s[i] = repositories[order[i]]
  OBVIOUS
<1>3. s \in Seq(Node)
  <2>1. Len(repositories) \in Nat /\ places = 1 .. Len(repositories)
        /\ \A i \in places : repositories[i] \in Node
    OBVIOUS
  <2>2. s \in [1 .. Len(repositories) -> Node]
    BY <1>1, <2>1
  <2> QED
    BY <2>1, <2>2
<1>4. RangeOf(s) = RangeOf(repositories)
  BY <1>1, <1>2 DEF RangeOf
<1> QED
  BY <1>1, <1>2, <1>3, <1>4 DEF OneOfEach

-------------------------------------------------------------------------------
(* Of a directory that has a wanted repository under it the walk does not  *)
(* lose sight: it is there, not excluded, and no repository itself.        *)
LEMMA OnTheWay ==
  ASSUME Typed, DeletedWhole, NEW n \in Node, Wanted(n), NEW m \in Node, n \in Below[m]
  PROVE  /\ m \notin gone /\ ~kind[m].excluded /\ (m = Root \/ Entered(m))
         /\ HasMarker(m) <=> m = n
<1>1. m \notin gone
  BY BelowIsLeast DEF Typed, DeletedWhole, Wanted
<1>2. Markers \subseteq {"git", "dead link"} /\ "git" \in Markers
  BY DEF Markers, WindowsMarkers
<1>3. CASE m = n
  BY <1>1, <1>2, <1>3 DEF Wanted, Entered, HasMarker
<1>4. CASE m # n
  BY <1>1, <1>2, <1>4 DEF Wanted, InTheOpen, HasMarker
<1> QED
  BY <1>3, <1>4

(* What a step takes from what is ahead must be accounted for.             *)
LEMMA StillCovered ==
  ASSUME Covered, step # "open root", UNCHANGED <<kind, gone, error>>,
         warnings \subseteq warnings', Found \subseteq Found',
         ASSUME NEW m \in Ahead, m \notin Ahead', NEW n \in Node, n \in Below[m], Wanted(n),
                warnings' = {}
         PROVE  n \in Found' \/ \E k \in Ahead' : n \in Below[k]
  PROVE  Covered'
<1> SUFFICES ASSUME error' = "none", warnings' = {}, NEW n \in Node, Wanted(n)'
             PROVE  n \in Found' \/ \E k \in Ahead' : n \in Below[k]
  BY DEF Covered
<1>1. Wanted(n)
  BY DEF Wanted, InTheOpen, Entered
<1>2. n \in Found \/ \E m \in Ahead : n \in Below[m]
  BY <1>1 DEF Covered
<1> QED
  BY <1>1, <1>2

LEMMA InitIInv == Init => IInv
<1> SUFFICES ASSUME Init PROVE IInv
  OBVIOUS
<1>1. Typed
  <2>1. kind \in [Node -> Kind] /\ platform \in {"posix", "windows"}
    BY DiscoveryAssumption DEF Init
  <2> QED
    BY <2>1, Tree, ShortLists DEF Init, Typed
<1>2. InStep /\ DeletedWhole /\ Covered
  BY DEF Init, InStep, DeletedWhole, ClosedDownwards, Covered
<1>3. Apart
  <2>1. Found = {} /\ RangeOf(pending) = {} /\ Ahead = {}
    BY ShortLists, FoundIsRange DEF Init, Ahead, Opening
  <2> QED
    BY <2>1, ShortLists DEF Init, Apart
<1> QED
  BY <1>1, <1>2, <1>3 DEF IInv

LEMMA StepOpenRoot == ASSUME IInv, OpenRoot PROVE IInv'
<1>1. /\ step = "open root" /\ pending = <<>> /\ repositories = <<>> /\ unread = {}
      /\ UNCHANGED <<kind, platform, gone, current, unread, repositories, warnings>>
  BY DEF IInv, InStep, OpenRoot, world
<1>2. CASE error' = "none"
  <2>1. step' = "pop" /\ pending' = <<Root>>
    BY <1>2 DEF OpenRoot
  <2>2. Found' = {} /\ RangeOf(pending') = {Root} /\ Opening' = {} /\ Ahead' = {Root}
    BY <1>1, <2>1, ShortLists DEF Found, RangeOf, Ahead, Opening
  <2>3. Typed' /\ InStep' /\ DeletedWhole'
    BY <1>1, <2>1, ShortLists DEF IInv, Typed, InStep, DeletedWhole
  <2>4. Apart'
    BY <1>1, <2>1, <2>2, ShortLists DEF Apart
  <2>5. Covered'
    BY <2>2, AllBelowRoot DEF Covered
  <2> QED
    BY <2>3, <2>4, <2>5 DEF IInv
<1>3. CASE error' # "none"
  <2>1. step' = "done" /\ pending' = pending
    BY <1>3 DEF OpenRoot
  <2>2. Typed' /\ InStep' /\ DeletedWhole' /\ Covered'
    BY <1>1, <1>3, <2>1 DEF IInv, Typed, InStep, DeletedWhole, Covered
  <2>3. Apart'
    <3>1. Found' = Found /\ Ahead' = Ahead /\ Opening' = Opening
      BY <1>1, <2>1 DEF Found, Ahead, Opening
    <3> QED
      BY <1>1, <2>1, <3>1 DEF IInv, Apart
  <2> QED
    BY <2>2, <2>3 DEF IInv
<1> QED
  BY <1>2, <1>3

LEMMA StepPopExcluded == ASSUME IInv, PopExcluded PROVE IInv'
<1>1. /\ step = "pop" /\ pending # <<>> /\ IsExcluded(Top) /\ pending' = Popped
      /\ UNCHANGED <<kind, platform, gone, step, current, unread, repositories, warnings, error>>
  BY DEF PopExcluded, world, result
<1>2. /\ Top \in Node /\ Popped \in Seq(Node) /\ RangeOf(pending) = RangeOf(Popped) \cup {Top}
      /\ OneOfEach(Popped)
  BY <1>1, Popping DEF IInv, Typed, Apart
<1>3. Typed' /\ InStep' /\ DeletedWhole'
  BY <1>1, <1>2 DEF IInv, Typed, InStep, DeletedWhole, HasMarker
<1>4. Found' = Found /\ Opening' = Opening /\ Ahead = Ahead' \cup {Top}
  BY <1>1, <1>2 DEF Found, Ahead, Opening
<1>5. Apart'
  BY <1>1, <1>2, <1>4 DEF IInv, Apart
<1>6. Covered'
  <2>1. ASSUME NEW n \in Node, n \in Below[Top], Wanted(n) PROVE FALSE
    BY <1>1, <1>2, <2>1, OnTheWay DEF IInv, IsExcluded
  <2> QED
    BY <1>1, <1>4, <2>1, StillCovered DEF IInv
<1> QED
  BY <1>3, <1>5, <1>6 DEF IInv

LEMMA StepInspectMarker == ASSUME IInv, InspectMarker PROVE IInv'
<1>1. /\ step = "pop" /\ pending # <<>> /\ pending' = Popped /\ current' = Top
      /\ repositories' = IF HasMarker(Top) THEN Append(repositories, Top) ELSE repositories
      /\ step' = IF HasMarker(Top) THEN "pop" ELSE "open"
      /\ warnings \subseteq warnings' /\ UNCHANGED <<kind, platform, gone, unread, error>>
  BY DEF InspectMarker, AfterMarker, world
<1>2. /\ Top \in Node /\ Popped \in Seq(Node) /\ RangeOf(pending) = RangeOf(Popped) \cup {Top}
      /\ OneOfEach(Popped) /\ Top \notin RangeOf(Popped)
  BY <1>1, Popping DEF IInv, Typed, Apart
<1>3. Opening = {} /\ Top \in Ahead /\ Top \notin Found /\ Top \notin unread
  BY <1>1, <1>2 DEF IInv, Apart, Opening, Ahead
<1>4. CASE HasMarker(Top)
  <2>1. repositories' = Append(repositories, Top) /\ step' = "pop"
    BY <1>1, <1>4
  <2>2. repositories' \in Seq(Node) /\ Found' = Found \cup {Top} /\ OneOfEach(repositories')
    <3>1. Found' = RangeOf(repositories') /\ Found = RangeOf(repositories)
      BY DEF Found, RangeOf
    <3> QED
      BY <1>2, <1>3, <2>1, <3>1, Pushed DEF IInv, Typed, Apart
  <2>3. Opening' = {} /\ Ahead = Ahead' \cup {Top} /\ Top \notin Ahead'
    BY <1>1, <1>2, <1>3, <2>1 DEF Ahead, Opening
  <2>4. Typed' /\ InStep' /\ DeletedWhole'
    BY <1>1, <1>2, <2>1, <2>2 DEF IInv, Typed, InStep, DeletedWhole
  <2>5. Apart'
    BY <1>1, <1>2, <1>3, <2>2, <2>3 DEF IInv, Apart
  <2>6. Covered'
    <3>1. ASSUME NEW n \in Node, n \in Below[Top], Wanted(n) PROVE n \in Found'
      BY <1>2, <1>4, <2>2, <3>1, OnTheWay DEF IInv
    <3> QED
      BY <1>1, <2>2, <2>3, <3>1, StillCovered DEF IInv
  <2> QED
    BY <2>4, <2>5, <2>6 DEF IInv
<1>5. CASE ~HasMarker(Top)
  <2>1. repositories' = repositories /\ step' = "open"
    BY <1>1, <1>5
  <2>2. Opening' = {Top} /\ Ahead' = Ahead /\ Found' = Found
    BY <1>1, <1>2, <1>3, <2>1 DEF Ahead, Opening, Found
  <2>3. Typed' /\ InStep' /\ DeletedWhole'
    BY <1>1, <1>2, <1>5, <2>1 DEF IInv, Typed, InStep, DeletedWhole, HasMarker, Markers
  <2>4. Apart'
    BY <1>1, <1>2, <1>3, <2>1, <2>2 DEF IInv, Apart
  <2>5. Covered'
    BY <1>1, <2>2, StillCovered DEF IInv
  <2> QED
    BY <2>3, <2>4, <2>5 DEF IInv
<1> QED
  BY <1>4, <1>5

(* The directory's own entries take its place.                             *)
LEMMA StepOpenDirectory == ASSUME IInv, OpenDirectory PROVE IInv'
<1>1. /\ step = "open" /\ unread = {} /\ ~HasMarker(current) /\ current \in Node
      /\ UNCHANGED <<kind, platform, gone, pending, current, repositories, error>>
  BY DEF IInv, Typed, InStep, OpenDirectory, world
<1>2. /\ Found' = Found /\ Opening = {current} /\ Ahead = RangeOf(pending) \cup {current}
      /\ current \notin Found /\ current \notin RangeOf(pending)
  BY <1>1 DEF IInv, Apart, Found, Opening, Ahead
<1>3. CASE CanOpen(current)
  <2> DEFINE entries == Children(current) \ gone
  <2>1. step' = "read" /\ unread' = entries /\ warnings' = warnings
    BY <1>3 DEF OpenDirectory
  <2>2. \A e \in entries : /\ e \in Node /\ e # Root /\ Parent[e] = current
                           /\ e \in Below[current] /\ e > current
    BY <1>1, Tree, BelowIsLeast DEF Children, ClosedDownwards
  <2>3. Opening' = {} /\ Ahead' = RangeOf(pending) \cup entries
    BY <1>1, <2>1 DEF Opening, Ahead
  <2>4. Typed' /\ InStep' /\ DeletedWhole'
    <3>1. entries \in SUBSET (Node \ {Root})
      BY <2>2
    <3> HIDE DEF entries
    <3> QED
      BY <1>1, <2>1, <3>1 DEF IInv, Typed, InStep, DeletedWhole
  <2>5. ASSUME NEW x \in Found \cup RangeOf(pending), NEW e \in entries
        PROVE  x \notin Below[e] /\ e \notin Below[x] /\ x # e
    <3>1. x \in Node
      BY FoundIsRange, Members DEF IInv, Typed
    <3>2. x \notin Below[current] /\ current \notin Below[x]
      BY <1>2 DEF IInv, Apart
    <3>3. x \notin Below[e] /\ x # e
      BY <1>1, <2>2, <3>2, BelowIsTransitive
    <3>4. e \notin Below[x]
      BY <2>2, <3>1, <3>2, <3>3, ParentIsBelow
    <3> QED
      BY <3>3, <3>4
  <2>6. ASSUME NEW e \in entries, NEW f \in entries, e \in Below[f] PROVE e = f
    <3>1. SUFFICES ASSUME e # f PROVE FALSE
      OBVIOUS
    <3>2. current \in Below[f]
      BY <2>2, <2>6, <3>1, ParentIsBelow
    <3>3. f \in Nat /\ current \in Nat /\ current >= f /\ f > current
      BY <1>1, <2>2, <3>2, BelowIsAfter, Tree
    <3> QED
      BY <3>3
  <2>7. Apart'
    <3> HIDE DEF entries
    <3> QED
      BY <1>1, <1>2, <2>1, <2>3, <2>5, <2>6 DEF IInv, Apart
  <2>8. Covered'
    <3>1. ASSUME NEW n \in Node, n \in Below[current], Wanted(n)
          PROVE  \E e \in Ahead' : n \in Below[e]
      <4>1. n # current
        BY <1>1, <3>1, OnTheWay DEF IInv
      <4>2. PICK e \in Children(current) : n \in Below[e]
        BY <1>1, <3>1, <4>1, UnderAChild
      <4>3. e \in Node
        BY <4>2, Tree DEF Children
      <4>4. e \notin gone
        BY <3>1, <4>2, <4>3, OnTheWay DEF IInv
      <4> QED
        BY <2>3, <4>2, <4>4
    <3>2. RangeOf(pending) \subseteq Ahead'
      BY <2>3
    <3> HIDE DEF entries
    <3> QED
      BY <1>1, <1>2, <2>1, <3>1, <3>2, StillCovered DEF IInv
  <2> QED
    BY <2>4, <2>7, <2>8 DEF IInv
<1>4. CASE ~CanOpen(current)
  <2>1. step' = "pop" /\ unread' = {} /\ warnings' = warnings \cup OpenWarning(current)
    BY <1>1, <1>4 DEF OpenDirectory
  <2>2. Opening' = {} /\ Ahead' = RangeOf(pending)
    BY <1>1, <2>1 DEF Opening, Ahead
  <2>3. Typed' /\ InStep' /\ DeletedWhole'
    BY <1>1, <2>1 DEF IInv, Typed, InStep, DeletedWhole
  <2>4. Apart'
    BY <1>1, <1>2, <2>1, <2>2 DEF IInv, Apart
  <2>5. Covered'
    <3>1. ASSUME NEW n \in Node, n \in Below[current], Wanted(n), warnings' = {} PROVE FALSE
      <4>1. current \notin gone
        BY <1>1, <3>1, OnTheWay DEF IInv
      <4>2. <<"walk", current>> \in OpenWarning(current)
        BY <4>1 DEF OpenWarning, SearchWarning
      <4> QED
        BY <2>1, <3>1, <4>2
    <3> QED
      BY <1>1, <1>2, <2>1, <2>2, <3>1, StillCovered DEF IInv
  <2> QED
    BY <2>3, <2>4, <2>5 DEF IInv
<1> QED
  BY <1>3, <1>4

(* An entry is taken off: it is pushed, or nothing wanted is under it.     *)
LEMMA TakingOff ==
  ASSUME IInv, step = "read", NEW e \in unread, unread' = unread \ {e},
         UNCHANGED <<kind, platform, gone, step, current, repositories, error>>,
         warnings \subseteq warnings',
         \/ pending' = Append(pending, e)
         \/ /\ pending' = pending
            /\ \/ kind[e].type # "directory" \/ kind[e].excluded \/ e \in gone
  PROVE  IInv'
<1>1. e \in Node /\ e # Root
  BY DEF IInv, Typed
<1>2. Found' = Found /\ Opening = {} /\ Opening' = {} /\ unread \subseteq Ahead
  BY DEF Found, Opening, Ahead
<1>3. e \notin RangeOf(pending) /\ e \notin Found /\ Ahead = RangeOf(pending) \cup unread
  BY <1>2 DEF IInv, Apart, Ahead
<1>4. InStep' /\ DeletedWhole'
  BY DEF IInv, InStep, DeletedWhole
<1>5. CASE pending' = Append(pending, e)
  <2>1. /\ pending' \in Seq(Node) /\ RangeOf(pending') = RangeOf(pending) \cup {e}
        /\ OneOfEach(pending')
    BY <1>1, <1>3, <1>5, Pushed DEF IInv, Typed, Apart
  <2>2. Ahead' = Ahead
    BY <1>2, <1>3, <2>1 DEF Ahead, RangeOf
  <2>3. Typed'
    BY <2>1 DEF IInv, Typed
  <2>4. RangeOf(pending)' = RangeOf(pending')
    BY DEF RangeOf
  <2>5. Apart'
    BY <1>2, <1>3, <2>1, <2>2, <2>4 DEF IInv, Apart
  <2>6. Covered'
    BY <1>2, <2>2, StillCovered DEF IInv
  <2> QED
    BY <1>4, <2>3, <2>5, <2>6 DEF IInv
<1>6. CASE /\ pending' = pending
           /\ \/ kind[e].type # "directory" \/ kind[e].excluded \/ e \in gone
  <2>1. Ahead' = RangeOf(pending) \cup (unread \ {e})
    BY <1>2, <1>6 DEF Ahead
  <2>2. Typed'
    BY <1>6 DEF IInv, Typed
  <2>3. Apart'
    BY <1>2, <1>3, <1>6, <2>1 DEF IInv, Apart
  <2>4. ASSUME NEW n \in Node, n \in Below[e], Wanted(n) PROVE FALSE
    BY <1>1, <1>6, <2>4, OnTheWay DEF IInv, Entered
  <2>5. Covered'
    BY <1>2, <1>3, <2>1, <2>4, StillCovered DEF IInv
  <2> QED
    BY <1>4, <2>2, <2>3, <2>5 DEF IInv
<1> QED
  BY <1>5, <1>6

LEMMA StepReadEntry == ASSUME IInv, ReadEntry PROVE IInv'
<1>1. PICK e \in unread :
        /\ unread' = Rest(e)
        /\ IF ShouldDescend(e) /\ ~IsExcluded(e)
           THEN pending' = Append(pending, e) /\ UNCHANGED warnings
           ELSE /\ warnings' = warnings \cup IF TypeFails(e) THEN {<<"inspect", e>>} ELSE {}
                /\ UNCHANGED pending
  BY DEF ReadEntry
<1>2. step = "read" /\ UNCHANGED <<kind, platform, gone, step, current, repositories, error>>
  BY DEF ReadEntry, world
<1>3. \/ pending' = Append(pending, e)
      \/ pending' = pending /\ (kind[e].type # "directory" \/ kind[e].excluded)
  BY <1>1 DEF ShouldDescend, IsExcluded
<1> QED
  BY <1>1, <1>2, <1>3, TakingOff DEF Rest

LEMMA StepReadFindData == ASSUME IInv, ReadFindData PROVE IInv'
<1>1. PICK e \in unread :
        /\ unread' = Rest(e)
        /\ pending' = IF IsPlainDirectory(e) /\ ~IsExcluded(e) THEN Append(pending, e)
                      ELSE pending
  BY DEF ReadFindData
<1>2. /\ step = "read" /\ warnings' = warnings
      /\ UNCHANGED <<kind, platform, gone, step, current, repositories, error>>
  BY DEF ReadFindData, world, result
<1>3. \/ pending' = Append(pending, e)
      \/ pending' = pending /\ (kind[e].type # "directory" \/ kind[e].excluded)
  BY <1>1 DEF IsPlainDirectory, IsExcluded
<1> QED
  BY <1>1, <1>2, <1>3, TakingOff DEF Rest

LEMMA StepMissEntry == ASSUME IInv, MissEntry PROVE IInv'
<1>1. PICK e \in unread : e \in gone /\ unread' = unread \ {e}
  BY DEF MissEntry
<1>2. /\ step = "read" /\ warnings' = warnings /\ pending' = pending
      /\ UNCHANGED <<kind, platform, gone, step, current, repositories, error>>
  BY DEF MissEntry, world, result
<1> QED
  BY <1>1, <1>2, TakingOff

(* A directory whose reading breaks off has been reported.                 *)
LEMMA StepBreakOff == ASSUME IInv, BreakOff PROVE IInv'
<1>1. /\ step = "read" /\ step' = "pop" /\ unread' = {}
      /\ <<"walk", current>> \in warnings'
      /\ UNCHANGED <<kind, platform, gone, pending, current, repositories, error>>
  BY DEF BreakOff, AfterBreak, world
<1>2. Found' = Found /\ Opening' = {} /\ Ahead' = RangeOf(pending) /\ Ahead' \subseteq Ahead
  BY <1>1 DEF Found, Opening, Ahead
<1>3. Typed' /\ InStep' /\ DeletedWhole' /\ Covered'
  BY <1>1 DEF IInv, Typed, InStep, DeletedWhole, Covered
<1>4. Apart'
  BY <1>1, <1>2 DEF IInv, Apart
<1> QED
  BY <1>3, <1>4 DEF IInv

LEMMA StepEndOfDirectory == ASSUME IInv, EndOfDirectory PROVE IInv'
<1>1. /\ step = "read" /\ step' = "pop" /\ unread = {}
      /\ UNCHANGED <<kind, platform, gone, pending, current, unread, repositories, warnings, error>>
  BY DEF EndOfDirectory, world, result
<1>2. Found' = Found /\ Opening' = {} /\ Ahead' = RangeOf(pending) /\ Ahead' = Ahead
  BY <1>1 DEF Found, Opening, Ahead
<1>3. Typed' /\ InStep' /\ DeletedWhole'
  BY <1>1 DEF IInv, Typed, InStep, DeletedWhole
<1>4. Apart'
  BY <1>1, <1>2 DEF IInv, Apart
<1>5. Covered'
  BY <1>1, <1>2, StillCovered DEF IInv
<1> QED
  BY <1>3, <1>4, <1>5 DEF IInv

LEMMA StepSortAndReturn == ASSUME IInv, SortAndReturn PROVE IInv'
<1>1. /\ step = "pop" /\ step' = "done" /\ pending = <<>>
      /\ UNCHANGED <<kind, platform, gone, pending, current, unread, warnings, error>>
  BY DEF SortAndReturn, world
<1>2. PICK order \in Bijection(DOMAIN repositories, DOMAIN repositories) :
        repositories' = [i \in DOMAIN repositories |-> repositories[order[i]]]
  BY DEF SortAndReturn
<1>3. /\ repositories' \in Seq(Node) /\ RangeOf(repositories') = RangeOf(repositories)
      /\ OneOfEach(repositories')
  BY <1>2, Sorting DEF IInv, Typed, Apart
<1>4. Found' = Found /\ Opening' = {} /\ Ahead' = Ahead
  BY <1>1, <1>3 DEF Found, RangeOf, Opening, Ahead
<1>5. Typed' /\ InStep' /\ DeletedWhole'
  BY <1>1, <1>3 DEF IInv, Typed, InStep, DeletedWhole
<1>6. Apart'
  BY <1>1, <1>3, <1>4 DEF IInv, Apart
<1>7. Covered'
  BY <1>1, <1>4, StillCovered DEF IInv
<1> QED
  BY <1>5, <1>6, <1>7 DEF IInv

(* What is deleted is no longer wanted.                                    *)
LEMMA StepVanish == ASSUME IInv, Vanish PROVE IInv'
<1>1. PICK n \in Node \ gone : gone' = gone \cup Below[n]
  BY DEF Vanish
<1>2. UNCHANGED <<kind, platform, step, pending, current, unread, repositories, warnings, error>>
  BY DEF Vanish, result
<1>3. gone' \in SUBSET Node /\ ClosedDownwards(gone')
  BY <1>1, BelowIsLeast DEF IInv, Typed, DeletedWhole, ClosedDownwards
<1>4. Found' = Found /\ Ahead' = Ahead /\ Opening' = Opening
  BY <1>2 DEF Found, Ahead, Opening
<1>5. Typed' /\ DeletedWhole'
  BY <1>2, <1>3 DEF IInv, Typed, DeletedWhole, ClosedDownwards
<1>6. InStep'
  BY <1>1, <1>2 DEF IInv, InStep, HasMarker, Markers
<1>7. Apart'
  BY <1>2, <1>4 DEF IInv, Apart
<1>8. \A k \in Node : Wanted(k)' => Wanted(k)
  BY <1>1, <1>2 DEF Wanted, InTheOpen, Entered
<1>9. Covered'
  BY <1>2, <1>4, <1>8 DEF IInv, Covered
<1> QED
  BY <1>5, <1>6, <1>7, <1>9 DEF IInv

LEMMA NextIInv == IInv /\ [Next]_vars => IInv'
<1> SUFFICES ASSUME IInv, [Next]_vars PROVE IInv'
  OBVIOUS
<1>1. CASE UNCHANGED vars
  <2>1. UNCHANGED <<kind, platform, gone, step, pending, current, unread, repositories, warnings,
                    error>>
    BY <1>1 DEF vars, world, result
  <2>2. Found' = Found /\ Ahead' = Ahead /\ Opening' = Opening
    BY <2>1 DEF Found, Ahead, Opening
  <2>3. Typed' /\ InStep' /\ DeletedWhole'
    BY <2>1 DEF IInv, Typed, InStep, DeletedWhole, HasMarker, Markers
  <2>4. Apart'
    BY <2>1, <2>2 DEF IInv, Apart
  <2>5. Covered'
    BY <2>1, <2>2 DEF IInv, Covered, Wanted, InTheOpen, Entered
  <2> QED
    BY <2>3, <2>4, <2>5 DEF IInv
<1> QED
  BY <1>1, StepOpenRoot, StepPopExcluded, StepInspectMarker, StepOpenDirectory, StepReadEntry,
     StepReadFindData, StepMissEntry, StepBreakOff, StepEndOfDirectory, StepSortAndReturn,
     StepVanish
  DEF Next, Walk

(* IInv holds throughout every execution.                                  *)
THEOREM Invariance == Spec => []IInv
BY InitIInv, NextIInv, PTL DEF Spec

(* The walk stops at every repository boundary, in every tree.             *)
THEOREM Boundaries == Spec => []StopsAtBoundary
<1>1. IInv => StopsAtBoundary
  <2> SUFFICES ASSUME IInv, NEW n \in Found PROVE Below[n] \cap Found = {n}
    BY DEF StopsAtBoundary
  <2>1. n \in Node
    BY FoundIsRange, Members DEF IInv, Typed
  <2>2. n \in Below[n]
    BY <2>1, BelowIsLeast
  <2> QED
    BY <2>2 DEF IInv, Apart
<1> QED
  BY <1>1, Invariance, PTL

(* Nothing is found or walked twice.                                       *)
THEOREM NoneTwice == Spec => []EachOnce
<1>1. IInv => EachOnce
  BY DEF IInv, Apart, OneOfEach, RangeOf, Ahead, EachOnce
<1> QED
  BY <1>1, Invariance, PTL

(* Without a warning nothing has been missed, whatever is deleted when.    *)
THEOREM NothingLost == Spec => []NothingLostSilently
<1>1. IInv => NothingLostSilently
  <2> SUFFICES ASSUME IInv, Done, error = "none", warnings = {}, NEW n \in Node, Wanted(n)
               PROVE  n \in Found
    BY DEF NothingLostSilently, Wanted
  <2>1. Ahead = {}
    BY ShortLists DEF IInv, InStep, Done, Ahead, Opening
  <2> QED
    BY <2>1 DEF IInv, Covered, Done
<1> QED
  BY <1>1, Invariance, PTL

-------------------------------------------------------------------------------
(* The Go walk, on a tree at rest.                                         *)

(* All that the Go walk makes of a node is in the list and the warnings.   *)
Handled(n) ==
  Entered(n) =>
    /\ kind[n].marker = "git" => n \in Found
    /\ kind[n].marker = "unreadable" => <<"inspect", n>> \in warnings
    /\ kind[n].marker # "git" /\ kind[n].listing # "all" => <<"walk", n>> \in warnings

(* The port goes nowhere, finds nothing and warns of nothing that the Go   *)
(* walk does not ...                                                       *)
NothingElse ==
  /\ Ahead \subseteq GoWalk(Root) /\ Found \subseteq GoRepositories /\ warnings \subseteq GoWarnings
  /\ \A n \in RangeOf(pending) \cup Opening : kind[n].type = "directory"
  /\ \A n \in Opening :
       /\ Entered(n) /\ kind[n].marker # "git"
       /\ kind[n].marker = "unreadable" => <<"inspect", n>> \in warnings

(* ... and what the Go walk comes to has been dealt with, or is reached    *)
(* from something ahead.                                                   *)
AllOfIt ==
  \A n \in GoWalk(Root) : Handled(n) \/ \E m \in Ahead : n \in GoWalk(m)

Mirrored ==
  gone = {} /\ Alike =>
    /\ step = "open root" => error = "none" /\ warnings = {}
    /\ step # "open root" /\ error # "resolve" => (error # "none" <=> GoFails)
    /\ step # "open root" /\ error = "none" => NothingElse /\ AllOfIt

Sorted ==
  step = "done" => \A i, j \in DOMAIN repositories : i < j => repositories[i] < repositories[j]

LEMMA GoWalkIsLeast ==
  ASSUME NEW n \in Node
  PROVE  /\ GoWalk(n) \subseteq Node /\ n \in GoWalk(n)
         /\ \A k \in DOMAIN Parent :
              Parent[k] \in GoWalk(n) /\ Descended(Parent[k]) => k \in GoWalk(n)
         /\ \A S \in SUBSET Node :
              /\ n \in S
              /\ \A k \in DOMAIN Parent : Parent[k] \in S /\ Descended(Parent[k]) => k \in S
              => GoWalk(n) \subseteq S
<1>1. GoWalk(n) =
        {m \in Node : \A S \in SUBSET Node :
           /\ n \in S
           /\ \A k \in DOMAIN Parent : Parent[k] \in S /\ Descended(Parent[k]) => k \in S
           => m \in S}
  BY DEF GoWalk
<1>2. ASSUME NEW k \in DOMAIN Parent, Parent[k] \in GoWalk(n), Descended(Parent[k])
      PROVE  k \in GoWalk(n)
  BY <1>1, <1>2, Tree
<1> QED
  BY <1>1, <1>2

(* The walk from a directory is the directory and the walks from its       *)
(* entries, if it is descended into, and no more.                          *)
LEMMA GoWalkGoesOn ==
  ASSUME NEW n \in Node, NEW m \in GoWalk(n), m # n
  PROVE  Descended(n) /\ \E c \in Children(n) : m \in GoWalk(c)
<1> DEFINE S == {n} \cup {k \in Node : Descended(n) /\ \E c \in Children(n) : k \in GoWalk(c)}
<1>1. S \in SUBSET Node /\ n \in S
  OBVIOUS
<1>2. ASSUME NEW k \in DOMAIN Parent, Parent[k] \in S, Descended(Parent[k]) PROVE k \in S
  <2>1. k \in Node
    BY Tree
  <2>2. CASE Parent[k] = n
    <3>1. k \in Children(n) /\ k \in GoWalk(k)
      BY <2>1, <2>2, GoWalkIsLeast DEF Children
    <3> QED
      BY <1>2, <2>1, <2>2, <3>1
  <2>3. CASE Parent[k] # n
    <3>1. PICK c \in Children(n) : Parent[k] \in GoWalk(c) /\ Descended(n)
      BY <1>2, <2>3
    <3>2. c \in Node
      BY Tree DEF Children
    <3> QED
      BY <1>2, <2>1, <3>1, <3>2, GoWalkIsLeast
  <2> QED
    BY <2>2, <2>3
<1>3. m \in S
  <2> HIDE DEF S
  <2> QED
    BY <1>1, <1>2, GoWalkIsLeast
<1> QED
  BY <1>3

LEMMA GoStays ==
  ASSUME UNCHANGED kind
  PROVE  /\ \A n : (GoWalk(n)' = GoWalk(n)) /\ (Entered(n)' <=> Entered(n))
         /\ GoRepositories' = GoRepositories /\ GoWarnings' = GoWarnings
         /\ GoFails' <=> GoFails
<1>1. \A n : Entered(n)' <=> Entered(n)
  BY DEF Entered
<1>2. \A n : Descended(n)' <=> Descended(n)
  BY DEF Descended, Entered
<1>3. \A n : GoWalk(n)' = GoWalk(n)
  BY <1>2 DEF GoWalk
<1>4. GoRepositories' = GoRepositories
  BY <1>3 DEF GoRepositories, Entered
<1>5. GoWarnings' = GoWarnings
  BY <1>3 DEF GoWarnings, Entered
<1> QED
  BY <1>1, <1>3, <1>4, <1>5 DEF GoFails

LEMMA GoWarnsOf ==
  ASSUME NEW n
  PROVE  /\ <<"inspect", n>> \in GoWarnings <=>
              n \in GoWalk(Root) /\ Entered(n) /\ kind[n].marker = "unreadable"
         /\ <<"walk", n>> \in GoWarnings <=>
              /\ n \in GoWalk(Root) /\ Entered(n)
              /\ kind[n].marker # "git" /\ kind[n].listing # "all"
BY DEF GoWarnings

(* As StillCovered.                                                        *)
LEMMA StillAllOfIt ==
  ASSUME AllOfIt, UNCHANGED kind, Found \subseteq Found', warnings \subseteq warnings',
         ASSUME NEW m \in Ahead, m \notin Ahead', NEW n \in GoWalk(m)
         PROVE  Handled(n)' \/ \E k \in Ahead' : n \in GoWalk(k)
  PROVE  AllOfIt'
<1>1. \A n : GoWalk(n)' = GoWalk(n)
  BY GoStays
<1>2. \A n : Handled(n) => Handled(n)'
  BY DEF Handled, Entered
<1> SUFFICES ASSUME NEW n \in GoWalk(Root)
             PROVE  Handled(n)' \/ \E k \in Ahead' : n \in GoWalk(k)
  BY <1>1 DEF AllOfIt
<1>3. Handled(n) \/ \E m \in Ahead : n \in GoWalk(m)
  BY DEF AllOfIt
<1> QED
  BY <1>2, <1>3

(* The two walks, at rest and where they are alike, before and after a     *)
(* step.                                                                   *)
InStepWithGo == gone = {} /\ Alike /\ error = "none" /\ NothingElse /\ AllOfIt

(* A directory the Go walk does not enter ends both walks.                 *)
LEMMA NotEntered ==
  ASSUME NEW n \in Node, ~Entered(n), NEW m \in GoWalk(n), UNCHANGED kind
  PROVE  Handled(m)'
<1>1. m = n
  BY GoWalkGoesOn DEF Descended
<1> QED
  BY <1>1 DEF Handled, Entered

LEMMA MirrorPopExcluded ==
  ASSUME IInv, InStepWithGo, PopExcluded
  PROVE  NothingElse' /\ AllOfIt'
<1>1. /\ step = "pop" /\ pending # <<>> /\ IsExcluded(Top) /\ pending' = Popped
      /\ UNCHANGED <<kind, step, current, unread, repositories, warnings>>
  BY DEF PopExcluded, world, result
<1>2. /\ Top \in Node /\ RangeOf(pending) = RangeOf(Popped) \cup {Top}
  BY <1>1, Popping DEF IInv, Typed
<1>3. /\ Found' = Found /\ Opening = {} /\ Opening' = {} /\ Ahead = Ahead' \cup {Top}
      /\ RangeOf(pending)' \subseteq RangeOf(pending)
  BY <1>1, <1>2 DEF Found, Ahead, Opening, RangeOf
<1>4. NothingElse'
  BY <1>1, <1>3, GoStays DEF InStepWithGo, NothingElse
<1>5. ~Entered(Top)
  BY <1>1 DEF IsExcluded, Entered
<1>6. AllOfIt'
  BY <1>1, <1>2, <1>3, <1>5, NotEntered, StillAllOfIt DEF InStepWithGo
<1> QED
  BY <1>4, <1>6

LEMMA MirrorInspectMarker ==
  ASSUME IInv, InStepWithGo, InspectMarker
  PROVE  NothingElse' /\ AllOfIt'
<1> PICK top : top = Top
  OBVIOUS
<1>1. /\ step = "pop" /\ pending # <<>> /\ pending' = Popped /\ current' = top
      /\ ~IsExcluded(top)
      /\ repositories' = IF HasMarker(top) THEN Append(repositories, top) ELSE repositories
      /\ step' = IF HasMarker(top) THEN "pop" ELSE "open"
      /\ warnings' = warnings \cup MarkerWarning(top) /\ UNCHANGED <<kind, unread>>
  BY DEF InspectMarker, AfterMarker, world
<1>2. /\ top \in Node /\ Popped \in Seq(Node) /\ RangeOf(pending) = RangeOf(Popped) \cup {top}
  BY <1>1, Popping DEF IInv, Typed
<1>3. Opening = {} /\ top \in Ahead /\ Ahead = RangeOf(pending) \cup unread
  BY <1>1, <1>2 DEF Opening, Ahead
<1>4. top \in GoWalk(Root) /\ kind[top].type = "directory"
  BY <1>2, <1>3 DEF InStepWithGo, NothingElse
<1>5. Entered(top)
  BY <1>1, <1>4 DEF IsExcluded, Entered, InStepWithGo, Alike
<1>6. HasMarker(top) <=> kind[top].marker = "git"
  BY <1>2 DEF HasMarker, Markers, WindowsMarkers, InStepWithGo, Alike, IInv, Typed
<1>7. MarkerWarning(top) = IF kind[top].marker = "unreadable" THEN {<<"inspect", top>>} ELSE {}
  BY DEF MarkerWarning, InStepWithGo
<1>8. warnings' \subseteq GoWarnings
  <2>1. warnings \subseteq GoWarnings
    BY DEF InStepWithGo, NothingElse
  <2>2. kind[top].marker = "unreadable" => <<"inspect", top>> \in GoWarnings
    BY <1>4, <1>5, GoWarnsOf
  <2> QED
    BY <1>1, <1>7, <2>1, <2>2
<1>9. CASE HasMarker(top)
  <2>1. Found' = Found \cup {top} /\ Opening' = {} /\ Ahead' = RangeOf(Popped) \cup unread
    <3>1. Found' = RangeOf(repositories') /\ Found = RangeOf(repositories)
      BY DEF Found, RangeOf
    <3>2. Found' = Found \cup {top}
      BY <1>1, <1>2, <1>9, <3>1, Pushed DEF IInv, Typed
    <3> QED
      BY <1>1, <1>9, <3>2 DEF Ahead, Opening, RangeOf
  <2>2. top \in GoRepositories
    BY <1>4, <1>5, <1>6, <1>9 DEF GoRepositories
  <2>3. RangeOf(pending)' = RangeOf(Popped)
    BY <1>1 DEF RangeOf
  <2>4. NothingElse'
    BY <1>1, <1>2, <1>3, <1>8, <2>1, <2>2, <2>3, GoStays DEF InStepWithGo, NothingElse
  <2>5. Handled(top)'
    BY <1>1, <1>6, <1>9, <2>1 DEF Handled
  <2>6. ASSUME NEW m \in GoWalk(top) PROVE m = top
    BY <1>2, <1>6, <1>9, GoWalkGoesOn DEF Descended
  <2>7. AllOfIt'
    BY <1>1, <1>2, <1>3, <2>1, <2>5, <2>6, StillAllOfIt DEF InStepWithGo
  <2> QED
    BY <2>4, <2>7
<1>10. CASE ~HasMarker(top)
  <2>1. Found' = Found /\ Opening' = {top} /\ Ahead' = Ahead
    BY <1>1, <1>2, <1>3, <1>10 DEF Found, Ahead, Opening, RangeOf
  <2>2. RangeOf(pending)' \subseteq RangeOf(pending)
    BY <1>1, <1>2 DEF RangeOf
  <2>3. kind[top].marker = "unreadable" => <<"inspect", top>> \in warnings'
    BY <1>1, <1>7
  <2>4. NothingElse'
    BY <1>1, <1>3, <1>4, <1>5, <1>6, <1>8, <1>10, <2>1, <2>2, <2>3, GoStays
    DEF InStepWithGo, NothingElse
  <2>5. AllOfIt'
    BY <1>1, <2>1, StillAllOfIt DEF InStepWithGo
  <2> QED
    BY <2>4, <2>5
<1> QED
  BY <1>9, <1>10

LEMMA MirrorOpenDirectory ==
  ASSUME IInv, InStepWithGo, OpenDirectory
  PROVE  NothingElse' /\ AllOfIt'
<1>1. /\ step = "open" /\ unread = {} /\ current \in Node
      /\ UNCHANGED <<kind, pending, current, repositories>>
  BY DEF IInv, Typed, InStep, OpenDirectory, world
<1>2. /\ Found' = Found /\ Opening = {current} /\ Ahead = RangeOf(pending) \cup {current}
      /\ RangeOf(pending)' = RangeOf(pending)
  BY <1>1 DEF Found, Opening, Ahead, RangeOf
<1>3. /\ current \in GoWalk(Root) /\ Entered(current) /\ kind[current].marker # "git"
      /\ kind[current].marker = "unreadable" => <<"inspect", current>> \in warnings
  BY <1>2 DEF InStepWithGo, NothingElse
<1>4. kind[current].listing \in {"all", "none"}
  BY <1>1 DEF IInv, Typed, Kind, InStepWithGo, Alike
<1>5. CASE CanOpen(current)
  <2>1. step' = "read" /\ unread' = Children(current) /\ warnings' = warnings
    BY <1>5 DEF OpenDirectory, InStepWithGo
  <2>2. Opening' = {} /\ Ahead' = RangeOf(pending) \cup Children(current)
    BY <1>1, <2>1 DEF Opening, Ahead, RangeOf
  <2>3. kind[current].listing = "all" /\ Descended(current)
    BY <1>3, <1>4, <1>5 DEF CanOpen, Descended
  <2>4. Children(current) \subseteq GoWalk(Root)
    BY <1>3, <2>3, Tree, GoWalkIsLeast DEF Children
  <2>5. NothingElse'
    BY <1>1, <1>2, <2>1, <2>2, <2>4, GoStays DEF InStepWithGo, NothingElse
  <2>6. Handled(current)'
    BY <1>1, <1>3, <2>1, <2>3 DEF Handled
  <2>7. ASSUME NEW n \in GoWalk(current), n # current
        PROVE  \E c \in Ahead' : n \in GoWalk(c)
    BY <1>1, <2>2, <2>7, GoWalkGoesOn
  <2>8. AllOfIt'
    BY <1>1, <1>2, <2>1, <2>2, <2>6, <2>7, StillAllOfIt DEF InStepWithGo
  <2> QED
    BY <2>5, <2>8
<1>6. CASE ~CanOpen(current)
  <2>1. step' = "pop" /\ unread' = {} /\ warnings' = warnings \cup OpenWarning(current)
    BY <1>1, <1>6 DEF OpenDirectory
  <2>2. Opening' = {} /\ Ahead' = RangeOf(pending)
    BY <1>1, <2>1 DEF Opening, Ahead, RangeOf
  <2>3. kind[current].listing = "none" /\ OpenWarning(current) = {<<"walk", current>>}
    BY <1>4, <1>6 DEF CanOpen, OpenWarning, SearchWarning, InStepWithGo
  <2>4. warnings' \subseteq GoWarnings
    BY <1>3, <2>1, <2>3, GoWarnsOf DEF InStepWithGo, NothingElse
  <2>5. NothingElse'
    BY <1>1, <1>2, <2>2, <2>4, GoStays DEF InStepWithGo, NothingElse
  <2>6. Handled(current)'
    BY <1>1, <1>3, <2>1, <2>3 DEF Handled
  <2>7. ASSUME NEW n \in GoWalk(current) PROVE n = current
    BY <1>1, <2>3, GoWalkGoesOn DEF Descended
  <2>8. AllOfIt'
    BY <1>1, <1>2, <2>1, <2>2, <2>6, <2>7, StillAllOfIt DEF InStepWithGo
  <2> QED
    BY <2>5, <2>8
<1> QED
  BY <1>5, <1>6

(* As TakingOff.                                                           *)
LEMMA MirrorTakingOff ==
  ASSUME IInv, InStepWithGo, step = "read", NEW e \in unread, unread' = unread \ {e},
         UNCHANGED <<kind, step, current, repositories, warnings>>,
         \/ pending' = Append(pending, e) /\ kind[e].type = "directory"
         \/ pending' = pending /\ ~Entered(e)
  PROVE  NothingElse' /\ AllOfIt'
<1>1. e \in Node
  BY DEF IInv, Typed
<1>2. /\ Found' = Found /\ Opening = {} /\ Opening' = {}
      /\ Ahead = RangeOf(pending) \cup unread
  BY DEF Found, Opening, Ahead
<1>3. Ahead' = RangeOf(pending') \cup (unread \ {e}) /\ RangeOf(pending)' = RangeOf(pending')
  BY <1>2 DEF Ahead, RangeOf
<1>4. CASE pending' = Append(pending, e) /\ kind[e].type = "directory"
  <2>1. RangeOf(pending') = RangeOf(pending) \cup {e}
    BY <1>1, <1>4, Pushed DEF IInv, Typed
  <2>2. Ahead' = Ahead
    BY <1>2, <1>3, <2>1
  <2>3. NothingElse'
    BY <1>2, <1>3, <1>4, <2>1, <2>2, GoStays DEF InStepWithGo, NothingElse
  <2>4. AllOfIt'
    BY <1>2, <2>2, StillAllOfIt DEF InStepWithGo
  <2> QED
    BY <2>3, <2>4
<1>5. CASE pending' = pending /\ ~Entered(e)
  <2>1. NothingElse'
    BY <1>2, <1>3, <1>5, GoStays DEF InStepWithGo, NothingElse
  <2>2. AllOfIt'
    BY <1>1, <1>2, <1>3, <1>5, NotEntered, StillAllOfIt DEF InStepWithGo
  <2> QED
    BY <2>1, <2>2
<1> QED
  BY <1>4, <1>5

LEMMA MirrorReadEntry ==
  ASSUME IInv, InStepWithGo, ReadEntry
  PROVE  NothingElse' /\ AllOfIt'
<1>1. PICK e \in unread :
        /\ unread' = Rest(e)
        /\ IF ShouldDescend(e) /\ ~IsExcluded(e)
           THEN pending' = Append(pending, e) /\ UNCHANGED warnings
           ELSE /\ warnings' = warnings \cup IF TypeFails(e) THEN {<<"inspect", e>>} ELSE {}
                /\ UNCHANGED pending
  BY DEF ReadEntry
<1>2. step = "read" /\ platform = "posix" /\ UNCHANGED <<kind, step, current, repositories>>
  BY DEF ReadEntry, world
<1>3. e \in Node \ {Root}
  BY DEF IInv, Typed
<1>4. ~TypeFails(e)
  BY <1>2, <1>3 DEF TypeFails, InStepWithGo, Alike
<1>5. /\ warnings' = warnings
      /\ \/ pending' = Append(pending, e) /\ kind[e].type = "directory"
         \/ pending' = pending /\ ~Entered(e)
  BY <1>1, <1>4 DEF ShouldDescend, IsExcluded, Entered
<1> QED
  BY <1>1, <1>2, <1>5, MirrorTakingOff DEF Rest

LEMMA MirrorReadFindData ==
  ASSUME IInv, InStepWithGo, ReadFindData
  PROVE  NothingElse' /\ AllOfIt'
<1>1. PICK e \in unread :
        /\ unread' = Rest(e)
        /\ pending' = IF IsPlainDirectory(e) /\ ~IsExcluded(e) THEN Append(pending, e)
                      ELSE pending
  BY DEF ReadFindData
<1>2. step = "read" /\ UNCHANGED <<kind, step, current, repositories, warnings>>
  BY DEF ReadFindData, world, result
<1>3. \/ pending' = Append(pending, e) /\ kind[e].type = "directory"
      \/ pending' = pending /\ ~Entered(e)
  BY <1>1 DEF IsPlainDirectory, IsExcluded, Entered
<1> QED
  BY <1>1, <1>2, <1>3, MirrorTakingOff DEF Rest

LEMMA MirrorEndOfDirectory ==
  ASSUME IInv, InStepWithGo, EndOfDirectory \/ SortAndReturn
  PROVE  NothingElse' /\ AllOfIt'
<1>1. /\ step \in {"read", "pop"} /\ step' \in {"pop", "done"}
      /\ UNCHANGED <<kind, pending, current, unread, warnings>>
  BY DEF EndOfDirectory, SortAndReturn, world, result
<1>2. Found' = Found
  <2>1. CASE EndOfDirectory
    BY <2>1 DEF EndOfDirectory, result, Found
  <2>2. CASE SortAndReturn
    <3>1. PICK order \in Bijection(DOMAIN repositories, DOMAIN repositories) :
            repositories' = [i \in DOMAIN repositories |-> repositories[order[i]]]
      BY <2>2 DEF SortAndReturn
    <3>2. RangeOf(repositories') = RangeOf(repositories)
      BY <3>1, Sorting DEF IInv, Typed
    <3> QED
      BY <3>2 DEF Found, RangeOf
  <2> QED
    BY <2>1, <2>2
<1>3. Opening' = Opening /\ Ahead' = Ahead /\ RangeOf(pending)' = RangeOf(pending)
  BY <1>1 DEF Opening, Ahead, RangeOf
<1>4. NothingElse'
  BY <1>1, <1>2, <1>3, GoStays DEF InStepWithGo, NothingElse, Opening
<1>5. AllOfIt'
  BY <1>1, <1>2, <1>3, StillAllOfIt DEF InStepWithGo
<1> QED
  BY <1>4, <1>5

LEMMA MirrorOpenRoot ==
  ASSUME IInv, Mirrored, OpenRoot, gone = {}, Alike
  PROVE  /\ error' # "resolve" => (error' # "none" <=> GoFails)
         /\ error' = "none" => NothingElse' /\ AllOfIt'
<1>1. /\ step = "open root" /\ unread = {} /\ repositories = <<>> /\ warnings = {}
      /\ UNCHANGED <<kind, unread, repositories, warnings>>
  BY DEF IInv, InStep, Mirrored, OpenRoot, world
<1>2. kind[Root].type \in {"directory", "bad link", "file"}
  BY Tree DEF IInv, Typed, Kind, Alike
<1>3. error' # "resolve" =>
        error' = IF kind[Root].type = "bad link" THEN "open"
                 ELSE IF kind[Root].type = "file" THEN "not a directory" ELSE "none"
  BY DEF OpenRoot
<1>4. error' # "resolve" => (error' # "none" <=> GoFails)
  BY <1>2, <1>3 DEF GoFails
<1>5. ASSUME error' = "none" PROVE NothingElse' /\ AllOfIt'
  <2>1. step' = "pop" /\ pending' = <<Root>> /\ kind[Root].type = "directory"
    BY <1>2, <1>3, <1>5 DEF OpenRoot
  <2>2. Found' = {} /\ RangeOf(pending)' = {Root} /\ Opening' = {} /\ Ahead' = {Root}
    BY <1>1, <2>1, ShortLists DEF Found, RangeOf, Ahead, Opening
  <2>3. Root \in GoWalk(Root)
    BY Tree, GoWalkIsLeast
  <2>4. NothingElse'
    BY <1>1, <2>1, <2>2, <2>3, GoStays DEF NothingElse
  <2>5. AllOfIt'
    BY <2>2 DEF AllOfIt
  <2> QED
    BY <2>4, <2>5
<1> QED
  BY <1>4, <1>5

LEMMA NextMirrored == IInv /\ Mirrored /\ [Next]_vars => Mirrored'
<1> SUFFICES ASSUME IInv, Mirrored, [Next]_vars, (gone = {})', Alike'
             PROVE  /\ (step = "open root" => error = "none" /\ warnings = {})'
                    /\ (step # "open root" /\ error # "resolve" => (error # "none" <=> GoFails))'
                    /\ (step # "open root" /\ error = "none" => NothingElse /\ AllOfIt)'
  BY DEF Mirrored
<1>1. UNCHANGED <<kind, platform>>
  BY DEF Next, Walk, Vanish, vars, world, OpenRoot, PopExcluded, InspectMarker, OpenDirectory,
         ReadEntry, ReadFindData, MissEntry, BreakOff, EndOfDirectory, SortAndReturn
<1>2. ~Vanish
  BY BelowIsLeast DEF Vanish
<1>3. gone = {}
  BY <1>2 DEF Next, Walk, vars, world, OpenRoot, PopExcluded, InspectMarker, OpenDirectory,
         ReadEntry, ReadFindData, MissEntry, BreakOff, EndOfDirectory, SortAndReturn
<1>4. Alike
  BY <1>1 DEF Alike
<1>5. ~BreakOff /\ ~MissEntry
  BY <1>3, <1>4 DEF BreakOff, MissEntry, Alike, IInv, Typed
<1>6. CASE OpenRoot
  <2>1. step' # "open root"
    BY <1>6 DEF OpenRoot
  <2> QED
    BY <1>1, <1>3, <1>4, <1>6, <2>1, MirrorOpenRoot, GoStays
<1>7. CASE UNCHANGED vars
  <2>1. UNCHANGED <<step, error, warnings, pending, current, unread, repositories>>
    BY <1>7 DEF vars, result
  <2>2. /\ Found' = Found /\ Ahead' = Ahead /\ Opening' = Opening
        /\ RangeOf(pending)' = RangeOf(pending)
    BY <2>1 DEF Found, Ahead, Opening, RangeOf
  <2>3. NothingElse => NothingElse'
    BY <1>1, <2>1, <2>2, GoStays DEF NothingElse
  <2>4. AllOfIt => AllOfIt'
    BY <1>1, <2>1, <2>2, StillAllOfIt
  <2> QED
    BY <1>1, <1>3, <1>4, <2>1, <2>3, <2>4, GoStays DEF Mirrored
<1>8. CASE Walk /\ ~OpenRoot
  <2>1. error' = error /\ step # "open root" /\ step' # "open root"
    BY <1>5, <1>8 DEF Walk, result, PopExcluded, InspectMarker, AfterMarker, OpenDirectory,
         ReadEntry, ReadFindData, EndOfDirectory, SortAndReturn
  <2>2. error = "none" => NothingElse' /\ AllOfIt'
    BY <1>3, <1>4, <1>5, <1>8, <2>1, MirrorPopExcluded, MirrorInspectMarker,
       MirrorOpenDirectory, MirrorReadEntry, MirrorReadFindData, MirrorEndOfDirectory
    DEF Walk, Mirrored, InStepWithGo
  <2> QED
    BY <1>1, <1>3, <1>4, <2>1, <2>2, GoStays DEF Mirrored
<1> QED
  BY <1>2, <1>6, <1>7, <1>8 DEF Next

LEMMA NextSorted == IInv /\ Sorted /\ [Next]_vars => Sorted'
<1> SUFFICES ASSUME IInv, Sorted, [Next]_vars, step' = "done" PROVE Sorted'
  BY DEF Sorted
<1>1. CASE SortAndReturn
  <2>1. PICK order \in Bijection(DOMAIN repositories, DOMAIN repositories) :
          /\ repositories' = [i \in DOMAIN repositories |-> repositories[order[i]]]
          /\ \A i, j \in DOMAIN repositories : i < j => repositories'[i] <= repositories'[j]
    BY <1>1 DEF SortAndReturn
  <2>2. repositories' \in Seq(Node) /\ OneOfEach(repositories')
    BY <2>1, Sorting DEF IInv, Typed, Apart
  <2>3. DOMAIN repositories' = DOMAIN repositories
    BY <2>1
  <2>4. \A i \in DOMAIN repositories' : i \in Nat /\ repositories'[i] \in Nat
    <3>1. RangeOf(repositories') \subseteq Nat
      BY <2>2, Members, Tree
    <3>2. DOMAIN repositories' = 1 .. Len(repositories')
      BY <2>2
    <3> QED
      BY <3>1, <3>2 DEF RangeOf
  <2> QED
    BY <2>1, <2>2, <2>3, <2>4 DEF Sorted, OneOfEach
<1>2. CASE OpenRoot
  <2>1. repositories' = <<>>
    BY <1>2 DEF OpenRoot, IInv, InStep
  <2> QED
    BY <2>1 DEF Sorted
<1>3. CASE UNCHANGED vars \/ Vanish
  BY <1>3 DEF vars, result, Vanish, Sorted
<1>4. CASE Walk /\ ~SortAndReturn /\ ~OpenRoot
  <2>1. FALSE
    BY <1>4 DEF Walk, PopExcluded, InspectMarker, AfterMarker, OpenDirectory, ReadEntry,
         ReadFindData, MissEntry, BreakOff, AfterBreak, EndOfDirectory
  <2> QED
    BY <2>1
<1> QED
  BY <1>1, <1>2, <1>3, <1>4 DEF Next

(* The port finds what the Go walk finds and warns of what it warns of, in *)
(* every tree at rest, in whatever order the entries come.                 *)
THEOREM Mirroring == Spec => []MirrorsGo
<1>1. Init => Mirrored /\ Sorted
  BY DEF Init, Mirrored, Sorted
<1>2. IInv /\ Mirrored /\ Sorted => MirrorsGo
  <2> SUFFICES ASSUME IInv, Mirrored, Sorted, Done, AtRest, Alike PROVE
         /\ error # "none" <=> GoFails
         /\ error = "none" => Found = GoRepositories /\ warnings = GoWarnings
    BY DEF MirrorsGo, Sorted, Done
  <2>1. error # "none" <=> GoFails
    BY DEF Mirrored, Done, AtRest
  <2>2. ASSUME error = "none" PROVE Found = GoRepositories /\ warnings = GoWarnings
    <3>1. NothingElse /\ AllOfIt /\ Ahead = {}
      BY <2>2, ShortLists DEF Mirrored, Done, AtRest, IInv, InStep, Ahead, Opening
    <3>2. \A n \in GoWalk(Root) : Handled(n)
      BY <3>1 DEF AllOfIt
    <3>3. GoRepositories \subseteq Found
      BY <3>2 DEF Handled, GoRepositories
    <3>4. GoWarnings \subseteq warnings
      BY <3>2 DEF Handled, GoWarnings
    <3> QED
      BY <3>1, <3>3, <3>4 DEF NothingElse
  <2> QED
    BY <2>1, <2>2
<1> QED
  BY <1>1, <1>2, NextMirrored, NextSorted, Invariance, PTL DEF Spec

===============================================================================
