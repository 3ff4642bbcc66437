------------------------------ MODULE MCDiscovery ------------------------------
EXTENDS Discovery

(*            0        Two directories in the root, one with an entry.     *)
(*          /   \                                                          *)
(*         1     3                                                         *)
(*         |                                                               *)
(*         2                                                               *)
FourNodes == 0 .. 3
FourParents == <<0, 1, 0>>

K(type, excluded, marker, listing) ==
  [type |-> type, excluded |-> excluded, marker |-> marker, listing |-> listing]

Plain == K("directory", FALSE, "none", "all")
Repository == K("directory", FALSE, "git", "all")
ExcludedRepository == K("directory", TRUE, "git", "all")
Excluded == K("directory", TRUE, "none", "all")
Unlistable == K("directory", FALSE, "none", "none")
Unsearchable == K("directory", FALSE, "unreadable", "all")
Breaking == K("directory", FALSE, "none", "breaks")
LinkedMarker == K("directory", FALSE, "dead link", "all")
LinkToDirectory == K("link", FALSE, "none", "all")
LinkToRepository == K("link", FALSE, "git", "all")
LoopingLink == K("bad link", FALSE, "none", "none")
File == K("file", FALSE, "none", "none")

Roots == {Plain, Repository, Excluded, Unlistable, Unsearchable, Breaking, LinkToDirectory,
          LoopingLink, File}
Everything == {Plain, Repository, ExcludedRepository, Unlistable, Unsearchable, Breaking,
               LinkedMarker, LinkToRepository, LoopingLink, File}
OnlyExcluded == {Excluded}
OnlyRepositories == {Plain, Repository}

===============================================================================
