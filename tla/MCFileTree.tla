----------------------------- MODULE MCFileTree -----------------------------
(* FileTree for TLC: two processes make a call each, on three trees.        *)
EXTENDS FileTree

CONSTANTS p1, p2, a, b, c, x, y

ADir == [kind |-> "dir"]
AFile(body) == [kind |-> "file", body |-> body]
ALink(to) == [kind |-> "link", to |-> to]

(* A directory with a file and a directory in it, and links. *)
Grown ==
  (<<a>> :> ADir) @@ (<<a, a>> :> AFile(<<x, y>>)) @@ (<<a, b>> :> ADir)
  @@ (<<a, b, c>> :> ALink(<<a, a>>)) @@ (<<b>> :> ALink(<<a>>))
(* Its copy is half there; b leads nowhere. *)
Half ==
  (<<a>> :> ADir) @@ (<<a, a>> :> AFile(<<x>>))
  @@ (<<b>> :> ALink(<<c, c>>)) @@ (<<c>> :> ADir) @@ (<<c, a>> :> AFile(<<y, y>>))
(* Links in the place of directories, one of them where a copy of a goes.   *)
Crossed ==
  (<<a>> :> ADir) @@ (<<a, b>> :> ADir) @@ (<<a, b, c>> :> AFile(<<x>>))
  @@ (<<b>> :> ALink(<<a>>)) @@ (<<c>> :> ADir) @@ (<<c, b>> :> ALink(<<a>>))
MCTrees == {<< >>, Grown, Half, Crossed}

MCCalls ==
  {MkdirP(<<c, b>>), MkdirP(<<b, c>>), MkdirP(<<c, c>>), MkdirP(<<c, b, a>>),
   CpDir(<<a>>, <<c>>, TRUE), CpDir(<<c>>, <<c, b>>, FALSE), CpDir(<<b>>, <<a>>, TRUE),
   CpFile(<<b, a>>, <<c>>, FALSE), CpFile(<<a, a>>, <<c, a>>, TRUE), CpFile(<<b, a>>, <<a, a>>, TRUE),
   WriteAll(<<b>>, <<y>>, TRUE), WriteAll(<<c, b>>, <<y>>, FALSE), WriteZstd(<<c>>, <<y, x>>),
   RmR(<<a>>), RmR(<<b>>), RmR(<<c>>), RmR(<<b, b>>), Unlink(<<b>>), Unlink(<<a, b, c>>),
   LnSf(<<a>>, <<c>>, TRUE), LnSf(<<c>>, <<b>>, TRUE), LnSf(<<a>>, <<b>>, TRUE),
   LnSf(<<a>>, <<c, b>>, FALSE), Touch(<<b>>), Touch(<<c, c>>)}

MCProcs == {p1, p2}
MCNames == {a, b, c}
SameProcs == Permutations(MCProcs)
=============================================================================
