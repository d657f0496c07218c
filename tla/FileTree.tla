----------------------------- MODULE FileTree ------------------------------
(***************************************************************************)
(* libmcpkg/fs/mcpkg_fs_dir.c and mcpkg_fs_file.c on POSIX: the functions  *)
(* that change the file tree, as the system calls they make, run by        *)
(* several processes (or threads) at once.  Between two system calls of    *)
(* one the others may do anything; what a call looked at may be gone.      *)
(*                                                                         *)
(* A path is a sequence of names, <<>> the root, which is always there.    *)
(* The tree maps the other paths that exist to inodes, so a file that is   *)
(* open stays one when its name goes.  Any system call may fail for a      *)
(* reason of its own.  An error code is "failed", whichever it is.  An     *)
(* operator named Op_Slip is Op with a slip; the mutants of PROJECT.json   *)
(* put it in the place of Op.                                              *)
(***************************************************************************)
EXTENDS Integers, Sequences, SequencesExt, FiniteSets, FiniteSetsExt, Functions, TLC

CONSTANTS
  Procs,
  Names,     \* names of entries
  PathMax,   \* names in the longest path (PATH_MAX)
  MaxFaults, \* bounds the calls in which a system call fails
  Trees,     \* the trees to begin with
  Calls,     \* the calls made
  Null

ASSUME FileAssumption ==
  /\ PathMax \in Nat \ {0} /\ MaxFaults \in Nat
  /\ Null \notin Procs /\ Null \notin Names /\ Null # "ok"
  /\ \A v \in Trees : DOMAIN v \subseteq Seq(Names) \ {<<>>} /\ \A q \in DOMAIN v :
       /\ Len(q) > 1 => Front(q) \in DOMAIN v /\ v[Front(q)].kind = "dir"
       /\ v[q].kind \in {"dir", "file", "link"}
       /\ v[q].kind = "link" => v[q].to \in Seq(Names) /\ Len(v[q].to) <= PathMax

VARIABLES
  tree, data,  \* path -> entry, inode of a file -> its blocks
  made,        \* how many inodes each process has made
  call, stack, \* what each process runs, its innermost function first
  res,
  start,       \* the tree when the call began, while nobody else made one
  faulty,      \* the processes that met a failing system call
  removers     \* the processes that removed something

files == <<tree, data, made>>
history == <<faulty, removers>>
vars == <<files, call, stack, res, start, history>>

Dir(i) == [kind |-> "dir", ino |-> i]
File(i) == [kind |-> "file", ino |-> i]
Link(i, to) == [kind |-> "link", ino |-> i, to |-> to]

-----------------------------------------------------------------------------
(* Path resolution, by the system. *)

Nowhere == <<Null>>
Kind(t, q) == IF q = <<>> THEN "dir" ELSE IF q \in DOMAIN t THEN t[q].kind ELSE "none"
Ino(t, q) == IF q \in DOMAIN t THEN t[q].ino ELSE Null
Upto(path, i) == SubSeq(path, 1, i)

(* One name further, while there are names.  A missing last name leads to   *)
(* the place where it would be made; links have absolute targets.           *)
Onward(t, w) ==
  LET q == Append(w.at, Head(w.names)) IN
  CASE w.names = <<>> -> w
    [] w.names # <<>> /\ Kind(t, q) = "dir" ->
         [at |-> q, names |-> Tail(w.names), hops |-> w.hops]
    [] w.names # <<>> /\ Kind(t, q) = "link" /\ w.hops > 0 ->
         [at |-> <<>>, names |-> t[q].to \o Tail(w.names), hops |-> w.hops - 1]
    [] OTHER ->
         [at |-> IF Kind(t, q) # "link" /\ Len(w.names) = 1 THEN q ELSE Nowhere,
          names |-> <<>>, hops |-> w.hops]

(* Links are followed MaxLinks times; none is longer than PathMax.          *)
MaxLinks == 3
Walk(t, path) ==
  LET steps == Len(path) + MaxLinks * PathMax
      walked[k \in 0 .. steps] ==
        IF k = 0 THEN [at |-> <<>>, names |-> path, hops |-> MaxLinks]
        ELSE LET w == walked[k - 1] IN Onward(t, w)
      end == walked[steps]
  IN  IF end.names = <<>> THEN end.at ELSE Nowhere
Real(t, path) == IF Len(path) > PathMax THEN Nowhere ELSE Walk(t, path)

(* The entry itself, be it a link. *)
Place(t, path) ==
  LET d == Real(t, Front(path)) IN
  IF Len(path) > PathMax \/ Kind(t, d) # "dir" THEN Nowhere
  ELSE Append(d, Last(path))

-----------------------------------------------------------------------------
(* The functions and their activation records. *)

MkdirP(path) == [fn |-> "mkdir_p", at |-> "stat", path |-> path, i |-> 1]
CpDir(src, dst, over) ==
  [fn |-> "cp_dir", at |-> "opendir", path |-> src, dst |-> dst, over |-> over]
CpFile(src, dst, over) ==
  [fn |-> "cp_file", at |-> "in", path |-> src, dst |-> dst, over |-> over]
WriteAll(dst, body, over) ==
  [fn |-> "write_all", at |-> "out", dst |-> dst, body |-> body, over |-> over]
(* fopen(path, "wb"), and a zstd frame.  When memory or the compression     *)
(* fails the file is empty by then.                                         *)
WriteZstd(dst, frame) == WriteAll(dst, frame, TRUE)
RmR(path) == [fn |-> "rm_r", at |-> "lstat", path |-> path]
Unlink(path) == [fn |-> "unlink", at |-> "lstat", path |-> path]
LnSf(to, path, over) ==
  [fn |-> "ln_sf", at |-> IF over THEN "lstat" ELSE "symlink", path |-> path, to |-> to]
Touch(path) == [fn |-> "touch", at |-> "open", path |-> path]

(* No path is empty; symlink turns down a target too long.                  *)
ASSUME CallAssumption ==
  Null \notin Calls /\ \A c \in Calls :
    /\ "fn" \in DOMAIN c /\ \A x \in {"path", "dst"} \cap DOMAIN c : c[x] \in Seq(Names) \ {<<>>}
    /\ \/ c.fn = "mkdir_p" /\ c = MkdirP(c.path)
       \/ c.fn = "cp_dir" /\ c = CpDir(c.path, c.dst, c.over)
       \/ c.fn = "cp_file" /\ c = CpFile(c.path, c.dst, c.over)
       \/ c.fn = "write_all" /\ c = WriteAll(c.dst, c.body, c.over)
       \/ c.fn = "rm_r" /\ c = RmR(c.path)
       \/ c.fn = "unlink" /\ c = Unlink(c.path)
       \/ c.fn = "ln_sf" /\ c = LnSf(c.to, c.path, c.at = "lstat")
          /\ c.to \in Seq(Names) /\ Len(c.to) <= PathMax
       \/ c.fn = "touch" /\ c = Touch(c.path)

(* f with more of its variables set. *)
Having(f, more) ==
  [x \in DOMAIN f \cup DOMAIN more |-> IF x \in DOMAIN more THEN more[x] ELSE f[x]]

(* cp_dir makes its destination first. *)
Entered(f) == IF f.fn = "cp_dir" THEN <<MkdirP(f.dst), f>> ELSE <<f>>

Busy(p) == stack[p] # <<>>
Top(p) == Head(stack[p])
In(p, fn, at) == Busy(p) /\ Top(p).fn \in fn /\ Top(p).at = at

Goto(p, f) == stack' = [stack EXCEPT ![p] = <<f>> \o Tail(@)] /\ UNCHANGED res
Enter(p, f, g) == stack' = [stack EXCEPT ![p] = Entered(g) \o <<f>> \o Tail(@)] /\ UNCHANGED res
Ok(p) ==
  /\ stack' = [stack EXCEPT ![p] = Tail(@)]
  /\ res' = IF Len(stack[p]) = 1 THEN [res EXCEPT ![p] = "ok"] ELSE res

(* Whatever fails, every function on the way returns the error. *)
Failed(p) ==
  /\ stack' = [stack EXCEPT ![p] = <<>>]
  /\ res' = [res EXCEPT ![p] = "failed"]

Inode(p) == <<p, made[p]>>
Make(p, q, entry) ==
  /\ tree' = [x \in DOMAIN tree \cup {q} |-> IF x = q THEN entry ELSE tree[x]]
  /\ made' = [made EXCEPT ![p] = @ + 1]
Drop(p, q) ==
  /\ tree' = Restrict(tree, DOMAIN tree \ {q})
  /\ removers' = removers \cup {p}
  /\ UNCHANGED <<data, made, faulty>>

-----------------------------------------------------------------------------
(* mkdir_p *)

Further(p, f) ==
  IF f.i = Len(f.path) THEN Ok(p) ELSE Goto(p, [f EXCEPT !.at = "stat", !.i = @ + 1])

DirExists(p) ==
  /\ In(p, {"mkdir_p"}, "stat")
  /\ LET f == Top(p) IN
     IF Kind(tree, Real(tree, Upto(f.path, f.i))) = "dir" THEN Further(p, f)
     ELSE Goto(p, [f EXCEPT !.at = "mkdir"])
  /\ UNCHANGED <<files, history>>

Mkdir_Slip(p) ==
  /\ In(p, {"mkdir_p"}, "mkdir")
  /\ LET f == Top(p)  q == Place(tree, Upto(f.path, f.i)) IN
     IF q = Nowhere \/ q \in DOMAIN tree THEN Failed(p) /\ UNCHANGED files
     ELSE Further(p, f) /\ Make(p, q, Dir(Inode(p))) /\ UNCHANGED data
  /\ UNCHANGED history

(* Whatever is there already is taken for the directory. *)
Mkdir(p) ==
  /\ In(p, {"mkdir_p"}, "mkdir")
  /\ LET f == Top(p)  q == Place(tree, Upto(f.path, f.i)) IN
     IF q = Nowhere THEN Failed(p) /\ UNCHANGED files
     ELSE /\ Further(p, f)
          /\ IF q \in DOMAIN tree THEN UNCHANGED files
             ELSE Make(p, q, Dir(Inode(p))) /\ UNCHANGED data
  /\ UNCHANGED history

-----------------------------------------------------------------------------
(* Directories read by cp_dir and rm_r.  A name made after opendir may be   *)
(* returned or not, and one that is gone may still be.                      *)

NamesIn(t, d) == {Last(q) : q \in {x \in DOMAIN t : Front(x) = d}}
Listing(f) ==
  IF Kind(tree, f.dir) = "dir" /\ Ino(tree, f.dir) = f.ino THEN NamesIn(tree, f.dir) ELSE {}

OpenDir(p) ==
  /\ In(p, {"cp_dir", "rm_r"}, "opendir")
  /\ LET f == Top(p)  d == Real(tree, f.path) IN
     IF Kind(tree, d) # "dir" THEN Failed(p)
     ELSE Goto(p, Having(f, [at |-> "readdir", dir |-> d, ino |-> Ino(tree, d), seen |-> {},
                             names |-> NamesIn(tree, d)]))
  /\ UNCHANGED <<files, history>>

(* readdir, and what the loop does about an entry. *)
NextEntry(p) ==
  /\ In(p, {"cp_dir", "rm_r"}, "readdir")
  /\ \E n \in (Top(p).names \cup Listing(Top(p))) \ Top(p).seen :
       LET f == [Top(p) EXCEPT !.seen = @ \cup {n}]
           s == Append(f.path, n)
           k == Kind(tree, Place(tree, s))
       IN CASE f.fn = "rm_r" -> Enter(p, f, RmR(s))
            [] f.fn = "cp_dir" /\ k = "dir" -> Enter(p, f, CpDir(s, Append(f.dst, n), f.over))
            [] f.fn = "cp_dir" /\ k = "file" -> Enter(p, f, CpFile(s, Append(f.dst, n), f.over))
            [] OTHER -> Goto(p, f)
  /\ UNCHANGED <<files, history>>

(* cp_dir leaves out what lstat fails for (lines 208-221). *)
SkipEntry(p) ==
  /\ In(p, {"cp_dir"}, "readdir") /\ Cardinality(faulty \cup {p}) <= MaxFaults
  /\ \E n \in (Top(p).names \cup Listing(Top(p))) \ Top(p).seen :
       Goto(p, [Top(p) EXCEPT !.seen = @ \cup {n}])
  /\ faulty' = faulty \cup {p}
  /\ UNCHANGED <<files, removers>>

(* An error of readdir is taken for the end, too. *)
NoMoreEntries(p) ==
  /\ In(p, {"cp_dir", "rm_r"}, "readdir")
  /\ LET f == Top(p) IN
     /\ faulty' = IF f.names \cap Listing(f) \subseteq f.seen THEN faulty ELSE faulty \cup {p}
     /\ Cardinality(faulty') <= MaxFaults
     /\ IF f.fn = "cp_dir" THEN Ok(p) ELSE Goto(p, [f EXCEPT !.at = "rmdir"])
  /\ UNCHANGED <<files, removers>>

-----------------------------------------------------------------------------
(* rm_r, unlink, ln_sf *)

Lstat_Slip(p) ==
  /\ In(p, {"rm_r", "unlink", "ln_sf"}, "lstat")
  /\ LET f == Top(p)
         k == Kind(tree, Real(tree, f.path))
         to(at) == Goto(p, [f EXCEPT !.at = at])
     IN CASE k = "none" -> IF f.fn = "ln_sf" THEN to("symlink") ELSE Failed(p)
          [] k = "dir" /\ f.fn = "rm_r" -> to("opendir")
          [] k = "dir" /\ f.fn = "unlink" -> to("rmdir")
          [] k = "dir" /\ f.fn = "ln_sf" -> Failed(p)
          [] OTHER -> to("unlink")
  /\ UNCHANGED <<files, history>>

Lstat(p) ==
  /\ In(p, {"rm_r", "unlink", "ln_sf"}, "lstat")
  /\ LET f == Top(p)
         k == Kind(tree, Place(tree, f.path))
         to(at) == Goto(p, [f EXCEPT !.at = at])
     IN CASE k = "none" -> IF f.fn = "ln_sf" THEN to("symlink") ELSE Failed(p)
          [] k = "dir" /\ f.fn = "rm_r" -> to("opendir")
          [] k = "dir" /\ f.fn = "unlink" -> to("rmdir")
          [] k = "dir" /\ f.fn = "ln_sf" -> Failed(p)
          [] OTHER -> to("unlink")
  /\ UNCHANGED <<files, history>>

RemoveEntry(p) ==
  /\ In(p, {"rm_r", "unlink", "ln_sf"}, "unlink")
  /\ LET f == Top(p)  q == Place(tree, f.path) IN
     IF Kind(tree, q) \notin {"file", "link"} THEN Failed(p) /\ UNCHANGED <<files, history>>
     ELSE /\ Drop(p, q)
          /\ IF f.fn = "ln_sf" THEN Goto(p, [f EXCEPT !.at = "symlink"]) ELSE Ok(p)

RemoveDir(p) ==
  /\ In(p, {"rm_r", "unlink"}, "rmdir")
  /\ LET q == Place(tree, Top(p).path) IN
     IF Kind(tree, q) # "dir" \/ NamesIn(tree, q) # {}
     THEN Failed(p) /\ UNCHANGED <<files, history>>
     ELSE Drop(p, q) /\ Ok(p)

Symlink_Slip(p) ==
  /\ In(p, {"ln_sf"}, "symlink")
  /\ LET f == Top(p)  q == Place(tree, f.path) IN
     IF q = Nowhere THEN Failed(p) /\ UNCHANGED <<files, history>>
     ELSE IF q \in DOMAIN tree
     THEN /\ Failed(p)
          /\ IF Kind(tree, q) = "link" THEN Drop(p, q) ELSE UNCHANGED <<files, history>>
     ELSE Make(p, q, Link(Inode(p), f.to)) /\ Ok(p) /\ UNCHANGED <<data, history>>

Symlink(p) ==
  /\ In(p, {"ln_sf"}, "symlink")
  /\ LET f == Top(p)  q == Place(tree, f.path) IN
     IF q = Nowhere \/ q \in DOMAIN tree THEN Failed(p) /\ UNCHANGED files
     ELSE Make(p, q, Link(Inode(p), f.to)) /\ Ok(p) /\ UNCHANGED data
  /\ UNCHANGED history

-----------------------------------------------------------------------------
(* cp_file, write_all, touch *)

(* A directory opens as well; it is the first read that fails. *)
OpenIn(p) ==
  /\ In(p, {"cp_file"}, "in")
  /\ LET f == Top(p)  q == Real(tree, f.path) IN
     IF Kind(tree, q) = "none" THEN Failed(p)
     ELSE Goto(p, Having(f, [at |-> "out", in |-> Ino(tree, q)]))
  /\ UNCHANGED <<files, history>>

(* O_TRUNC goes through a link, O_EXCL takes one for a file that exists. *)
OpenOut_Slip(p) ==
  /\ In(p, {"cp_file", "write_all"}, "out")
  /\ LET f == Top(p)
         q == IF f.over THEN Real(tree, f.dst) ELSE Place(tree, f.dst)
         writing(i) == Having(f, [at |-> "write", out |-> i, pos |-> 0])
     IN IF Kind(tree, q) = "dir" \/ q = Nowhere \/ (q \in DOMAIN tree /\ ~f.over)
        THEN Failed(p) /\ UNCHANGED files
        ELSE IF q \in DOMAIN tree
        THEN Goto(p, writing(tree[q].ino)) /\ UNCHANGED files
        ELSE /\ Goto(p, writing(Inode(p))) /\ Make(p, q, File(Inode(p)))
             /\ data' = (Inode(p) :> <<>>) @@ data
  /\ UNCHANGED history

OpenOut(p) ==
  /\ In(p, {"cp_file", "write_all"}, "out")
  /\ LET f == Top(p)
         q == IF f.over THEN Real(tree, f.dst) ELSE Place(tree, f.dst)
         writing(i) == Having(f, [at |-> "write", out |-> i, pos |-> 0])
     IN IF Kind(tree, q) = "dir" \/ q = Nowhere \/ (q \in DOMAIN tree /\ ~f.over)
        THEN Failed(p) /\ UNCHANGED files
        ELSE IF q \in DOMAIN tree
        THEN /\ Goto(p, writing(tree[q].ino))
             /\ data' = [data EXCEPT ![tree[q].ino] = <<>>] /\ UNCHANGED <<tree, made>>
        ELSE /\ Goto(p, writing(Inode(p))) /\ Make(p, q, File(Inode(p)))
             /\ data' = (Inode(p) :> <<>>) @@ data
  /\ UNCHANGED history

(* A block goes to the writer's own offset, over what is there. *)
Put(blocks, at, b) ==
  [i \in 1 .. IF at > Len(blocks) THEN at ELSE Len(blocks) |->
     IF i = at THEN b ELSE IF i <= Len(blocks) THEN blocks[i] ELSE Null]

Write(p) ==
  /\ In(p, {"cp_file", "write_all"}, "write")
  /\ LET f == Top(p)
         blocks == IF f.fn = "write_all" THEN f.body
                   ELSE IF f.in \in DOMAIN data THEN data[f.in] ELSE Null
     IN IF blocks = Null THEN Failed(p) /\ UNCHANGED data
        ELSE IF f.pos >= Len(blocks) THEN Ok(p) /\ UNCHANGED data
        ELSE /\ Goto(p, [f EXCEPT !.pos = @ + 1])
             /\ data' = [data EXCEPT ![f.out] = Put(@, f.pos + 1, blocks[f.pos + 1])]
  /\ UNCHANGED <<tree, made, history>>

OpenOnly(p) ==
  /\ In(p, {"touch"}, "open")
  /\ LET q == Real(tree, Top(p).path) IN
     IF q = Nowhere \/ Kind(tree, q) = "dir" THEN Failed(p) /\ UNCHANGED files
     ELSE /\ Ok(p)
          /\ IF q \in DOMAIN tree THEN UNCHANGED files
             ELSE Make(p, q, File(Inode(p))) /\ data' = (Inode(p) :> <<>>) @@ data
  /\ UNCHANGED history

-----------------------------------------------------------------------------
(* stat and ln_sf's lstat fail like a missing file, cp_dir's lstat skips;   *)
(* every other system call that fails ends the call.                        *)
Fault(p) ==
  /\ Cardinality(faulty) < MaxFaults
  /\ Busy(p) /\ ~In(p, {"mkdir_p"}, "stat") /\ ~In(p, {"ln_sf"}, "lstat")
  /\ Failed(p) /\ faulty' = faulty \cup {p}
  /\ UNCHANGED <<files, removers>>

Step(p) ==
  /\ \/ DirExists(p) \/ Mkdir(p) \/ OpenDir(p) \/ NextEntry(p) \/ SkipEntry(p) \/ NoMoreEntries(p)
     \/ Lstat(p) \/ RemoveEntry(p) \/ RemoveDir(p) \/ Symlink(p)
     \/ OpenIn(p) \/ OpenOut(p) \/ Write(p) \/ OpenOnly(p) \/ Fault(p)
  /\ UNCHANGED <<call, start>>

(* What a file holds, instead of its inode. *)
View ==
  [q \in DOMAIN tree |->
     IF tree[q].kind = "file" THEN [kind |-> "file", body |-> data[tree[q].ino]]
     ELSE IF tree[q].kind = "link" THEN [kind |-> "link", to |-> tree[q].to]
     ELSE [kind |-> "dir"]]

Begin(p, c) ==
  /\ call[p] = Null
  /\ call' = [call EXCEPT ![p] = c] /\ stack' = [stack EXCEPT ![p] = Entered(c)]
  /\ start' = [q \in Procs |-> IF q = p /\ \A r \in Procs : ~Busy(r) THEN View ELSE Null]
  /\ UNCHANGED <<files, res, history>>

Init ==
  /\ \E v \in Trees :
       /\ tree = [q \in DOMAIN v |-> IF v[q].kind = "link" THEN Link(<<Null, q>>, v[q].to)
                                     ELSE [kind |-> v[q].kind, ino |-> <<Null, q>>]]
       /\ data = [i \in {<<Null, q>> : q \in {x \in DOMAIN v : v[x].kind = "file"}} |-> v[i[2]].body]
  /\ made = [p \in Procs |-> 0] /\ call = [p \in Procs |-> Null]
  /\ stack = [p \in Procs |-> <<>>] /\ res = [p \in Procs |-> Null]
  /\ start = [p \in Procs |-> Null] /\ faulty = {} /\ removers = {}

Next == \E p \in Procs : Step(p) \/ \E c \in Calls : Begin(p, c)

Spec == Init /\ [][Next]_vars

-----------------------------------------------------------------------------
(* What each function is for, on a view v of the tree. *)

(* Where a path lies once the missing directories on its way are made. *)
Spot(v, path) ==
  LET k == Max({i \in 0 .. Len(path) : Kind(v, Real(v, Upto(path, i))) = "dir"})
  IN  Real(v, Upto(path, k)) \o SubSeq(path, k + 1, Len(path))

WithDirs(v, q) ==
  v @@ [d \in {Upto(q, i) : i \in 1 .. Len(q)} |-> [kind |-> "dir"]]

(* Where an entry that is copied to path ends up, through a link at path.   *)
Lands(v, path) ==
  LET q == Append(Spot(v, Front(path)), Last(path)) IN
  IF Kind(v, q) = "link" /\ Kind(v, Walk(v, q)) # "none" THEN Walk(v, q) ELSE q

Below(v, q) == {x \in DOMAIN v : IsPrefix(q, x)}
Holding(q, body) == q :> [kind |-> "file", body |-> body]

(* What cp_dir reads: no links, and nothing whose path has become too long; *)
(* lstat fails for that.                                                    *)
Source(v, c) ==
  LET s == Real(v, c.path) IN
  {x \in Below(v, s) : v[x].kind # "link" /\ Len(c.path) + Len(x) - Len(s) <= PathMax}
Copy(v, c, x) == Lands(v, c.dst \o SubSeq(x, Len(Real(v, c.path)) + 1, Len(x)))
Copied(v, c, kind) ==
  LET from == {x \in Source(v, c) : v[x].kind = kind} IN
  [y \in {Copy(v, c, x) : x \in from} \ {<<>>} |-> v[CHOOSE x \in from : Copy(v, c, x) = y]]

Target(v, c) == IF c.over THEN Real(v, c.dst) ELSE Place(v, c.dst)

After(v, c) ==
  CASE c.fn = "mkdir_p" -> WithDirs(v, Spot(v, c.path))
    [] c.fn = "cp_dir" -> Copied(v, c, "file") @@ WithDirs(v, Spot(v, c.dst)) @@ Copied(v, c, "dir")
    [] c.fn = "cp_file" -> Holding(Target(v, c), v[Real(v, c.path)].body) @@ v
    [] c.fn = "write_all" -> Holding(Target(v, c), c.body) @@ v
    [] c.fn \in {"rm_r", "unlink"} ->
         Restrict(v, DOMAIN v \ Below(v, Place(v, c.path)))
    [] c.fn = "ln_sf" -> (Place(v, c.path) :> [kind |-> "link", to |-> c.to]) @@ v
    [] c.fn = "touch" -> v @@ Holding(Real(v, c.path), <<>>)

(* A copy to where it comes from, which the code does not look out for, or  *)
(* one for which links at the destination lead two entries to one place or  *)
(* an entry to nothing; the order of the names decides what becomes of it.  *)
OntoItself(v, c) ==
  \/ c.fn = "cp_file" /\ Real(v, c.dst) = Real(v, c.path)
  \/ c.fn = "cp_dir" /\ IsPrefix(Real(v, c.path), Lands(v, c.dst))
  \/ c.fn = "cp_dir" /\ \E e \in Source(v, c) :
       \/ IsPrefix(Real(v, c.path), Copy(v, c, e)) \/ Kind(v, Copy(v, c, e)) = "link"
       \/ \E o \in Source(v, c) \ {e} : Copy(v, c, o) = Copy(v, c, e)

(* A call that nobody disturbs and that reports success has done all of its *)
(* work and nothing else, through links and into trees that are partly      *)
(* there, whatever the order in which directories list their names; a copy  *)
(* that meets itself excepted.                                              *)
AloneMeansDone ==
  \A p \in Procs :
    (res[p] = "ok" /\ start[p] # Null /\ p \notin faulty /\ ~OntoItself(start[p], call[p]))
      => View = After(start[p], call[p])

(* Processes that make overlapping paths at the same time do not get in     *)
(* each other's way (line 80): mkdir_p fails only where a system call does, *)
(* where something was removed meanwhile, or where a file, a link to no     *)
(* directory or the length of the path is in its way.                       *)
InTheWay(path) ==
  \/ Len(path) > PathMax
  \/ \E i \in 1 .. Len(path) :
       LET k == Kind(tree, Place(tree, Upto(path, i))) IN
       k = "file" \/ (k = "link" /\ Kind(tree, Real(tree, Upto(path, i))) # "dir")
MkdirsMeet ==
  [][\A p \in Procs :
       (/\ call[p] # Null /\ call[p].fn = "mkdir_p"
        /\ res[p] # "failed" /\ res'[p] = "failed" /\ p \notin faulty')
         => removers # {} \/ InTheWay(call[p].path)]_vars

(* When the dust has settled over a path that several processes linked, one *)
(* of those that reported success has its link there (lines 543-550), if    *)
(* nothing failed for other reasons and the others removed nothing from     *)
(* other paths and made nothing but links.                                  *)
LinkSurvives ==
  \A p \in Procs :
    (/\ call[p] # Null /\ res[p] = "ok" /\ call[p].fn = "ln_sf"
     /\ \A r \in Procs : ~Busy(r)
     /\ faulty = {} /\ \A r \in Procs : made[r] > 0 => call[r].fn = "ln_sf"
     /\ \A r \in removers : call[r].fn = "ln_sf" /\ call[r].path = call[p].path)
      => LET q == Place(tree, call[p].path) IN
         /\ Kind(tree, q) = "link"
         /\ \E r \in Procs : /\ call[r] # Null /\ call[r].fn = "ln_sf" /\ res[r] = "ok"
                             /\ Place(tree, call[r].path) = q /\ call[r].to = tree[q].to

(* What rm_r, unlink or ln_sf removes lies at its path or below it, and not *)
(* behind a link rm_r met there (line 289), whatever else is made or        *)
(* removed meanwhile, as long as nobody else makes links: one on the way    *)
(* that is made to lead elsewhere, or one in the place of a directory,      *)
(* takes rm_r along.                                                        *)
RemovalStaysBelow ==
  [][\A q \in DOMAIN tree \ DOMAIN tree' :
       \E p \in Procs :
         /\ Busy(p) /\ call[p].fn \in {"rm_r", "unlink", "ln_sf"}
         /\ \/ IsPrefix(Place(tree, call[p].path), q)
            \/ \E r \in Procs \ {p} : call[r] # Null /\ call[r].fn = "ln_sf"]_vars
=============================================================================
