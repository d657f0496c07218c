------------------------------ MODULE Modrinth ------------------------------
(***************************************************************************)
(* libmcpkg/net/modrinth: from a search page to packages, by two routes.   *)
(* "page" is fetch_page_build, which asks for each hit's versions and      *)
(* builds a package of the first.  "json" is a caller of the parsing       *)
(* functions: parse_search_hits_detailed, choose_version_idx and           *)
(* build_pkg_meta, over the same two requests.  "choose" only chooses,     *)
(* "raw" only searches, "read" reads the rate limit, "set" adds a header.  *)
(* Every thread makes one call, all on one client.                         *)
(*                                                                         *)
(* An answer is a value: the hits of a search, the versions of a project.  *)
(* Of a package only its parts matter, the objects it is made of, in the   *)
(* order in which they are allocated.  Text fields are left out.           *)
(***************************************************************************)
EXTENDS NetClient

CONSTANTS
  Scenarios,  \* what each thread does: one of the above
  Searches,   \* the hits a search may answer
  Answers,    \* the versions a project may have
  ToChoose     \* the lists of versions to choose from

(* A digest has one of two names.  That a version has three dependencies at *)
(* most is a bound of this model.                                           *)
Hits == [id : BOOLEAN, cats : BOOLEAN]
Versions ==
  [wanted : BOOLEAN, featured : BOOLEAN, listed : BOOLEAN, date : Nat,
   named : BOOLEAN, file : BOOLEAN, hashes : 0 .. 2, deps : 0 .. 3]

ASSUME AnswerAssumption ==
  /\ Searches \subseteq Seq(Hits)
  /\ Answers \subseteq Seq(Versions) \ {<<>>}
  /\ ToChoose \subseteq Seq(Versions)

VARIABLES route, call

vars == <<netVars, route, call>>

NoVersion == [idx |-> 0, featured |-> FALSE, listed |-> FALSE, date |-> 0]

(* missed: the hits no package came of, for want of an answer or memory.    *)
NoCall ==
  [st |-> "start", hits |-> <<>>, h |-> 0, ver |-> <<>>,
   pkgs |-> <<>>, missed |-> {}, ret |-> "none", from |-> <<>>, only |-> FALSE, best |-> NoVersion]

(* client_new adds a header "Accept", unless there is no memory for it. *)
Init ==
  /\ NetInit /\ headers \in {0, 1}
  /\ route \in Scenarios
  /\ call = [t \in Threads |-> NoCall]

Update(t, c) == call' = [call EXCEPT ![t] = c]
Answered(t) == req[t].st \in {"ok", "failed"}
Rest(t) == req' = [req EXCEPT ![t] = NoRequest]
Holds(t, objects) == heap' = [heap EXCEPT ![t] = objects]
Quiet == UNCHANGED <<shared, settled, reader, route>>

-----------------------------------------------------------------------------
(* mcpkg_modrinth_choose_version_idx: one pass, keeping the best so far.    *)
(* wanted: the version is for the loader and the game version asked for.    *)
Candidate(v, only) == v.wanted /\ (only => v.featured)

Consider_Slip(b, i, v) ==
  IF b.idx = 0 \/ (v.featured /\ ~b.featured)
  THEN [idx |-> i, featured |-> v.featured, listed |-> v.listed, date |-> v.date]
  ELSE IF v.featured # b.featured THEN b
  ELSE IF v.listed # b.listed
  THEN IF v.listed THEN [b EXCEPT !.idx = i, !.listed = TRUE] ELSE b
  ELSE IF v.date > b.date THEN [b EXCEPT !.idx = i, !.date = v.date] ELSE b
Consider(b, i, v) ==
  IF b.idx = 0 \/ (v.featured /\ ~b.featured)
  THEN [idx |-> i, featured |-> v.featured, listed |-> v.listed, date |-> v.date]
  ELSE IF v.featured # b.featured THEN b
  ELSE IF v.listed # b.listed
  THEN IF v.listed THEN [b EXCEPT !.idx = i, !.listed = TRUE, !.date = v.date] ELSE b
  ELSE IF v.date > b.date THEN [b EXCEPT !.idx = i, !.date = v.date] ELSE b

Chosen(vs, only) ==
  LET scan[i \in 0..Len(vs)] ==
        IF i = 0 THEN NoVersion
        ELSE IF Candidate(vs[i], only) THEN Consider(scan[i - 1], i, vs[i]) ELSE scan[i - 1]
  IN scan[Len(vs)]

Choose(t) ==
  /\ route[t] = "choose" /\ call[t].st = "start"
  /\ \E vs \in ToChoose, only \in BOOLEAN :
       Update(t, [call[t] EXCEPT !.st = "done", !.from = vs, !.only = only,
                                 !.best = Chosen(vs, only)])
  /\ UNCHANGED <<netVars, route>>

-----------------------------------------------------------------------------
(* The parts of a package, in the order in which each builder makes them.   *)
Digests(v) == SubSeq(<<"sha512", "sha1">>, 1, v.hashes)
Deps(v) == SubSeq(<<"dep1", "dep2", "dep3">>, 1, v.deps)
When(b, part) == IF b THEN <<part>> ELSE <<>>

(* build_pkg_from_hit_and_version *)
PageParts(hit, v) ==
  <<"package">> \o When(hit.cats, "sections") \o <<"loaders", "file">>
  \o When(v.hashes > 0, "digests") \o Digests(v) \o <<"depends">> \o Deps(v) \o <<"origin">>
(* mcpkg_modrinth_build_pkg_meta, with its copy of the text. *)
JsonParts(hit, v) ==
  <<"text", "package", "loaders", "origin">> \o When(hit.cats, "sections")
  \o <<"file", "digests">> \o Digests(v) \o <<"depends">> \o Deps(v)
Parts(r, hit, v) == IF r = "page" THEN PageParts(hit, v) ELSE JsonParts(hit, v)

(* A part that cannot be made for want of a value in the answer. *)
Wanting(r, part, v) ==
  \/ part = "file" /\ ~v.file
  \/ r = "json" /\ part = "loaders" /\ ~v.named

(* What an early return frees.  The page builder attaches a list to its     *)
(* owner when it is full, and a list freed before that does not free its    *)
(* elements; the other builder attaches the list first.                     *)
Frees_Slip(r, part, made) ==
  IF r = "page" THEN made \ {"sections"} ELSE made
Frees(r, part, made) ==
  LET loose == IF part \in {"sha512", "sha1"} THEN {"sha512", "sha1"}
               ELSE IF part \in {"dep1", "dep2", "dep3"} THEN {"dep1", "dep2", "dep3"}
               ELSE {}
  IN IF r = "page" THEN made \ loose ELSE made

-----------------------------------------------------------------------------
(* The search. *)

Search(t) ==
  /\ route[t] \in {"page", "json", "raw"} /\ call[t].st = "start"
  /\ Request(t, 0)
  /\ Update(t, [call[t] EXCEPT !.st = "search"])
  /\ UNCHANGED route

Finish(t, ret) == Update(t, [call[t] EXCEPT !.st = "done", !.ret = ret])

(* The request failed, the status is not 200, or the text is not a page.    *)
(* A caller of search_raw frees the answer too, whatever it is.             *)
SearchUseless(t) ==
  /\ call[t].st = "search" /\ Answered(t)
  /\ Rest(t) /\ Works /\ Quiet
  /\ Holds(t, heap[t] \ {Body(t)})
  /\ Finish(t, "failed")

Numbered(hits) == {k \in DOMAIN hits : hits[k].id}

(* The list of hits and what is in it: hits without an id are left out.     *)
HitList(hits) ==
  {<<"hits", 0>>} \cup {<<"hit", k>> : k \in Numbered(hits)}
  \cup {<<"categories", k>> : k \in {k \in Numbered(hits) : hits[k].cats}}

SearchUseful(t) ==
  /\ call[t].st = "search" /\ req[t].st = "ok" /\ route[t] # "raw"
  /\ Rest(t) /\ Works /\ Quiet
  /\ \E hits \in Searches :
       /\ Update(t, [call[t] EXCEPT !.st = "hits", !.hits = hits])
       /\ IF route[t] = "page"
          THEN Holds(t, heap[t] \cup {<<"tree", 0>>, <<"list", 0>>})
          ELSE Holds(t, (heap[t] \ {Body(t)}) \cup HitList(hits))

(* No memory for the list, or in the middle of the hits: all of it goes.    *)
SearchGivenUp(t) ==
  /\ call[t].st = "search" /\ req[t].st = "ok" /\ route[t] # "raw"
  /\ Rest(t) /\ Fails /\ Quiet
  /\ Holds(t, heap[t] \ {Body(t)})
  /\ Finish(t, "failed")

-----------------------------------------------------------------------------
(* The hits, one after the other.  Whatever goes wrong with one of them     *)
(* leaves that one out and goes on.                                         *)

After_Slip(c) == [c EXCEPT !.st = "hits", !.missed = @ \cup {c.h}, !.h = Len(c.hits)]
After(c) == [c EXCEPT !.st = "hits", !.missed = @ \cup {c.h}]

Skip(t) ==
  LET c == call[t] IN
  /\ c.st = "hits" /\ c.h < Len(c.hits) /\ ~c.hits[c.h + 1].id
  /\ Update(t, [c EXCEPT !.h = @ + 1])
  /\ UNCHANGED <<netVars, route>>

AskVersions(t) ==
  LET c == call[t] IN
  /\ c.st = "hits" /\ c.h < Len(c.hits) /\ c.hits[c.h + 1].id
  /\ Request(t, c.h + 1)
  /\ Update(t, [c EXCEPT !.st = "versions", !.h = @ + 1])
  /\ UNCHANGED route

(* No answer, not 200, not JSON, or no version in it. *)
VersionsUseless(t) ==
  /\ call[t].st = "versions" /\ Answered(t)
  /\ Rest(t) /\ Works /\ Quiet
  /\ Holds(t, heap[t] \ {Body(t)})
  /\ Update(t, After(call[t]))

VersionsUseful(t) ==
  LET c == call[t] IN
  /\ c.st = "versions" /\ req[t].st = "ok"
  /\ Rest(t) /\ Works /\ Quiet
  /\ \E vs \in Answers :
       LET i == IF route[t] = "page" THEN 1 ELSE Chosen(vs, FALSE).idx IN
       IF i > 0
       THEN /\ Holds(t, heap[t] \cup {<<"tree", c.h>>})
            /\ Update(t, [c EXCEPT !.st = "build", !.ver = vs[i]])
       ELSE /\ Holds(t, heap[t] \ {Body(t)})
            /\ Update(t, After(c))

Of(h, parts) == {<<p, h>> : p \in parts}
Answer(t) == {<<"tree", call[t].h>>, <<"body", call[t].h>>}

(* The k-th part cannot be made, for want of a value or of memory. *)
BuildFails(t) ==
  LET c == call[t]
      parts == Parts(route[t], c.hits[c.h], c.ver) IN
  /\ c.st = "build"
  /\ \E k \in DOMAIN parts :
       LET made == {parts[i] : i \in 1..(k - 1)} IN
       /\ \A i \in 1..(k - 1) : ~Wanting(route[t], parts[i], c.ver)
       /\ IF Wanting(route[t], parts[k], c.ver) THEN Works ELSE Fails
       /\ Holds(t, (heap[t] \cup Of(c.h, made \ Frees(route[t], parts[k], made))) \ Answer(t))
  /\ Update(t, After(c))
  /\ Quiet /\ UNCHANGED req

(* All parts are there; the package goes into the list, or is freed when    *)
(* the list cannot grow.                                                    *)
BuildEnds(t) ==
  LET c == call[t]
      parts == Range(Parts(route[t], c.hits[c.h], c.ver)) IN
  /\ c.st = "build"
  /\ \A p \in parts : ~Wanting(route[t], p, c.ver)
  /\ \/ /\ Works
        /\ Holds(t, (heap[t] \cup Of(c.h, parts \ {"text"})) \ Answer(t))
        /\ Update(t, [c EXCEPT !.st = "hits",
                               !.pkgs = Append(@, [hit |-> c.h, parts |-> parts \ {"text"}])])
     \/ /\ Fails
        /\ Holds(t, heap[t] \ Answer(t))
        /\ Update(t, After(c))
  /\ Quiet /\ UNCHANGED req

Return(t) ==
  LET c == call[t] IN
  /\ c.st = "hits" /\ c.h = Len(c.hits)
  /\ Works
  /\ Holds(t, heap[t] \ ({<<"tree", 0>>, <<"body", 0>>} \cup HitList(c.hits)))
  /\ Finish(t, "ok")
  /\ Quiet /\ UNCHANGED req

-----------------------------------------------------------------------------
CallStep(t) ==
  \/ Choose(t) \/ Search(t) \/ SearchUseless(t) \/ SearchUseful(t) \/ SearchGivenUp(t)
  \/ Skip(t) \/ AskVersions(t) \/ VersionsUseless(t) \/ VersionsUseful(t)
  \/ BuildFails(t) \/ BuildEnds(t) \/ Return(t)

Next ==
  \/ /\ \/ NetStep
        \/ \E t \in Threads : route[t] = "read" /\ ReadField
        \/ \E t \in Threads : route[t] = "set" /\ SetHeader
     /\ UNCHANGED <<route, call>>
  \/ \E t \in Threads : CallStep(t)

Spec == Init /\ [][Next]_vars

-----------------------------------------------------------------------------
(* choose_version_idx returns a version that fits, and none that fits is    *)
(* before it in the order of featured, listed, newest; among equals it is   *)
(* the first.  There is none only when no version fits.                     *)
Better(v, w) ==
  \/ v.featured /\ ~w.featured
  \/ v.featured = w.featured /\ v.listed /\ ~w.listed
  \/ v.featured = w.featured /\ v.listed = w.listed /\ v.date > w.date
BestVersion ==
  \A t \in Threads : (route[t] = "choose" /\ call[t].st = "done") =>
    LET vs == call[t].from
        fits == {i \in DOMAIN vs : Candidate(vs[i], call[t].only)}
        i == call[t].best.idx IN
    IF fits = {} THEN i = 0
    ELSE /\ i \in fits
         /\ \A j \in fits \ {i} : ~Better(vs[j], vs[i]) /\ (j < i => Better(vs[i], vs[j]))

(* A page has exactly one package for every hit that has an id and was      *)
(* answered, in the order of the hits: one that fails costs the page        *)
(* nothing else, and no package is made of another hit's answer.            *)
PageFollowsHits ==
  \A t \in Threads : call[t].ret = "ok" =>
    LET c == call[t]
        kept == [i \in DOMAIN c.pkgs |-> c.pkgs[i].hit] IN
    /\ \A i, j \in DOMAIN kept : i < j => kept[i] < kept[j]
    /\ Range(kept) = Numbered(c.hits) \ c.missed

(* What a call allocated is what it returned, or was freed, whatever        *)
(* failed, and nothing it returned was freed: the only objects ever lost    *)
(* are elements of a list the page builder dropped half full, of a package  *)
(* that never got into the page.                                            *)
Returned(t) ==
  (IF call[t].ret = "ok" /\ route[t] = "page" THEN {<<"list", 0>>} ELSE {})
  \cup UNION {Of(p.hit, p.parts) : p \in Range(call[t].pkgs)}
HalfLists(t) ==
  IF route[t] = "page" THEN {<<p, h>> : p \in {"sha512", "dep1", "dep2"}, h \in call[t].missed}
  ELSE {}
NothingLost ==
  \A t \in Threads :
    /\ Returned(t) \subseteq heap[t]
    /\ call[t].st = "done" => heap[t] \subseteq Returned(t) \cup HalfLists(t)
=============================================================================
