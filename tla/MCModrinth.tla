----------------------------- MODULE MCModrinth -----------------------------
(* Modrinth for TLC: three threads, a page of two hits, four projects.      *)
EXTENDS Modrinth

CONSTANTS t1, t2, t3

MCThreads == {t1, t2, t3}
Three(a, b, c) == [t \in MCThreads |-> IF t = t1 THEN a ELSE IF t = t2 THEN b ELSE c]
MCScenarios ==
  {Three("raw", "raw", "read"), Three("page", "raw", "idle"), Three("json", "set", "read"),
   Three("page", "set", "idle"), Three("choose", "idle", "idle")}

Hit(id, cats) == [id |-> id, cats |-> cats]
MCSearches == {<<>>, <<Hit(FALSE, FALSE), Hit(TRUE, TRUE)>>, <<Hit(TRUE, TRUE), Hit(TRUE, FALSE)>>}

Version(wanted, featured, listed, date) ==
  [wanted |-> wanted, featured |-> featured, listed |-> listed, date |-> date,
   named |-> TRUE, file |-> TRUE, hashes |-> 2, deps |-> 2]
Plain == Version(TRUE, FALSE, TRUE, 1)
MCAnswers ==
  {<<Plain>>, <<[Plain EXCEPT !.file = FALSE], [Plain EXCEPT !.date = 2, !.deps = 0, !.hashes = 0]>>,
   <<[Plain EXCEPT !.named = FALSE, !.deps = 3]>>, <<[Plain EXCEPT !.wanted = FALSE, !.hashes = 1]>>}

Every ==
  {Version(TRUE, f, l, d) : f \in BOOLEAN, l \in BOOLEAN, d \in 0..1}
  \cup {Version(FALSE, TRUE, TRUE, 1)}
MCChoices == UNION {[1..n -> Every] : n \in 0..3}
=============================================================================
