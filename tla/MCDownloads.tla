---------------------------- MODULE MCDownloads -----------------------------
(* Downloads for TLC.  Each fetch writes a file of its own, named after it. *)
EXTENDS Downloads

CONSTANTS w1, w2, c1, c2, t1, t2

MCWorkers == {w1, w2}
MCClients == {c1, c2}
OneStopper == {c1}
MCTasks == {t1, t2}
OwnFile == [t \in MCTasks |-> t]
=============================================================================
