---------------------------- MODULE MCPoolLife ------------------------------
(* PoolLife for TLC: threads and tasks of the pool are model values.        *)
EXTENDS PoolLife

CONSTANTS w1, w2, c1, c2, c3, t1, t2, t3

MCWorkers == {w1, w2}
MCClients == {c1, c2}
MCClients3 == {c1, c2, c3}
MCTasks == {t1, t2, t3}
OneStopper == {c1}
TwoStoppers == {c1, c2}
=============================================================================
