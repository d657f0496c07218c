------------------------------ MODULE TaskPool ------------------------------
(***************************************************************************)
(* What mcpkg_thread_pool promises to its callers, without its lock, ring  *)
(* buffer or condition variables: a bounded FIFO of accepted tasks, each   *)
(* of which is started once, in the order of acceptance, by one of at most *)
(* NumWorkers workers, and a pool that accepts nothing once it is closed.  *)
(* ThreadPool implements it.                                               *)
(***************************************************************************)
EXTENDS Naturals, Sequences, FiniteSets

CONSTANTS
  Tasks,       \* every task a caller may ever hand to the pool
  NumWorkers,  \* how many tasks run at a time
  Capacity     \* how many accepted tasks may wait for a worker

VARIABLES
  queue,     \* accepted tasks not started yet, oldest first
  running,   \* started tasks whose function has not returned
  finished,  \* tasks whose function has returned
  refused,   \* tasks turned down with MCPKG_THREAD_E_AGAIN
  closed     \* has a shutdown begun?

abstractVars == <<queue, running, finished, refused, closed>>

Enqueued == {queue[i] : i \in DOMAIN queue}
Unseen(t) == t \notin Enqueued \cup running \cup finished \cup refused

Init ==
  /\ queue = <<>>
  /\ running = {}
  /\ finished = {}
  /\ refused = {}
  /\ closed = FALSE

Accept(t) ==
  /\ Unseen(t)
  /\ ~closed
  /\ Len(queue) < Capacity
  /\ queue' = Append(queue, t)
  /\ UNCHANGED <<running, finished, refused, closed>>

Refuse(t) ==
  /\ Unseen(t)
  /\ closed \/ Len(queue) = Capacity
  /\ refused' = refused \cup {t}
  /\ UNCHANGED <<queue, running, finished, closed>>

Start ==
  /\ queue # <<>>
  /\ Cardinality(running) < NumWorkers
  /\ running' = running \cup {Head(queue)}
  /\ queue' = Tail(queue)
  /\ UNCHANGED <<finished, refused, closed>>

Finish(t) ==
  /\ t \in running
  /\ running' = running \ {t}
  /\ finished' = finished \cup {t}
  /\ UNCHANGED <<queue, refused, closed>>

Close ==
  /\ closed' = TRUE
  /\ UNCHANGED <<queue, running, finished, refused>>

Next ==
  \/ \E t \in Tasks : Accept(t) \/ Refuse(t) \/ Finish(t)
  \/ Start
  \/ Close

SafeSpec == Init /\ [][Next]_abstractVars

(* A pool also promises progress: waiting tasks get started and started    *)
(* tasks get finished, for as long as their functions return.              *)
Spec ==
  /\ SafeSpec
  /\ WF_abstractVars(Start)
  /\ \A t \in Tasks : WF_abstractVars(Finish(t))
=============================================================================
