---------------------------- MODULE PoolStartup -----------------------------
(***************************************************************************)
(* mcpkg_thread_pool_new (libmcpkg/threads/mcpkg_thread_pool.c:68-115): the *)
(* pool's fields are allocated, the workers are created one by one, and if *)
(* one cannot be created those that exist are told to exit and are joined. *)
(*                                                                         *)
(* The failure path writes shutting_down and broadcasts without p->lock,   *)
(* while workers are already in worker_main, so this module keeps the lock *)
(* explicit and splits a worker's critical section into its test of the    *)
(* predicate and the wait that follows.  No task exists yet: p->len is 0.  *)
(* A store is taken to be visible to every thread at once.                 *)
(***************************************************************************)
EXTENDS Naturals, FiniteSets

CONSTANTS
  NumThreads,  \* cfg->threads
  NoWorker     \* nobody holds p->lock

StartupAssumption ==
  /\ NumThreads \in Nat \ {0}
  /\ NoWorker \notin 1 .. NumThreads

Worker == 1 .. NumThreads
Field == {"q", "lock", "cv_not_empty", "cv_not_full", "cv_drained"}

VARIABLES
  npc,            \* where mcpkg_thread_pool_new is
  created,        \* the loop variable i: workers 1 .. created exist
  lock,           \* the worker that holds p->lock
  shutting_down,  \* p->shutting_down
  cv_not_empty,   \* workers asleep on p->cv_not_empty
  wpc,            \* where each worker is in worker_main
  rc              \* what new returned

vars == <<npc, created, lock, shutting_down, cv_not_empty, wpc, rc>>

Init ==
  /\ npc = "alloc"
  /\ created = 0
  /\ lock = NoWorker
  /\ shutting_down = FALSE
  /\ cv_not_empty = {}
  /\ wpc = [w \in Worker |-> "unborn"]
  /\ rc = "none"

Return(code) == npc' = "returned" /\ rc' = code
Crash == npc' = "crashed" /\ UNCHANGED rc

-----------------------------------------------------------------------------
(* The thread that calls mcpkg_thread_pool_new.  (Op_Slip is Op with a      *)
(* programmer's slip, for the mutants of PROJECT.json.)                     *)

(* When a field is missing, free is called on the partial pool, and starts  *)
(* with shutdown, which dereferences the lock and cv_not_empty.             *)
Allocate(missing) ==
  /\ npc = "alloc"
  /\ \/ /\ missing = {}
        /\ npc' = "workers" /\ UNCHANGED <<rc, shutting_down>>
     \/ /\ missing # {} /\ missing \cap {"lock", "cv_not_empty"} # {}
        /\ Crash /\ UNCHANGED shutting_down
     \/ /\ missing # {} /\ missing \cap {"lock", "cv_not_empty"} = {}
        /\ Return("nomem") /\ shutting_down' = TRUE
  /\ UNCHANGED <<created, lock, cv_not_empty, wpc>>

(* p->threads is set before p->workers, so joining the workers of a pool    *)
(* whose p->workers is NULL dereferences it.                                *)
AllocateWorkers ==
  /\ npc = "workers"
  /\ (npc' = "create" /\ UNCHANGED rc) \/ Crash
  /\ UNCHANGED <<created, lock, shutting_down, cv_not_empty, wpc>>

CreateWorker ==
  /\ npc = "create" /\ created < NumThreads
  /\ created' = created + 1
  /\ wpc' = [wpc EXCEPT ![created'] = "lock"]
  /\ UNCHANGED <<npc, lock, shutting_down, cv_not_empty, rc>>

AllCreated ==
  /\ npc = "create" /\ created = NumThreads
  /\ Return("ok")
  /\ UNCHANGED <<created, lock, shutting_down, cv_not_empty, wpc>>

CreateFails ==
  /\ npc = "create" /\ created < NumThreads
  /\ npc' = "flag"
  /\ UNCHANGED <<created, lock, shutting_down, cv_not_empty, wpc, rc>>

RaiseFlag ==
  /\ npc = "flag"
  /\ shutting_down' = TRUE
  /\ npc' = "broadcast"
  /\ UNCHANGED <<created, lock, cv_not_empty, wpc, rc>>

Broadcast ==
  /\ npc = "broadcast"
  /\ cv_not_empty' = {}
  /\ npc' = "join"
  /\ UNCHANGED <<created, lock, shutting_down, wpc, rc>>

JoinAll_SkipsLast ==
  /\ npc = "join"
  /\ \A w \in 1 .. created - 1 : wpc[w] = "exited"
  /\ npc' = "free"
  /\ UNCHANGED <<created, lock, shutting_down, cv_not_empty, wpc, rc>>

JoinAll ==
  /\ npc = "join"
  /\ \A w \in 1 .. created : wpc[w] = "exited"
  /\ npc' = "free"
  /\ UNCHANGED <<created, lock, shutting_down, cv_not_empty, wpc, rc>>

(* shutting_down is set: free skips shutdown and releases everything.       *)
Free ==
  /\ npc = "free"
  /\ Return("sys")
  /\ UNCHANGED <<created, lock, shutting_down, cv_not_empty, wpc>>

-----------------------------------------------------------------------------
(* A worker between its creation and its first task.                        *)

WorkerLock(w) ==
  /\ wpc[w] = "lock" /\ w \notin cv_not_empty
  /\ lock = NoWorker
  /\ lock' = w
  /\ wpc' = [wpc EXCEPT ![w] = "test"]
  /\ UNCHANGED <<npc, created, shutting_down, cv_not_empty, rc>>

WorkerTest_NoFlag(w) ==
  /\ wpc[w] = "test"
  /\ wpc' = [wpc EXCEPT ![w] = "sleep"]
  /\ UNCHANGED <<npc, created, lock, shutting_down, cv_not_empty, rc>>

(* The test of the while loop; a worker told to stop releases the lock and  *)
(* leaves worker_main.                                                      *)
WorkerTest(w) ==
  /\ wpc[w] = "test"
  /\ IF shutting_down
     THEN wpc' = [wpc EXCEPT ![w] = "exited"] /\ lock' = NoWorker
     ELSE wpc' = [wpc EXCEPT ![w] = "sleep"] /\ UNCHANGED lock
  /\ UNCHANGED <<npc, created, shutting_down, cv_not_empty, rc>>

(* mcpkg_cond_wait: release the lock and sleep, in one step.                *)
WorkerSleep(w) ==
  /\ wpc[w] = "sleep"
  /\ cv_not_empty' = cv_not_empty \cup {w}
  /\ lock' = NoWorker
  /\ wpc' = [wpc EXCEPT ![w] = "lock"]
  /\ UNCHANGED <<npc, created, shutting_down, rc>>

SpuriousWake(w) ==
  /\ w \in cv_not_empty
  /\ cv_not_empty' = cv_not_empty \ {w}
  /\ UNCHANGED <<npc, created, lock, shutting_down, wpc, rc>>

-----------------------------------------------------------------------------
Cleanup == RaiseFlag \/ Broadcast \/ JoinAll \/ Free
NewPool ==
  \/ \E missing \in SUBSET Field : Allocate(missing)
  \/ AllocateWorkers \/ CreateWorker \/ AllCreated \/ CreateFails \/ Cleanup
Work(w) == WorkerLock(w) \/ WorkerTest(w) \/ WorkerSleep(w)

Next == NewPool \/ \E w \in Worker : Work(w) \/ SpuriousWake(w)

Spec == Init /\ [][Next]_vars

Fairness ==
  /\ WF_vars(NewPool)
  /\ \A w \in Worker : WF_vars(Work(w))

FairSpec == Spec /\ Fairness

-----------------------------------------------------------------------------
(* When new gives a pool up and frees it, no worker is left that could      *)
(* touch it; when it succeeds, every worker exists and none has been told   *)
(* to stop (lines 100-114).                                                 *)
NoWorkerOutlivesPool ==
  npc = "returned" =>
    IF rc = "ok"
    THEN ~shutting_down /\ \A w \in Worker : wpc[w] \notin {"unborn", "exited"}
    ELSE \A w \in Worker : wpc[w] \in {"unborn", "exited"}

(* The failure path ends unless a worker goes to sleep behind the           *)
(* broadcast: if, while the workers are joined, no worker sleeps or is      *)
(* between its test and its sleep, new returns.                             *)
FailureEndsUnlessSlept ==
  npc = "join" /\ cv_not_empty = {} /\ (\A w \in Worker : wpc[w] # "sleep")
    ~> npc = "returned"
=============================================================================
