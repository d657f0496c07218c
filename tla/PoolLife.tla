------------------------------ MODULE PoolLife ------------------------------
(***************************************************************************)
(* libmcpkg/threads/mcpkg_thread_pool.c as a whole: a behaviour is that of *)
(* a pool being made (PoolStartup) or of one that was made (ThreadPool).   *)
(* In the one no worker is in ThreadPool's loop and nobody calls the pool; *)
(* in the other mcpkg_thread_pool_new has returned, and its workers have   *)
(* gone over to that loop.                                                 *)
(***************************************************************************)
EXTENDS ThreadPool

CONSTANTS
  NumThreads,  \* cfg->threads, of the pool being made
  NoWorker

VARIABLES making, npc, created, lock, flag, asleep, at, ret

startVars == <<npc, created, lock, flag, asleep, at, ret>>
lifeVars == <<making, vars, startVars>>

Start == INSTANCE PoolStartup WITH
           shutting_down <- flag, cv_not_empty <- asleep, wpc <- at, rc <- ret

ASSUME MakingAssumption == Start!StartupAssumption

MakingInit ==
  /\ making = TRUE /\ Start!Init
  /\ slots = [i \in Slot |-> NoTask] /\ head = 0 /\ tail = 0 /\ len = 0 /\ active = 0
  /\ shutting_down = FALSE /\ joined = FALSE /\ life = "live" /\ stopped = FALSE
  /\ cv_not_empty = {} /\ cv_not_full = {} /\ cv_drained = {}
  /\ wpc = [w \in Workers |-> "exited"] /\ job = [w \in Workers |-> NoTask]
  /\ cpc = [c \in Clients |-> "idle"] /\ arg = [c \in Clients |-> NoTask]
  /\ status = [t \in Tasks |-> "new"]

MadeInit ==
  /\ making = FALSE /\ Init
  /\ npc = "returned" /\ created = NumThreads /\ lock = NoWorker
  /\ flag = FALSE /\ asleep = {} /\ at = [w \in Start!Worker |-> "main"] /\ ret = "ok"

LifeNext ==
  \/ making /\ Start!Next /\ UNCHANGED <<making, vars>>
  \/ ~making /\ Next /\ UNCHANGED <<making, startVars>>

LifeSpec ==
  /\ MakingInit \/ MadeInit
  /\ [][LifeNext]_lifeVars
  /\ Fairness /\ Start!Fairness

(* PoolStartup's properties. *)
NoWorkerOutlivesPool == Start!NoWorkerOutlivesPool
FailureEndsUnlessSlept == Start!FailureEndsUnlessSlept
=============================================================================
