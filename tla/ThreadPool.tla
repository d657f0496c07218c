----------------------------- MODULE ThreadPool -----------------------------
(***************************************************************************)
(* libmcpkg/threads/mcpkg_thread_pool.c: a fixed set of workers serving a  *)
(* ring buffer of tasks under one mutex and three condition variables.     *)
(*                                                                         *)
(* Every access to the pool's fields is made under p->lock, save two reads *)
(* and one write named below, so the code between taking the lock and      *)
(* releasing it (or waiting, which releases it) is one action.  A thread   *)
(* blocked in mcpkg_cond_wait is a member of the condition variable's wait *)
(* set; once it leaves the set it may run again, and every wait of this    *)
(* file sits in a loop that tests its predicate again.  The creation of a  *)
(* pool and its failure path, which do not take the lock, are the subject  *)
(* of PoolStartup; here the pool has been created.                         *)
(***************************************************************************)
EXTENDS Naturals, FiniteSets

CONSTANTS
  Workers,   \* the threads of p->workers
  Clients,   \* the threads that call the pool's functions
  Stoppers,  \* the clients that may call shutdown and free
  Tasks,     \* the tasks submitted, one for each call of (try_)submit
  Cap,       \* p->cap, cfg->q_capacity
  NoTask     \* a null task

ASSUME PoolAssumption ==
  /\ IsFiniteSet(Workers) /\ Workers # {}     \* cfg->threads != 0
  /\ IsFiniteSet(Clients)
  /\ Stoppers \subseteq Clients
  /\ Cap \in Nat \ {0}                        \* cfg->q_capacity != 0
  /\ NoTask \notin Tasks

Slot == 0 .. Cap - 1
WorkerPC == {"top", "run", "exited"}
ClientPC == {"idle", "submit", "try", "drain", "stop", "stopwait",
             "join", "joinset", "joining", "free", "reclaim"}
Status == {"new", "calling", "queued", "running", "finished", "refused"}

VARIABLES
  slots,          \* p->q
  head,           \* p->head, the slot popped next
  tail,           \* p->tail, the slot pushed next
  len,            \* p->len
  active,         \* p->active, workers running a task
  shutting_down,  \* p->shutting_down
  joined,         \* p->joined
  cv_not_empty,   \* workers waiting for a task
  cv_not_full,    \* submitters waiting for a slot
  cv_drained,     \* drain and shutdown calls waiting for an idle pool
  wpc,            \* where each worker is in worker_main
  job,            \* the task a worker has popped
  cpc,            \* the call each client is in, and how far
  arg,            \* the task of a client's (try_)submit
  life,           \* is the pool in use, being freed, or freed?
  status,         \* history: what became of each task
  stopped         \* history: has some shutdown call returned?

ring == <<slots, head, tail, len>>
condvars == <<cv_not_empty, cv_not_full, cv_drained>>
pool == <<ring, active, shutting_down, joined, condvars>>
vars == <<slots, head, tail, len, active, shutting_down, joined, cv_not_empty,
          cv_not_full, cv_drained, wpc, job, cpc, arg, life, status, stopped>>

TypeOK ==
  /\ slots \in [Slot -> Tasks \cup {NoTask}]
  /\ head \in Slot
  /\ tail \in Slot
  /\ len \in 0 .. Cap
  /\ active \in Nat
  /\ shutting_down \in BOOLEAN
  /\ joined \in BOOLEAN
  /\ cv_not_empty \subseteq Workers
  /\ cv_not_full \subseteq Clients
  /\ cv_drained \subseteq Clients
  /\ wpc \in [Workers -> WorkerPC]
  /\ job \in [Workers -> Tasks \cup {NoTask}]
  /\ cpc \in [Clients -> ClientPC]
  /\ arg \in [Clients -> Tasks \cup {NoTask}]
  /\ life \in {"live", "freeing", "freed"}
  /\ status \in [Tasks -> Status]
  /\ stopped \in BOOLEAN

-----------------------------------------------------------------------------
(* mcpkg_thread_pool_new, when every worker could be created. *)
Init ==
  /\ slots = [i \in Slot |-> NoTask]
  /\ head = 0 /\ tail = 0 /\ len = 0
  /\ active = 0
  /\ shutting_down = FALSE
  /\ joined = FALSE
  /\ cv_not_empty = {} /\ cv_not_full = {} /\ cv_drained = {}
  /\ wpc = [w \in Workers |-> "top"]
  /\ job = [w \in Workers |-> NoTask]
  /\ cpc = [c \in Clients |-> "idle"]
  /\ arg = [c \in Clients |-> NoTask]
  /\ life = "live"
  /\ status = [t \in Tasks |-> "new"]
  /\ stopped = FALSE

(* An operator named Op_Slip is Op with a slip a programmer could make; the *)
(* mutants of PROJECT.json put it in the place of Op to show that the       *)
(* properties below notice.                                                 *)

(* mcpkg_cond_signal wakes a waiter if there is one.  That it may wake      *)
(* more than one is covered by SpuriousWake.                                *)
Signal(cv, cvNext) ==
  \/ cv = {} /\ cvNext = {}
  \/ \E t \in cv : cvNext = cv \ {t}

SignalNotEmpty_EmptyOnly ==
  IF len = 0 THEN Signal(cv_not_empty, cv_not_empty') ELSE UNCHANGED cv_not_empty

SignalNotEmpty == Signal(cv_not_empty, cv_not_empty')

SignalNotFull == Signal(cv_not_full, cv_not_full')

BroadcastNotEmpty_One == Signal(cv_not_empty, cv_not_empty')

BroadcastNotEmpty == cv_not_empty' = {}

(* The last worker to finish wakes everybody who waits for an idle pool.    *)
BroadcastIfIdle ==
  cv_drained' = IF len = 0 /\ active' = 0 THEN {} ELSE cv_drained

Busy_QueueOnly == len > 0

Busy == len > 0 \/ active > 0

MayPush_NoRetest == len # Cap

MayPush == ~shutting_down /\ len # Cap

MayExit_Hasty == shutting_down

MayExit == len = 0 /\ shutting_down

After(i) == (i + 1) % Cap       \* the slot after slot i
SetStatus(t, s) == status' = [status EXCEPT ![t] = s]
Goto(c, pc) == cpc' = [cpc EXCEPT ![c] = pc]

-----------------------------------------------------------------------------
(* Workers: worker_main.                                                    *)

AtTop(w) == wpc[w] = "top" /\ w \notin cv_not_empty

WorkerWait(w) ==
  /\ AtTop(w)
  /\ len = 0 /\ ~shutting_down
  /\ cv_not_empty' = cv_not_empty \cup {w}
  /\ UNCHANGED <<ring, active, shutting_down, joined, cv_not_full, cv_drained,
                 wpc, job, cpc, arg, life, status, stopped>>

WorkerExit(w) ==
  /\ AtTop(w)
  /\ MayExit
  /\ wpc' = [wpc EXCEPT ![w] = "exited"]
  /\ UNCHANGED <<pool, job, cpc, arg, life, status, stopped>>

(* The popped slot keeps its old contents. *)
WorkerPop(w) ==
  /\ AtTop(w)
  /\ len > 0
  /\ job' = [job EXCEPT ![w] = slots[head]]
  /\ head' = After(head)
  /\ len' = len - 1
  /\ active' = active + 1
  /\ SignalNotFull
  /\ wpc' = [wpc EXCEPT ![w] = "run"]
  /\ SetStatus(slots[head], "running")
  /\ UNCHANGED <<slots, tail, shutting_down, joined, cv_not_empty, cv_drained,
                 cpc, arg, life, stopped>>

(* The task's function returns and the worker takes the lock again. *)
WorkerFinish(w) ==
  /\ wpc[w] = "run"
  /\ active' = active - 1
  /\ BroadcastIfIdle
  /\ wpc' = [wpc EXCEPT ![w] = "top"]
  /\ job' = [job EXCEPT ![w] = NoTask]
  /\ SetStatus(job[w], "finished")
  /\ UNCHANGED <<ring, shutting_down, joined, cv_not_empty, cv_not_full,
                 cpc, arg, life, stopped>>

-----------------------------------------------------------------------------
(* Clients: an idle client calls a function of the pool.  Once free has     *)
(* been called the pool belongs to the caller of free: nobody calls again.  *)

CallWithTask(c, t, pc) ==
  /\ cpc[c] = "idle" /\ life = "live"
  /\ status[t] = "new"
  /\ Goto(c, pc)
  /\ arg' = [arg EXCEPT ![c] = t]
  /\ SetStatus(t, "calling")
  /\ UNCHANGED <<pool, wpc, job, life, stopped>>

CallDrain(c) ==
  /\ cpc[c] = "idle" /\ life = "live"
  /\ Goto(c, "drain")
  /\ UNCHANGED <<pool, wpc, job, arg, life, status, stopped>>

CallShutdown(c) ==
  /\ c \in Stoppers
  /\ cpc[c] = "idle" /\ life = "live"
  /\ Goto(c, "stop")
  /\ UNCHANGED <<pool, wpc, job, arg, life, status, stopped>>

CallFree(c) ==
  /\ c \in Stoppers
  /\ \A d \in Clients : cpc[d] = "idle"
  /\ life = "live"
  /\ life' = "freeing"
  /\ Goto(c, "free")
  /\ UNCHANGED <<pool, wpc, job, arg, status, stopped>>

(* Back from (try_)submit with the task in the given state. *)
ReturnTask(c, s) ==
  /\ SetStatus(arg[c], s)
  /\ Goto(c, "idle")
  /\ arg' = [arg EXCEPT ![c] = NoTask]

Push_KeepsTail(t) ==
  /\ slots' = [slots EXCEPT ![tail] = t]
  /\ len' = len + 1
  /\ SignalNotEmpty
  /\ UNCHANGED <<head, tail, active, shutting_down, joined, cv_not_full, cv_drained>>

Push(t) ==
  /\ slots' = [slots EXCEPT ![tail] = t]
  /\ tail' = After(tail)
  /\ len' = len + 1
  /\ SignalNotEmpty
  /\ UNCHANGED <<head, active, shutting_down, joined, cv_not_full, cv_drained>>

(* mcpkg_thread_pool_submit.  Its first test of shutting_down and the one   *)
(* after the wait have the same outcome, so a first attempt and an attempt  *)
(* after waking are the same actions.                                       *)
AtSubmit(c) == cpc[c] = "submit" /\ c \notin cv_not_full

SubmitRefuse(c) ==
  /\ AtSubmit(c)
  /\ shutting_down
  /\ ReturnTask(c, "refused")
  /\ UNCHANGED <<pool, wpc, job, life, stopped>>

SubmitWait(c) ==
  /\ AtSubmit(c)
  /\ ~shutting_down /\ len = Cap
  /\ cv_not_full' = cv_not_full \cup {c}
  /\ UNCHANGED <<ring, active, shutting_down, joined, cv_not_empty, cv_drained,
                 wpc, job, cpc, arg, life, status, stopped>>

SubmitPush(c) ==
  /\ AtSubmit(c)
  /\ MayPush
  /\ Push(arg[c])
  /\ ReturnTask(c, "queued")
  /\ UNCHANGED <<wpc, job, life, stopped>>

(* mcpkg_thread_pool_try_submit. *)
TryRefuse(c) ==
  /\ cpc[c] = "try"
  /\ shutting_down \/ len = Cap
  /\ ReturnTask(c, "refused")
  /\ UNCHANGED <<pool, wpc, job, life, stopped>>

TryPush(c) ==
  /\ cpc[c] = "try"
  /\ MayPush
  /\ Push(arg[c])
  /\ ReturnTask(c, "queued")
  /\ UNCHANGED <<wpc, job, life, stopped>>

(* The wait for cv_drained shared by drain and shutdown. *)
WaitDrained(c) ==
  /\ cpc[c] \in {"drain", "stopwait"} /\ c \notin cv_drained
  /\ Busy
  /\ cv_drained' = cv_drained \cup {c}
  /\ UNCHANGED <<ring, active, shutting_down, joined, cv_not_empty, cv_not_full,
                 wpc, job, cpc, arg, life, status, stopped>>

(* mcpkg_thread_pool_drain returns. *)
DrainReturn(c) ==
  /\ cpc[c] = "drain" /\ c \notin cv_drained
  /\ ~Busy
  /\ Goto(c, "idle")
  /\ UNCHANGED <<pool, wpc, job, arg, life, status, stopped>>

(* mcpkg_thread_pool_shutdown raises the flag and wakes idle workers; its   *)
(* first test of the pool is made before the lock is released.              *)
ShutdownBegin(c) ==
  /\ cpc[c] = "stop"
  /\ shutting_down' = TRUE
  /\ BroadcastNotEmpty
  /\ IF Busy
     THEN Goto(c, "stopwait") /\ cv_drained' = cv_drained \cup {c}
     ELSE Goto(c, "join") /\ UNCHANGED cv_drained
  /\ UNCHANGED <<ring, active, joined, cv_not_full,
                 wpc, job, arg, life, status, stopped>>

ShutdownIdle(c) ==
  /\ cpc[c] = "stopwait" /\ c \notin cv_drained
  /\ ~Busy
  /\ Goto(c, "join")
  /\ UNCHANGED <<pool, wpc, job, arg, life, status, stopped>>

(* pool_join_workers, and the return from shutdown or to free.  The flag    *)
(* p->joined is read and then written without the lock.                     *)
ShutdownReturn(c) ==
  /\ Goto(c, IF life = "live" THEN "idle" ELSE "reclaim")
  /\ stopped' = TRUE

JoinSkip(c) ==
  /\ cpc[c] = "join"
  /\ joined
  /\ ShutdownReturn(c)
  /\ UNCHANGED <<pool, wpc, job, arg, life, status>>

JoinTest(c) ==
  /\ cpc[c] = "join"
  /\ ~joined
  /\ Goto(c, "joinset")
  /\ UNCHANGED <<pool, wpc, job, arg, life, status, stopped>>

JoinSet(c) ==
  /\ cpc[c] = "joinset"
  /\ joined' = TRUE
  /\ Goto(c, "joining")
  /\ UNCHANGED <<ring, active, shutting_down, condvars,
                 wpc, job, arg, life, status, stopped>>

JoinDone_OneWorker(c) ==
  /\ cpc[c] = "joining"
  /\ \E w \in Workers : wpc[w] = "exited"
  /\ ShutdownReturn(c)
  /\ UNCHANGED <<pool, wpc, job, arg, life, status>>

(* Two calls of shutdown may both have found joined unset.  To join one     *)
(* thread twice, and to free its handle twice, is undefined: the process    *)
(* may end here, or the second pthread_join fails, which nobody looks at,   *)
(* and its caller goes on without having waited.                            *)
JoinTwice(c) ==
  /\ cpc[c] = "joining"
  /\ \E d \in Clients \ {c} : cpc[d] = "joining"
  /\ ShutdownReturn(c)
  /\ UNCHANGED <<pool, wpc, job, arg, life, status>>

(* The loop of mcpkg_thread_join ends when every worker has exited. *)
JoinDone(c) ==
  /\ cpc[c] = "joining"
  /\ \A w \in Workers : wpc[w] = "exited"
  /\ ShutdownReturn(c)
  /\ UNCHANGED <<pool, wpc, job, arg, life, status>>

(* mcpkg_thread_pool_free reads shutting_down without the lock. *)
FreeTest(c) ==
  /\ cpc[c] = "free"
  /\ Goto(c, IF shutting_down THEN "reclaim" ELSE "stop")
  /\ UNCHANGED <<pool, wpc, job, arg, life, status, stopped>>

Reclaim(c) ==
  /\ cpc[c] = "reclaim"
  /\ life' = "freed"
  /\ Goto(c, "idle")
  /\ UNCHANGED <<pool, wpc, job, arg, status, stopped>>

(* POSIX lets mcpkg_cond_wait return although nobody signalled. *)
SpuriousWake ==
  /\ \/ /\ \E w \in cv_not_empty : cv_not_empty' = cv_not_empty \ {w}
        /\ UNCHANGED <<cv_not_full, cv_drained>>
     \/ /\ \E c \in cv_not_full : cv_not_full' = cv_not_full \ {c}
        /\ UNCHANGED <<cv_not_empty, cv_drained>>
     \/ /\ \E c \in cv_drained : cv_drained' = cv_drained \ {c}
        /\ UNCHANGED <<cv_not_empty, cv_not_full>>
  /\ UNCHANGED <<ring, active, shutting_down, joined,
                 wpc, job, cpc, arg, life, status, stopped>>

-----------------------------------------------------------------------------
Work(w) == WorkerWait(w) \/ WorkerExit(w) \/ WorkerPop(w) \/ WorkerFinish(w)

Call(c) ==
  \/ \E t \in Tasks : CallWithTask(c, t, "submit") \/ CallWithTask(c, t, "try")
  \/ CallDrain(c) \/ CallShutdown(c) \/ CallFree(c)

Proceed(c) ==
  \/ SubmitRefuse(c) \/ SubmitWait(c) \/ SubmitPush(c)
  \/ TryRefuse(c) \/ TryPush(c)
  \/ WaitDrained(c) \/ DrainReturn(c)
  \/ ShutdownBegin(c) \/ ShutdownIdle(c)
  \/ JoinSkip(c) \/ JoinTest(c) \/ JoinSet(c) \/ JoinTwice(c) \/ JoinDone(c)
  \/ FreeTest(c) \/ Reclaim(c)

Next ==
  \/ \E w \in Workers : Work(w)
  \/ \E c \in Clients : Call(c) \/ Proceed(c)
  \/ SpuriousWake

Spec == Init /\ [][Next]_vars

(* Threads that can run do run, and get the mutex they ask for, and the     *)
(* functions of the tasks return.  Nobody has to call anything, and nobody  *)
(* may count on a spurious wake-up.                                         *)
Fairness ==
  /\ \A w \in Workers : WF_vars(Work(w))
  /\ \A c \in Clients : WF_vars(Proceed(c))

FairSpec == Spec /\ Fairness

-----------------------------------------------------------------------------
(* Safety.                                                                  *)

Pos(i) == (head + i) % Cap            \* the slot of the i-th waiting task
InRing(t) == {i \in 0 .. len - 1 : slots[Pos(i)] = t}
HeldBy(t) == {w \in Workers : job[w] = t}
Unsettled == {t \in Tasks : status[t] \in {"queued", "running"}}
Awake(w) == wpc[w] = "top" /\ w \notin cv_not_empty

(* A task accepted by submit or try_submit is in exactly one slot of the    *)
(* ring until a worker pops it, and then in the hands of exactly one worker *)
(* until it has run: no interleaving of producers and workers loses it,     *)
(* overwrites it or runs it twice (lines 48-51, 194-197, 217-220).          *)
NoTaskLost ==
  \A t \in Tasks :
    /\ Cardinality(InRing(t)) = IF status[t] = "queued" THEN 1 ELSE 0
    /\ Cardinality(HeldBy(t)) = IF status[t] = "running" THEN 1 ELSE 0

(* drain, and the wait inside shutdown, return only at a moment when no     *)
(* accepted task is waiting or running, although they look at two counters  *)
(* and never at a task (lines 139, 233).                                    *)
QuietReturn ==
  [][\A c \in Clients :
       \/ cpc[c] = "drain" /\ cpc'[c] = "idle"
       \/ cpc[c] \in {"stop", "stopwait"} /\ cpc'[c] = "join"
       => Unsettled' = {}]_vars

(* Once some call of shutdown has returned no task is waiting or running,   *)
(* and, this being an invariant, none is ever accepted again ("graceful:    *)
(* drain").                                                                 *)
StoppedForGood == stopped => shutting_down /\ Unsettled = {}

(* free releases the lock, the ring and the condition variables only after  *)
(* every thread that uses them is gone: the workers have left worker_main   *)
(* and no client is inside a call (lines 147-171).                          *)
FreedUnused ==
  life = "freed" => /\ \A w \in Workers : wpc[w] = "exited"
                    /\ \A c \in Clients : cpc[c] = "idle"

(* A push signals one worker only.  That is enough: while a worker sleeps   *)
(* on cv_not_empty, every waiting task has an awake worker of its own on    *)
(* its way to the ring (lines 40-41, 199, 222).                             *)
WorkersWoken ==
  cv_not_empty # {} => Cardinality({w \in Workers : Awake(w)}) >= len

(* The same for cv_not_full, which a pop signals once: until shutdown       *)
(* begins, while a submitter sleeps every free slot has an awake submitter  *)
(* on its way to it (lines 52, 186-187).                                    *)
SubmittersWoken ==
  cv_not_full # {} /\ ~shutting_down =>
    Cardinality({c \in Clients : AtSubmit(c)}) >= Cap - len

(* Nobody sleeps on cv_drained while the pool is idle, so the last          *)
(* WorkerFinish, the only broadcast, is enough (lines 60-61).               *)
DrainersWoken == cv_drained # {} => Busy

(* No wake-up is lost, though none is signalled but once. *)
NoWakeUpLost == WorkersWoken /\ SubmittersWoken /\ DrainersWoken

-----------------------------------------------------------------------------
(* The pool implements TaskPool: the ring is its queue.                     *)

With(s) == {t \in Tasks : status[t] = s}

TP == INSTANCE TaskPool WITH
        NumWorkers <- Cardinality(Workers),
        Capacity <- Cap,
        queue <- [i \in 1 .. len |-> slots[Pos(i - 1)]],
        running <- With("running"),
        finished <- With("finished"),
        refused <- With("refused"),
        closed <- shutting_down

(* Tasks are started in the order in which they were accepted, at most      *)
(* p->threads of them run at a time and at most p->cap wait, and a task is  *)
(* refused only by a closed or a full pool.  Under fairness every waiting   *)
(* task is started and every started task finishes, also while the pool is  *)
(* being shut down.                                                         *)
ImplementsLiveTaskPool == TP!Spec

-----------------------------------------------------------------------------
(* Liveness, under FairSpec.                                                *)

(* A call of submit returns, however the queue fills up, unless the pool is *)
(* shut down meanwhile (then see BlocksOnlyIfFull).                         *)
SubmitReturns ==
  \A c \in Clients : cpc[c] = "submit" ~> cpc[c] = "idle" \/ shutting_down

(* A call of drain returns: the tasks end.                                  *)
DrainReturns == \A c \in Clients : cpc[c] = "drain" ~> cpc[c] = "idle"

(* shutdown and free return: the accepted tasks are drained and the workers *)
(* see the flag, exit and are joined.                                       *)
ShutdownReturns ==
  \A c \in Stoppers : cpc[c] \notin {"idle", "submit", "try", "drain"}
                        ~> cpc[c] = "idle"

(* Every call returns. *)
CallsReturn == SubmitReturns /\ DrainReturns /\ ShutdownReturns

(* mcpkg_thread_pool.h:31 says of submit "blocks if full": a submitter that *)
(* sleeps does not sleep on for ever when the queue is no longer full.      *)
BlocksOnlyIfFull ==
  \A c \in Clients : c \in cv_not_full /\ len < Cap
                       ~> c \notin cv_not_full \/ len = Cap
=============================================================================
