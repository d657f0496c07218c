-------------------------- MODULE ThreadPoolProofs --------------------------
(***************************************************************************)
(* What holds of mcpkg_thread_pool.c for every number of workers and       *)
(* clients, every capacity and every set of tasks: of the pool itself, of  *)
(* the pool as TaskPool promises it, and of the making of a pool.  Then,   *)
(* for every set of fetches and every length of a body, what a client of   *)
(* the downloader may rely on.  The downloader's pool is a ThreadPool, so  *)
(* what is proved of that is true there of its part of the state.  Last,   *)
(* for every number of threads and callbacks, what a future promises.      *)
(***************************************************************************)
EXTENDS PoolLife, Downloads, Future, FiniteSetTheorems, SequenceTheorems, TLAPS

-----------------------------------------------------------------------------
(* The inductive invariant, in parts.                                       *)

(* The waiting tasks are the contents of the len slots from head on. *)
RingInv ==
  /\ tail = Pos(len)
  /\ \A i \in 0 .. len - 1 :
       slots[Pos(i)] \in Tasks /\ status[slots[Pos(i)]] = "queued"
  /\ \A i, j \in 0 .. len - 1 : slots[Pos(i)] = slots[Pos(j)] => i = j
  /\ \A t \in Tasks : status[t] = "queued" => \E i \in 0 .. len - 1 : slots[Pos(i)] = t

(* The running tasks are the jobs of the running workers. *)
JobInv ==
  /\ \A w \in Workers :
       IF wpc[w] = "run" THEN job[w] \in Tasks /\ status[job[w]] = "running"
                         ELSE job[w] = NoTask
  /\ \A v, w \in Workers : job[v] = job[w] /\ job[v] # NoTask => v = w
  /\ \A t \in Tasks : status[t] = "running" => \E w \in Workers : job[w] = t

(* The tasks being submitted are the arguments of the submitting clients. *)
ArgInv ==
  /\ \A c \in Clients :
       cpc[c] \in {"submit", "try"} => arg[c] \in Tasks /\ status[arg[c]] = "calling"
  /\ \A c, d \in Clients :
       /\ cpc[c] \in {"submit", "try"} /\ cpc[d] \in {"submit", "try"}
       /\ arg[c] = arg[d]
       => c = d

Running == {w \in Workers : wpc[w] = "run"}
ActiveInv == active = Cardinality(Running)

AllExited == \A w \in Workers : wpc[w] = "exited"
Stopping(c) == cpc[c] \in {"stopwait", "join", "joinset", "joining"}

(* Once the wait inside shutdown is over the pool is quiet for good. *)
StopInv ==
  /\ \A c \in Clients : Stopping(c) \/ cpc[c] = "reclaim" => shutting_down
  /\ stopped \/ joined => shutting_down
  /\ \A w \in Workers : wpc[w] = "exited" => shutting_down /\ len = 0
  /\ (\E c \in Clients : cpc[c] \in {"join", "joinset", "joining", "reclaim"}) \/ stopped
       => len = 0 /\ active = 0

(* A pool that is shutting down has a client that waits for the workers,    *)
(* until they have all exited, and nobody but the client that frees the     *)
(* pool is in a call while it is being freed.                               *)
FreeInv ==
  /\ shutting_down => AllExited \/ \E c \in Clients : Stopping(c)
  /\ joined => AllExited \/ \E c \in Clients : cpc[c] = "joining"
  /\ \A c \in Clients : cpc[c] = "free" => life = "freeing"
  /\ \A c \in Clients : cpc[c] = "reclaim" => life = "freeing" /\ AllExited
  /\ life # "live" =>
       \A c, d \in Clients : cpc[c] # "idle" /\ cpc[d] # "idle" => c = d
  /\ FreedUnused

(* Only threads in the right loop sleep on a condition variable. *)
SleepInv ==
  /\ \A w \in cv_not_empty : wpc[w] = "top"
  /\ \A c \in cv_not_full : cpc[c] = "submit"

IInv ==
  /\ SleepInv
  /\ TypeOK /\ RingInv /\ JobInv /\ ArgInv /\ ActiveInv /\ StopInv /\ FreeInv
  /\ DrainersWoken /\ WorkersWoken /\ SubmittersWoken
-----------------------------------------------------------------------------
(* Arithmetic of the ring.                                                  *)

LEMMA ModSmall ==
  ASSUME NEW x \in Nat, x < Cap
  PROVE  x % Cap = x
BY PoolAssumption

LEMMA ModWrapped ==
  ASSUME NEW x \in Nat, x < Cap
  PROVE  (x + Cap) % Cap = x
BY PoolAssumption

LEMMA ModCap ==
  \A x \in Nat : x < 2 * Cap => x % Cap = IF x < Cap THEN x ELSE x - Cap
<1> SUFFICES ASSUME NEW x \in Nat, x < 2 * Cap
             PROVE  x % Cap = IF x < Cap THEN x ELSE x - Cap
  OBVIOUS
<1>1. CASE x < Cap
  BY <1>1, ModSmall
<1>2. CASE ~(x < Cap)
  <2>1. x - Cap \in Nat /\ x - Cap < Cap /\ (x - Cap) + Cap = x
    BY <1>2, PoolAssumption
  <2>2. ((x - Cap) + Cap) % Cap = x - Cap
    BY <2>1, ModWrapped
  <2> QED
    BY <1>2, <2>1, <2>2
<1> QED
  BY <1>1, <1>2

LEMMA AfterSlot ==
  ASSUME NEW i \in Slot
  PROVE  After(i) = IF i + 1 = Cap THEN 0 ELSE i + 1
BY PoolAssumption, ModCap DEF After, Slot

LEMMA PosSlot ==
  ASSUME TypeOK, NEW i \in 0 .. Cap
  PROVE  Pos(i) = IF head + i < Cap THEN head + i ELSE head + i - Cap
<1>1. Cap \in Nat /\ head \in Nat /\ head < Cap
  BY PoolAssumption DEF TypeOK, Slot
<1>2. head + i \in Nat /\ head + i < 2 * Cap
  BY <1>1
<1>3. (head + i) % Cap = IF head + i < Cap THEN head + i ELSE head + i - Cap
  BY <1>1, <1>2, ModCap, PoolAssumption
<1> QED
  BY <1>3 DEF Pos

LEMMA PosInSlot ==
  ASSUME TypeOK, NEW i \in 0 .. Cap
  PROVE  Pos(i) \in Slot
<1>1. Cap \in Nat /\ head \in Nat /\ head < Cap
  BY PoolAssumption DEF TypeOK, Slot
<1> QED
  BY <1>1, PosSlot DEF Slot

(* Different waiting tasks are in different slots. *)
LEMMA PosInjective ==
  ASSUME TypeOK, NEW i \in 0 .. Cap - 1, NEW j \in 0 .. Cap - 1, Pos(i) = Pos(j)
  PROVE  i = j
<1>1. Cap \in Nat /\ head \in Nat /\ head < Cap
  BY PoolAssumption DEF TypeOK, Slot
<1>2. i \in 0 .. Cap /\ j \in 0 .. Cap
  BY <1>1
<1> QED
  BY <1>1, <1>2, PosSlot

(* The task at the head of a ring that is not empty. *)
LEMMA HeadTask ==
  ASSUME TypeOK, RingInv, len > 0
  PROVE  Pos(0) = head /\ slots[head] \in Tasks /\ status[slots[head]] = "queued"
<1>1. Cap \in Nat /\ head \in Nat /\ head < Cap /\ len \in Nat
  BY PoolAssumption DEF TypeOK, Slot
<1>2. Pos(0) = head
  BY <1>1, PosSlot
<1> QED
  BY <1>1, <1>2 DEF RingInv

LEMMA RunningFinite == IsFiniteSet(Running) /\ Cardinality(Running) \in Nat
BY PoolAssumption, FS_Subset, FS_CardinalityType DEF Running

(* A running worker is counted. *)
LEMMA RunningCounted ==
  ASSUME ActiveInv, NEW w \in Workers, wpc[w] = "run"
  PROVE  active \in Nat /\ active > 0
<1>1. Running # {}
  BY DEF Running
<1> QED
  BY <1>1, RunningFinite, FS_EmptySet DEF ActiveInv

-----------------------------------------------------------------------------
(* Type correctness.                                                        *)

LEMMA InitType == Init => TypeOK
<1> SUFFICES ASSUME Init PROVE TypeOK
  OBVIOUS
<1>1. 0 \in Slot /\ Cap \in Nat
  BY PoolAssumption DEF Slot
<1>2. 0 \in 0 .. Cap
  BY <1>1
<1> QED
  BY <1>1, <1>2 DEF Init, TypeOK, WorkerPC, ClientPC, Status

LEMMA AfterType == ASSUME NEW i \in Slot PROVE After(i) \in Slot
<1>1. Cap \in Nat \ {0}
  BY PoolAssumption
<1> QED
  BY <1>1, AfterSlot DEF Slot

LEMMA WorkType ==
  ASSUME TypeOK, RingInv, JobInv, ActiveInv, NEW w \in Workers, Work(w)
  PROVE  TypeOK'
<1>1. CASE WorkerWait(w)
  BY <1>1 DEF WorkerWait, TypeOK, ring
<1>2. CASE WorkerExit(w)
  BY <1>2 DEF WorkerExit, TypeOK, pool, ring, condvars, WorkerPC
<1>3. CASE WorkerPop(w)
  <2>1. slots[head] \in Tasks
    BY <1>3, HeadTask DEF WorkerPop
  <2>2. head' \in Slot
    BY <1>3, AfterType DEF WorkerPop, TypeOK
  <2>3. len' \in 0 .. Cap /\ active' \in Nat
    BY <1>3, PoolAssumption DEF WorkerPop, TypeOK
  <2>4. cv_not_full' \subseteq Clients
    BY <1>3 DEF WorkerPop, SignalNotFull, Signal, TypeOK
  <2> QED
    BY <1>3, <2>1, <2>2, <2>3, <2>4
    DEF WorkerPop, TypeOK, SetStatus, Status, WorkerPC
<1>4. CASE WorkerFinish(w)
  <2>1. job[w] \in Tasks
    BY <1>4 DEF WorkerFinish, JobInv
  <2>2. active' \in Nat
    BY <1>4, RunningCounted DEF WorkerFinish
  <2> QED
    BY <1>4, <2>1, <2>2
    DEF WorkerFinish, TypeOK, SetStatus, Status, WorkerPC, BroadcastIfIdle, ring
<1> QED
  BY <1>1, <1>2, <1>3, <1>4 DEF Work

LEMMA CallType ==
  ASSUME TypeOK, NEW c \in Clients, Call(c)
  PROVE  TypeOK'
<1> USE DEF TypeOK, pool, ring, condvars, ClientPC, Goto
<1>1. ASSUME NEW t \in Tasks, CallWithTask(c, t, "submit") \/ CallWithTask(c, t, "try")
      PROVE  TypeOK'
  BY <1>1 DEF CallWithTask, SetStatus, Status
<1>2. CASE CallDrain(c)
  BY <1>2 DEF CallDrain
<1>3. CASE CallShutdown(c)
  BY <1>3 DEF CallShutdown
<1>4. CASE CallFree(c)
  BY <1>4 DEF CallFree
<1> QED
  BY <1>1, <1>2, <1>3, <1>4 DEF Call

LEMMA PushType ==
  ASSUME TypeOK, NEW t \in Tasks, MayPush, Push(t)
  PROVE  /\ slots' \in [Slot -> Tasks \cup {NoTask}]
         /\ tail' \in Slot
         /\ len' \in 0 .. Cap
         /\ cv_not_empty' \subseteq Workers
<1>1. tail' \in Slot
  BY AfterType DEF Push, TypeOK
<1>2. len' \in 0 .. Cap
  BY PoolAssumption DEF Push, MayPush, TypeOK
<1> QED
  BY <1>1, <1>2 DEF Push, TypeOK, SignalNotEmpty, Signal

LEMMA ProceedType ==
  ASSUME TypeOK, ArgInv, NEW c \in Clients, Proceed(c)
  PROVE  TypeOK'
<1> USE DEF ClientPC, Goto
<1>1. CASE SubmitRefuse(c) \/ TryRefuse(c)
  <2>1. arg[c] \in Tasks
    BY <1>1 DEF SubmitRefuse, TryRefuse, AtSubmit, ArgInv
  <2> QED
    BY <1>1, <2>1 DEF SubmitRefuse, TryRefuse, ReturnTask, SetStatus, Status,
                      TypeOK, pool, ring, condvars
<1>2. CASE SubmitWait(c)
  BY <1>2 DEF SubmitWait, TypeOK, ring
<1>3. CASE SubmitPush(c) \/ TryPush(c)
  <2>1. arg[c] \in Tasks
    BY <1>3 DEF SubmitPush, TryPush, AtSubmit, ArgInv
  <2>2. MayPush /\ Push(arg[c]) /\ ReturnTask(c, "queued") /\ UNCHANGED <<wpc, job, life, stopped>>
    BY <1>3 DEF SubmitPush, TryPush
  <2> QED
    BY <2>1, <2>2, PushType DEF Push, ReturnTask, SetStatus, Status, TypeOK
<1>4. CASE WaitDrained(c)
  BY <1>4 DEF WaitDrained, TypeOK, ring
<1>5. CASE DrainReturn(c) \/ ShutdownIdle(c)
  BY <1>5 DEF DrainReturn, ShutdownIdle, TypeOK, pool, ring, condvars
<1>6. CASE ShutdownBegin(c)
  BY <1>6 DEF ShutdownBegin, BroadcastNotEmpty, TypeOK, ring
<1>7. CASE JoinSkip(c) \/ JoinTwice(c) \/ JoinDone(c)
  BY <1>7 DEF JoinSkip, JoinTwice, JoinDone, ShutdownReturn, TypeOK, pool, ring, condvars
<1>8. CASE JoinTest(c) \/ JoinSet(c)
  BY <1>8 DEF JoinTest, JoinSet, TypeOK, pool, ring, condvars
<1>9. CASE FreeTest(c) \/ Reclaim(c)
  BY <1>9 DEF FreeTest, Reclaim, TypeOK, pool, ring, condvars
<1> QED
  BY <1>1, <1>2, <1>3, <1>4, <1>5, <1>6, <1>7, <1>8, <1>9 DEF Proceed

LEMMA NextType ==
  ASSUME TypeOK, RingInv, JobInv, ArgInv, ActiveInv, [Next]_vars
  PROVE  TypeOK'
<1>1. CASE UNCHANGED vars
  BY <1>1 DEF TypeOK, vars
<1>2. CASE SpuriousWake
  BY <1>2 DEF SpuriousWake, TypeOK, ring
<1> QED
  BY <1>1, <1>2, WorkType, CallType, ProceedType DEF Next

-----------------------------------------------------------------------------
(* What the steps do to the tasks.                                          *)

(* The steps that move no task. *)
Aside ==
  /\ UNCHANGED <<slots, head, tail, len, active, job, arg, status>>
  /\ \A w \in Workers : wpc'[w] = "run" <=> wpc[w] = "run"
  /\ \A c \in Clients : /\ cpc'[c] = "submit" <=> cpc[c] = "submit"
                        /\ cpc'[c] = "try" <=> cpc[c] = "try"

(* A client begins a call with task t, or ends it without having pushed t. *)
Begins(c, t) == CallWithTask(c, t, "submit") \/ CallWithTask(c, t, "try")
Refuses(c) == SubmitRefuse(c) \/ TryRefuse(c)
Pushes(c) ==
  /\ SubmitPush(c) \/ TryPush(c)
  /\ cpc[c] \in {"submit", "try"}
  /\ MayPush
  /\ Push(arg[c])
  /\ ReturnTask(c, "queued")
  /\ UNCHANGED <<wpc, job, life, stopped>>

LEMMA WorkKinds ==
  ASSUME TypeOK, NEW w \in Workers, Work(w)
  PROVE  Aside \/ WorkerPop(w) \/ WorkerFinish(w)
<1>1. CASE WorkerWait(w)
  BY <1>1 DEF WorkerWait, Aside, ring
<1>2. CASE WorkerExit(w)
  BY <1>2 DEF WorkerExit, AtTop, Aside, pool, ring, TypeOK
<1> QED
  BY <1>1, <1>2 DEF Work

LEMMA CallKinds ==
  ASSUME TypeOK, NEW c \in Clients, Call(c)
  PROVE  Aside \/ \E t \in Tasks : Begins(c, t)
<1> USE DEF Aside, Goto, pool, ring, TypeOK
<1>1. CASE CallDrain(c)
  BY <1>1 DEF CallDrain
<1>2. CASE CallShutdown(c)
  BY <1>2 DEF CallShutdown
<1>3. CASE CallFree(c)
  BY <1>3 DEF CallFree
<1> QED
  BY <1>1, <1>2, <1>3 DEF Call, Begins

LEMMA ProceedKinds ==
  ASSUME TypeOK, NEW c \in Clients, Proceed(c)
  PROVE  Aside \/ Refuses(c) \/ Pushes(c)
<1> USE DEF Aside, Goto, pool, ring, TypeOK
<1>1. CASE SubmitWait(c)
  BY <1>1 DEF SubmitWait
<1>2. CASE SubmitPush(c) \/ TryPush(c)
  BY <1>2 DEF SubmitPush, TryPush, AtSubmit, Pushes
<1>3. CASE WaitDrained(c) \/ DrainReturn(c) \/ ShutdownIdle(c)
  BY <1>3 DEF WaitDrained, DrainReturn, ShutdownIdle
<1>4. CASE ShutdownBegin(c)
  BY <1>4 DEF ShutdownBegin
<1>5. CASE JoinSkip(c) \/ JoinTwice(c) \/ JoinDone(c)
  BY <1>5 DEF JoinSkip, JoinTwice, JoinDone, ShutdownReturn
<1>6. CASE JoinTest(c) \/ JoinSet(c)
  BY <1>6 DEF JoinTest, JoinSet
<1>7. CASE FreeTest(c) \/ Reclaim(c)
  BY <1>7 DEF FreeTest, Reclaim
<1> QED
  BY <1>1, <1>2, <1>3, <1>4, <1>5, <1>6, <1>7 DEF Proceed, Refuses

LEMMA StepKinds ==
  ASSUME TypeOK, [Next]_vars
  PROVE  \/ Aside
         \/ \E w \in Workers : WorkerPop(w) \/ WorkerFinish(w)
         \/ \E c \in Clients : \/ Refuses(c) \/ Pushes(c)
                               \/ \E t \in Tasks : Begins(c, t)
<1>1. CASE UNCHANGED vars
  BY <1>1 DEF vars, Aside
<1>2. CASE SpuriousWake
  BY <1>2 DEF SpuriousWake, Aside, ring
<1> QED
  BY <1>1, <1>2, WorkKinds, CallKinds, ProceedKinds DEF Next

(* The ring. *)
LEMMA RingKept ==
  ASSUME RingInv, UNCHANGED ring,
         \A t \in Tasks : status'[t] = "queued" <=> status[t] = "queued"
  PROVE  RingInv'
BY DEF RingInv, ring, Pos

(* A pop makes every waiting task the one before. *)
LEMMA PopShifts ==
  ASSUME TypeOK, NEW w \in Workers, WorkerPop(w), NEW i \in 0 .. len - 1
  PROVE  Pos(i)' = Pos(i + 1)
<1>1. /\ Cap \in Nat \ {0} /\ head \in Nat /\ head < Cap
      /\ len \in Nat /\ len <= Cap /\ head' = After(head)
  BY PoolAssumption DEF TypeOK, Slot, WorkerPop
<1>2. Pos(i + 1) = IF head + i + 1 < Cap THEN head + i + 1 ELSE head + i + 1 - Cap
  BY <1>1, PosSlot
<1>3. After(head) = IF head + 1 = Cap THEN 0 ELSE head + 1
  BY AfterSlot DEF TypeOK
<1>4. After(head) \in Nat /\ After(head) + i \in Nat /\ After(head) + i < 2 * Cap
  BY <1>1, <1>3
<1>5. (After(head) + i) % Cap =
        IF After(head) + i < Cap THEN After(head) + i ELSE After(head) + i - Cap
  BY <1>1, <1>4, ModCap, PoolAssumption
<1>6. Pos(i)' = (After(head) + i) % Cap
  BY <1>1 DEF Pos
<1> QED
  BY <1>1, <1>2, <1>3, <1>5, <1>6

LEMMA RingPop ==
  ASSUME TypeOK, RingInv, NEW w \in Workers, WorkerPop(w)
  PROVE  RingInv'
<1>1. /\ Cap \in Nat \ {0} /\ head \in Nat /\ head < Cap
      /\ len \in Nat /\ len > 0 /\ len <= Cap
      /\ head' = After(head) /\ len' = len - 1 /\ UNCHANGED <<slots, tail>>
      /\ status' = [status EXCEPT ![slots[head]] = "running"]
  BY PoolAssumption DEF TypeOK, Slot, WorkerPop, SetStatus
<1>2. Pos(0) = head /\ slots[head] \in Tasks /\ 0 \in 0 .. len - 1
  BY <1>1, HeadTask
<1>3. ASSUME NEW i \in 0 .. len - 1
      PROVE  Pos(i)' = Pos(i + 1)
  BY PopShifts
<1>4. tail' = Pos(len)'
  <2>1. len - 1 \in 0 .. len - 1 /\ (len - 1) + 1 = len
    BY <1>1
  <2>2. (head' + (len - 1)) % Cap = Pos(len)
    BY <1>3, <2>1 DEF Pos
  <2> QED
    BY <1>1, <2>2 DEF Pos, RingInv
<1>5. ASSUME NEW i \in 0 .. len' - 1
      PROVE  /\ i + 1 \in 0 .. len - 1 /\ i \in 0 .. len - 1
             /\ slots'[Pos(i)'] = slots[Pos(i + 1)]
             /\ slots[Pos(i + 1)] # slots[head]
  <2>1. i + 1 \in 0 .. len - 1 /\ i \in 0 .. len - 1 /\ i + 1 # 0
    BY <1>1
  <2> QED
    BY <1>1, <1>2, <1>3, <2>1 DEF RingInv
<1>6. ASSUME NEW i \in 0 .. len' - 1
      PROVE  slots'[Pos(i)'] \in Tasks /\ status'[slots'[Pos(i)']] = "queued"
  BY <1>1, <1>2, <1>5 DEF RingInv, TypeOK
<1>7. ASSUME NEW i \in 0 .. len' - 1, NEW j \in 0 .. len' - 1,
             slots'[Pos(i)'] = slots'[Pos(j)']
      PROVE  i = j
  <2>1. i + 1 = j + 1
    BY <1>5, <1>7 DEF RingInv
  <2> QED
    BY <2>1
<1>8. ASSUME NEW t \in Tasks, status'[t] = "queued"
      PROVE  \E i \in 0 .. len' - 1 : slots'[Pos(i)'] = t
  <2>1. status[t] = "queued" /\ t # slots[head]
    BY <1>1, <1>2, <1>8 DEF TypeOK
  <2>2. PICK k \in 0 .. len - 1 : slots[Pos(k)] = t
    BY <2>1 DEF RingInv
  <2>3. k # 0
    BY <1>2, <2>1, <2>2
  <2>4. k - 1 \in 0 .. len' - 1 /\ k - 1 \in 0 .. len - 1 /\ (k - 1) + 1 = k
    BY <1>1, <2>3
  <2>5. slots'[Pos(k - 1)'] = t
    BY <1>5, <2>2, <2>4
  <2> QED
    BY <2>4, <2>5
<1> QED
  BY <1>4, <1>6, <1>7, <1>8 DEF RingInv

(* A push leaves the waiting tasks where they are and puts its own behind.   *)
LEMMA PushKeeps ==
  ASSUME TypeOK, RingInv, NEW t \in Tasks, MayPush, Push(t)
  PROVE  /\ \A i \in 0 .. len - 1 : slots'[Pos(i)'] = slots[Pos(i)]
         /\ tail = Pos(len) /\ slots'[tail] = t
<1>1. /\ Cap \in Nat \ {0} /\ len \in Nat /\ len < Cap
      /\ head' = head /\ slots' = [slots EXCEPT ![tail] = t]
  BY PoolAssumption DEF TypeOK, MayPush, Push
<1>2. ASSUME NEW i \in Nat PROVE Pos(i)' = Pos(i)
  BY <1>1 DEF Pos
<1>3. tail = Pos(len) /\ tail \in Slot
  BY DEF RingInv, TypeOK
<1>4. ASSUME NEW i \in 0 .. len - 1
      PROVE  slots'[Pos(i)'] = slots[Pos(i)]
  <2>1. i \in Nat /\ i \in 0 .. Cap /\ i \in 0 .. Cap - 1 /\ len \in 0 .. Cap - 1 /\ i # len
    BY <1>1
  <2>2. Pos(i) \in Slot /\ Pos(i) # Pos(len)
    BY <2>1, PosInSlot, PosInjective
  <2> QED
    BY <1>1, <1>2, <1>3, <2>1, <2>2 DEF TypeOK
<1> QED
  BY <1>1, <1>2, <1>3, <1>4 DEF TypeOK

LEMMA RingPush ==
  ASSUME TypeOK, RingInv, NEW t \in Tasks, status[t] # "queued", MayPush, Push(t),
         status' = [status EXCEPT ![t] = "queued"]
  PROVE  RingInv'
<1>1. /\ Cap \in Nat \ {0} /\ head \in Nat /\ head < Cap
      /\ len \in Nat /\ len < Cap
      /\ head' = head /\ len' = len + 1 /\ tail' = After(tail)
      /\ slots' = [slots EXCEPT ![tail] = t]
  BY PoolAssumption DEF TypeOK, Slot, MayPush, Push
<1>2. ASSUME NEW i \in Nat PROVE Pos(i)' = Pos(i)
  BY <1>1 DEF Pos
<1>3. tail = Pos(len) /\ tail \in Slot
  BY DEF RingInv, TypeOK
<1>4. tail' = Pos(len)'
  <2>1. /\ Pos(len) = IF head + len < Cap THEN head + len ELSE head + len - Cap
        /\ Pos(len + 1) = IF head + len + 1 < Cap THEN head + len + 1
                                                  ELSE head + len + 1 - Cap
    BY <1>1, PosSlot
  <2>2. After(tail) = IF tail + 1 = Cap THEN 0 ELSE tail + 1
    BY <1>3, AfterSlot
  <2>3. After(tail) = Pos(len + 1)
    BY <1>1, <1>3, <2>1, <2>2
  <2>4. Pos(len)' = Pos(len + 1)
    BY <1>1 DEF Pos
  <2> QED
    BY <1>1, <2>3, <2>4
<1>5. ASSUME NEW i \in 0 .. len - 1
      PROVE  slots'[Pos(i)'] = slots[Pos(i)]
  BY PushKeeps
<1>6. ASSUME NEW i \in Nat, i = len
      PROVE  slots'[Pos(i)'] = t /\ status'[t] = "queued"
  BY <1>2, <1>6, PushKeeps DEF TypeOK
<1>7. ASSUME NEW i \in 0 .. len - 1
      PROVE  /\ slots[Pos(i)] \in Tasks /\ slots[Pos(i)] # t
             /\ status'[slots[Pos(i)]] = "queued"
  BY DEF RingInv, TypeOK
<1>8. \A i \in 0 .. len' - 1 : i \in Nat /\ (i \in 0 .. len - 1 \/ i = len)
  BY <1>1
<1>9. 0 .. len - 1 \subseteq 0 .. len' - 1 /\ len \in 0 .. len' - 1
  BY <1>1
<1>10. ASSUME NEW i \in 0 .. len' - 1
       PROVE  slots'[Pos(i)'] \in Tasks /\ status'[slots'[Pos(i)']] = "queued"
  BY <1>5, <1>6, <1>7, <1>8
<1>11. ASSUME NEW i \in 0 .. len' - 1, NEW j \in 0 .. len' - 1,
              slots'[Pos(i)'] = slots'[Pos(j)']
       PROVE  i = j
  BY <1>5, <1>6, <1>7, <1>8, <1>11 DEF RingInv
<1>12. ASSUME NEW u \in Tasks, status'[u] = "queued"
       PROVE  \E i \in 0 .. len' - 1 : slots'[Pos(i)'] = u
  <2>1. CASE u = t
    <3>1. PICK k \in 0 .. len' - 1 : k = len /\ k \in Nat
      BY <1>1, <1>9
    <3> QED
      BY <1>6, <2>1, <3>1
  <2>2. CASE u # t
    <3>1. status[u] = "queued"
      BY <1>12, <2>2 DEF TypeOK
    <3> QED
      BY <1>5, <1>9, <3>1 DEF RingInv
  <2> QED
    BY <2>1, <2>2
<1> QED
  BY <1>4, <1>10, <1>11, <1>12 DEF RingInv

(* The jobs. *)
LEMMA JobKept ==
  ASSUME JobInv, UNCHANGED job,
         \A w \in Workers : wpc'[w] = "run" <=> wpc[w] = "run",
         \A t \in Tasks : status'[t] = "running" <=> status[t] = "running"
  PROVE  JobInv'
BY DEF JobInv

LEMMA JobPop ==
  ASSUME TypeOK, RingInv, JobInv, NEW w \in Workers, WorkerPop(w)
  PROVE  JobInv'
<1>1. slots[head] \in Tasks /\ status[slots[head]] = "queued"
  BY HeadTask DEF WorkerPop
<1>2. wpc[w] = "top" /\ wpc' = [wpc EXCEPT ![w] = "run"]
      /\ job' = [job EXCEPT ![w] = slots[head]]
      /\ status' = [status EXCEPT ![slots[head]] = "running"]
  BY DEF WorkerPop, AtTop, SetStatus
<1>3. \A v \in Workers : job[v] # slots[head]
  BY <1>1, PoolAssumption DEF JobInv
<1> QED
  BY <1>1, <1>2, <1>3, PoolAssumption DEF JobInv, TypeOK

LEMMA JobFinish ==
  ASSUME TypeOK, JobInv, NEW w \in Workers, WorkerFinish(w)
  PROVE  JobInv'
<1>1. wpc[w] = "run" /\ wpc' = [wpc EXCEPT ![w] = "top"]
      /\ job' = [job EXCEPT ![w] = NoTask]
      /\ status' = [status EXCEPT ![job[w]] = "finished"]
  BY DEF WorkerFinish, SetStatus
<1>2. job[w] \in Tasks /\ status[job[w]] = "running" /\ NoTask \notin Tasks
  BY <1>1, PoolAssumption DEF JobInv
<1>3. \A v \in Workers : v # w => job[v] # job[w]
  BY <1>2 DEF JobInv
<1> QED
  BY <1>1, <1>2, <1>3 DEF JobInv, TypeOK

(* The arguments. *)
Submitting(c) == cpc[c] \in {"submit", "try"}

LEMMA ArgKept ==
  ASSUME ArgInv,
         \A c \in Clients : Submitting(c)' =>
            Submitting(c) /\ arg'[c] = arg[c] /\ status'[arg[c]] = status[arg[c]]
  PROVE  ArgInv'
BY DEF ArgInv, Submitting

LEMMA ArgBegin ==
  ASSUME TypeOK, ArgInv, NEW c \in Clients, NEW t \in Tasks, Begins(c, t)
  PROVE  ArgInv'
<1>1. /\ cpc'[c] \in {"submit", "try"} /\ arg'[c] = t /\ status'[t] = "calling"
      /\ \A d \in Clients \ {c} : cpc'[d] = cpc[d] /\ arg'[d] = arg[d]
      /\ \A u \in Tasks \ {t} : status'[u] = status[u]
      /\ status[t] = "new"
  BY DEF Begins, CallWithTask, Goto, SetStatus, TypeOK
<1> QED
  BY <1>1 DEF ArgInv

LEMMA ArgReturn ==
  ASSUME TypeOK, ArgInv, NEW c \in Clients, NEW s, Submitting(c), ReturnTask(c, s)
  PROVE  ArgInv'
<1>1. /\ cpc'[c] = "idle"
      /\ \A d \in Clients \ {c} : cpc'[d] = cpc[d] /\ arg'[d] = arg[d]
      /\ \A u \in Tasks \ {arg[c]} : status'[u] = status[u]
  BY DEF ReturnTask, Goto, SetStatus, TypeOK
<1> QED
  BY <1>1 DEF ArgInv, Submitting

(* The number of running workers. *)
LEMMA ActiveKept ==
  ASSUME ActiveInv, UNCHANGED active, \A w \in Workers : wpc'[w] = "run" <=> wpc[w] = "run"
  PROVE  ActiveInv'
<1>1. Running' = Running
  BY DEF Running
<1> QED
  BY <1>1 DEF ActiveInv

LEMMA ActivePop ==
  ASSUME TypeOK, ActiveInv, NEW w \in Workers, WorkerPop(w)
  PROVE  ActiveInv'
<1>1. w \notin Running /\ Running' = Running \cup {w} /\ active' = active + 1
  BY DEF Running, WorkerPop, AtTop, TypeOK
<1>2. Cardinality(Running \cup {w}) = Cardinality(Running) + 1
  BY <1>1, RunningFinite, FS_AddElement
<1> QED
  BY <1>1, <1>2 DEF ActiveInv

LEMMA ActiveFinish ==
  ASSUME TypeOK, ActiveInv, NEW w \in Workers, WorkerFinish(w)
  PROVE  ActiveInv'
<1>1. w \in Running /\ Running' = Running \ {w} /\ active' = active - 1
  BY DEF Running, WorkerFinish, TypeOK
<1>2. Cardinality(Running \ {w}) = Cardinality(Running) - 1
  BY <1>1, RunningFinite, FS_RemoveElement
<1> QED
  BY <1>1, <1>2 DEF ActiveInv

TaskInv == RingInv /\ JobInv /\ ArgInv /\ ActiveInv

LEMMA InitTasks == Init => TaskInv
<1> SUFFICES ASSUME Init PROVE TaskInv
  OBVIOUS
<1>1. 0 .. len - 1 = {} /\ Pos(len) = 0
  BY ModSmall, PoolAssumption DEF Init, Pos
<1>2. RingInv
  BY <1>1 DEF Init, RingInv
<1>3. Running = {}
  BY DEF Init, Running
<1>4. ActiveInv
  BY <1>3, FS_EmptySet DEF Init, ActiveInv
<1>5. JobInv /\ ArgInv
  BY DEF Init, JobInv, ArgInv
<1> QED
  BY <1>2, <1>4, <1>5 DEF TaskInv

LEMMA NextTasks ==
  ASSUME TypeOK, TaskInv, [Next]_vars
  PROVE  TaskInv'
<1> USE DEF TaskInv
<1>1. CASE Aside
  <2>1. RingInv'
    BY <1>1, RingKept DEF Aside, ring
  <2>2. JobInv'
    BY <1>1, JobKept DEF Aside
  <2>3. ArgInv'
    BY <1>1, ArgKept DEF Aside, Submitting
  <2>4. ActiveInv'
    BY <1>1, ActiveKept DEF Aside
  <2> QED
    BY <2>1, <2>2, <2>3, <2>4
<1>2. ASSUME NEW w \in Workers, WorkerPop(w) PROVE TaskInv'
  <2>1. slots[head] \in Tasks /\ status[slots[head]] = "queued"
    BY <1>2, HeadTask DEF WorkerPop
  <2>2. ArgInv'
    BY <1>2, <2>1, ArgKept DEF WorkerPop, SetStatus, ArgInv, Submitting, TypeOK
  <2> QED
    BY <1>2, <2>2, RingPop, JobPop, ActivePop
<1>3. ASSUME NEW w \in Workers, WorkerFinish(w) PROVE TaskInv'
  <2>1. job[w] \in Tasks /\ status[job[w]] = "running"
    BY <1>3 DEF WorkerFinish, JobInv
  <2>2. ArgInv'
    BY <1>3, <2>1, ArgKept DEF WorkerFinish, SetStatus, ArgInv, Submitting, TypeOK
  <2>3. RingInv'
    BY <1>3, <2>1, RingKept DEF WorkerFinish, SetStatus, TypeOK
  <2> QED
    BY <1>3, <2>2, <2>3, JobFinish, ActiveFinish
<1>4. ASSUME NEW c \in Clients, Refuses(c) PROVE TaskInv'
  <2>1. Submitting(c) /\ ReturnTask(c, "refused") /\ UNCHANGED <<pool, wpc, job>>
    BY <1>4 DEF Refuses, SubmitRefuse, TryRefuse, AtSubmit, Submitting
  <2>2. arg[c] \in Tasks /\ status[arg[c]] = "calling"
        /\ status' = [status EXCEPT ![arg[c]] = "refused"]
    BY <2>1 DEF ArgInv, Submitting, ReturnTask, SetStatus
  <2>3. RingInv'
    BY <2>1, <2>2, RingKept DEF pool, TypeOK
  <2>4. JobInv'
    BY <2>1, <2>2, JobKept DEF TypeOK
  <2>5. ActiveInv'
    BY <2>1, ActiveKept DEF pool
  <2> QED
    BY <2>1, <2>3, <2>4, <2>5, ArgReturn
<1>5. ASSUME NEW c \in Clients, Pushes(c) PROVE TaskInv'
  <2>1. Submitting(c) /\ arg[c] \in Tasks /\ status[arg[c]] = "calling"
        /\ status' = [status EXCEPT ![arg[c]] = "queued"]
    BY <1>5 DEF Pushes, ArgInv, Submitting, ReturnTask, SetStatus
  <2>2. RingInv'
    BY <1>5, <2>1, RingPush DEF Pushes
  <2>3. JobInv'
    BY <1>5, <2>1, JobKept DEF Pushes, TypeOK
  <2>4. ActiveInv'
    BY <1>5, ActiveKept DEF Pushes, Push
  <2>5. ArgInv'
    BY <1>5, <2>1, ArgReturn DEF Pushes
  <2> QED
    BY <2>2, <2>3, <2>4, <2>5
<1>6. ASSUME NEW c \in Clients, NEW t \in Tasks, Begins(c, t) PROVE TaskInv'
  <2>1. /\ UNCHANGED <<pool, wpc, job>> /\ status[t] = "new"
        /\ status' = [status EXCEPT ![t] = "calling"]
    BY <1>6 DEF Begins, CallWithTask, SetStatus
  <2>2. RingInv'
    BY <2>1, RingKept DEF pool, TypeOK
  <2>3. JobInv'
    BY <2>1, JobKept DEF TypeOK
  <2>4. ActiveInv'
    BY <2>1, ActiveKept DEF pool
  <2> QED
    BY <1>6, <2>2, <2>3, <2>4, ArgBegin
<1> QED
  BY <1>1, <1>2, <1>3, <1>4, <1>5, <1>6, StepKinds

-----------------------------------------------------------------------------
(* Sleepers and the condition variables.                                    *)

LEMMA InitSleep ==
  ASSUME Init
  PROVE  SleepInv /\ DrainersWoken /\ WorkersWoken /\ SubmittersWoken
BY DEF Init, SleepInv, DrainersWoken, WorkersWoken, SubmittersWoken

LEMMA NextSleep ==
  ASSUME TypeOK, SleepInv, [Next]_vars
  PROVE  SleepInv'
<1> USE DEF SleepInv, TypeOK
<1>1. CASE UNCHANGED vars
  BY <1>1 DEF vars
<1>2. CASE SpuriousWake
  BY <1>2 DEF SpuriousWake
<1>3. ASSUME NEW w \in Workers, Work(w) PROVE SleepInv'
  <2>1. CASE WorkerWait(w)
    BY <2>1 DEF WorkerWait, AtTop
  <2>2. CASE WorkerExit(w)
    BY <2>2 DEF WorkerExit, AtTop, pool, condvars
  <2>3. CASE WorkerPop(w)
    BY <2>3 DEF WorkerPop, AtTop, SignalNotFull, Signal
  <2>4. CASE WorkerFinish(w)
    BY <2>4 DEF WorkerFinish
  <2> QED
    BY <1>3, <2>1, <2>2, <2>3, <2>4 DEF Work
<1>4. ASSUME NEW c \in Clients, Call(c) PROVE SleepInv'
  BY <1>4 DEF Call, CallWithTask, CallDrain, CallShutdown, CallFree, Goto, pool, condvars
<1>5. ASSUME NEW c \in Clients, Proceed(c) PROVE SleepInv'
  <2> USE DEF Goto
  <2>1. CASE SubmitRefuse(c) \/ TryRefuse(c)
    BY <2>1 DEF SubmitRefuse, TryRefuse, AtSubmit, ReturnTask, pool, condvars
  <2>2. CASE SubmitWait(c)
    BY <2>2 DEF SubmitWait, AtSubmit
  <2>3. CASE SubmitPush(c) \/ TryPush(c)
    BY <2>3 DEF SubmitPush, TryPush, AtSubmit, ReturnTask, Push, SignalNotEmpty, Signal
  <2>4. CASE WaitDrained(c) \/ DrainReturn(c) \/ ShutdownIdle(c)
    BY <2>4 DEF WaitDrained, DrainReturn, ShutdownIdle, pool, condvars
  <2>5. CASE ShutdownBegin(c)
    BY <2>5 DEF ShutdownBegin, BroadcastNotEmpty
  <2>6. CASE JoinSkip(c) \/ JoinTest(c) \/ JoinSet(c) \/ JoinTwice(c) \/ JoinDone(c)
    BY <2>6 DEF JoinSkip, JoinTest, JoinSet, JoinTwice, JoinDone, ShutdownReturn, pool, condvars
  <2>7. CASE FreeTest(c) \/ Reclaim(c)
    BY <2>7 DEF FreeTest, Reclaim, pool, condvars
  <2> QED
    BY <1>5, <2>1, <2>2, <2>3, <2>4, <2>5, <2>6, <2>7 DEF Proceed
<1> QED
  BY <1>1, <1>2, <1>3, <1>4, <1>5 DEF Next

LEMMA NextDrainers ==
  ASSUME TypeOK, ActiveInv, DrainersWoken, [Next]_vars
  PROVE  DrainersWoken'
<1> USE DEF DrainersWoken, Busy
<1>1. CASE UNCHANGED vars
  BY <1>1 DEF vars
<1>2. CASE SpuriousWake
  BY <1>2 DEF SpuriousWake, ring
<1>3. ASSUME NEW w \in Workers, Work(w) PROVE DrainersWoken'
  <2>1. CASE WorkerWait(w) \/ WorkerExit(w)
    BY <2>1 DEF WorkerWait, WorkerExit, pool, ring, condvars
  <2>2. CASE WorkerPop(w)
    BY <2>2 DEF WorkerPop, TypeOK
  <2>3. CASE WorkerFinish(w)
    <3>1. active' \in Nat /\ len' = len /\ len \in Nat
      BY <2>3, RunningCounted DEF WorkerFinish, TypeOK, ring
    <3>2. CASE len = 0 /\ active' = 0
      BY <2>3, <3>2 DEF WorkerFinish, BroadcastIfIdle
    <3>3. CASE ~(len = 0 /\ active' = 0)
      BY <3>1, <3>3
    <3> QED
      BY <3>2, <3>3
  <2> QED
    BY <1>3, <2>1, <2>2, <2>3 DEF Work
<1>4. ASSUME NEW c \in Clients, Call(c) PROVE DrainersWoken'
  BY <1>4 DEF Call, CallWithTask, CallDrain, CallShutdown, CallFree, pool, ring, condvars
<1>5. ASSUME NEW c \in Clients, Proceed(c) PROVE DrainersWoken'
  <2>1. CASE SubmitRefuse(c) \/ TryRefuse(c) \/ SubmitWait(c)
    BY <2>1 DEF SubmitRefuse, TryRefuse, SubmitWait, pool, ring, condvars
  <2>2. CASE SubmitPush(c) \/ TryPush(c)
    BY <2>2 DEF SubmitPush, TryPush, Push, TypeOK
  <2>3. CASE WaitDrained(c) \/ DrainReturn(c) \/ ShutdownIdle(c)
    BY <2>3 DEF WaitDrained, DrainReturn, ShutdownIdle, pool, ring, condvars
  <2>4. CASE ShutdownBegin(c)
    BY <2>4 DEF ShutdownBegin, ring
  <2>5. CASE JoinSkip(c) \/ JoinTest(c) \/ JoinSet(c) \/ JoinTwice(c) \/ JoinDone(c)
    BY <2>5 DEF JoinSkip, JoinTest, JoinSet, JoinTwice, JoinDone, pool, ring, condvars
  <2>6. CASE FreeTest(c) \/ Reclaim(c)
    BY <2>6 DEF FreeTest, Reclaim, pool, ring, condvars
  <2> QED
    BY <1>5, <2>1, <2>2, <2>3, <2>4, <2>5, <2>6 DEF Proceed
<1> QED
  BY <1>1, <1>2, <1>3, <1>4, <1>5 DEF Next

(* The workers that are awake and on their way to the ring. *)
AwakeWorkers == {w \in Workers : Awake(w)}

LEMMA AwakeFinite == IsFiniteSet(AwakeWorkers) /\ Cardinality(AwakeWorkers) \in Nat
BY PoolAssumption, FS_Subset, FS_CardinalityType DEF AwakeWorkers

LEMMA MoreAwake ==
  ASSUME TypeOK, WorkersWoken, len' = len, cv_not_empty' \subseteq cv_not_empty,
         \A w \in Workers : wpc[w] = "top" => wpc'[w] = "top"
  PROVE  WorkersWoken'
<1>1. AwakeWorkers \subseteq AwakeWorkers'
  BY DEF AwakeWorkers, Awake
<1>2. IsFiniteSet(AwakeWorkers') /\ Cardinality(AwakeWorkers') \in Nat
  BY PoolAssumption, FS_Subset, FS_CardinalityType DEF AwakeWorkers
<1>3. Cardinality(AwakeWorkers) <= Cardinality(AwakeWorkers')
  BY <1>1, <1>2, FS_Subset
<1>4. len \in Nat
  BY DEF TypeOK
<1> QED
  BY <1>2, <1>3, <1>4, AwakeFinite DEF WorkersWoken, AwakeWorkers

LEMMA PushAwake ==
  ASSUME TypeOK, SleepInv, WorkersWoken, NEW t, Push(t), UNCHANGED wpc
  PROVE  WorkersWoken'
<1>1. CASE cv_not_empty' = {}
  BY <1>1 DEF WorkersWoken
<1>2. ASSUME NEW w \in cv_not_empty, cv_not_empty' = cv_not_empty \ {w}
      PROVE  WorkersWoken'
  <2>1. w \notin AwakeWorkers /\ AwakeWorkers' = AwakeWorkers \cup {w}
    BY <1>2 DEF AwakeWorkers, Awake, SleepInv, TypeOK
  <2>2. Cardinality(AwakeWorkers') = Cardinality(AwakeWorkers) + 1
    BY <2>1, AwakeFinite, FS_AddElement
  <2>3. Cardinality(AwakeWorkers) >= len /\ len' = len + 1 /\ len \in Nat
    BY <1>2 DEF WorkersWoken, AwakeWorkers, Push, TypeOK
  <2>4. Cardinality(AwakeWorkers') >= len'
    BY <2>2, <2>3, AwakeFinite
  <2> QED
    BY <2>4 DEF WorkersWoken, AwakeWorkers
<1> QED
  BY <1>1, <1>2 DEF Push, SignalNotEmpty, Signal

LEMMA PopAwake ==
  ASSUME TypeOK, WorkersWoken, NEW w \in Workers, WorkerPop(w)
  PROVE  WorkersWoken'
<1>1. CASE cv_not_empty = {}
  BY <1>1 DEF WorkersWoken, WorkerPop
<1>2. CASE cv_not_empty # {}
  <2>1. w \in AwakeWorkers /\ AwakeWorkers' = AwakeWorkers \ {w}
    BY DEF AwakeWorkers, Awake, WorkerPop, AtTop, TypeOK
  <2>2. Cardinality(AwakeWorkers') = Cardinality(AwakeWorkers) - 1
    BY <2>1, AwakeFinite, FS_RemoveElement
  <2>3. Cardinality(AwakeWorkers) >= len /\ len' = len - 1 /\ len \in Nat
    BY <1>2 DEF WorkersWoken, AwakeWorkers, WorkerPop, TypeOK
  <2>4. Cardinality(AwakeWorkers') >= len'
    BY <2>2, <2>3, AwakeFinite
  <2> QED
    BY <2>4 DEF WorkersWoken, AwakeWorkers
<1> QED
  BY <1>1, <1>2

LEMMA NextWorkers ==
  ASSUME TypeOK, SleepInv, WorkersWoken, [Next]_vars
  PROVE  WorkersWoken'
<1>1. CASE UNCHANGED vars
  BY <1>1, MoreAwake DEF vars
<1>2. CASE SpuriousWake
  BY <1>2, MoreAwake DEF SpuriousWake, ring
<1>3. ASSUME NEW w \in Workers, Work(w) PROVE WorkersWoken'
  <2>1. CASE WorkerWait(w) \/ WorkerExit(w)
    <3>1. len' = 0
      BY <2>1 DEF WorkerWait, WorkerExit, MayExit, pool, ring
    <3>2. Cardinality(AwakeWorkers') \in Nat
      BY PoolAssumption, FS_Subset, FS_CardinalityType DEF AwakeWorkers
    <3>3. Cardinality(AwakeWorkers') >= len'
      BY <3>1, <3>2
    <3> QED
      BY <3>3 DEF WorkersWoken, AwakeWorkers
  <2>2. CASE WorkerFinish(w)
    BY <2>2, MoreAwake DEF WorkerFinish, ring, TypeOK
  <2> QED
    BY <1>3, <2>1, <2>2, PopAwake DEF Work
<1>4. ASSUME NEW c \in Clients, Call(c) PROVE WorkersWoken'
  BY <1>4, MoreAwake
  DEF Call, CallWithTask, CallDrain, CallShutdown, CallFree, pool, ring, condvars
<1>5. ASSUME NEW c \in Clients, Proceed(c) PROVE WorkersWoken'
  <2>1. CASE SubmitRefuse(c) \/ TryRefuse(c) \/ SubmitWait(c)
    BY <2>1, MoreAwake DEF SubmitRefuse, TryRefuse, SubmitWait, pool, ring, condvars
  <2>2. CASE SubmitPush(c) \/ TryPush(c)
    BY <2>2, PushAwake DEF SubmitPush, TryPush
  <2>3. CASE WaitDrained(c) \/ DrainReturn(c) \/ ShutdownIdle(c)
    BY <2>3, MoreAwake DEF WaitDrained, DrainReturn, ShutdownIdle, pool, ring, condvars
  <2>4. CASE ShutdownBegin(c)
    BY <2>4 DEF ShutdownBegin, BroadcastNotEmpty, WorkersWoken
  <2>5. CASE JoinSkip(c) \/ JoinTest(c) \/ JoinSet(c) \/ JoinTwice(c) \/ JoinDone(c)
    BY <2>5, MoreAwake DEF JoinSkip, JoinTest, JoinSet, JoinTwice, JoinDone, pool, ring, condvars
  <2>6. CASE FreeTest(c) \/ Reclaim(c)
    BY <2>6, MoreAwake DEF FreeTest, Reclaim, pool, ring, condvars
  <2> QED
    BY <1>5, <2>1, <2>2, <2>3, <2>4, <2>5, <2>6 DEF Proceed
<1> QED
  BY <1>1, <1>2, <1>3, <1>4, <1>5 DEF Next

(* The submitters that are awake and on their way to a free slot. *)
AwakeSubmitters == {c \in Clients : AtSubmit(c)}

LEMMA SubmittersFinite ==
  IsFiniteSet(AwakeSubmitters) /\ Cardinality(AwakeSubmitters) \in Nat
BY PoolAssumption, FS_Subset, FS_CardinalityType DEF AwakeSubmitters

LEMMA MoreSubmitters ==
  ASSUME TypeOK, SubmittersWoken, len' = len, shutting_down \in {FALSE, shutting_down'},
         cv_not_full' \subseteq cv_not_full,
         \A c \in Clients : cpc[c] = "submit" => cpc'[c] = "submit"
  PROVE  SubmittersWoken'
<1>1. AwakeSubmitters \subseteq AwakeSubmitters'
  BY DEF AwakeSubmitters, AtSubmit
<1>2. IsFiniteSet(AwakeSubmitters') /\ Cardinality(AwakeSubmitters') \in Nat
  BY PoolAssumption, FS_Subset, FS_CardinalityType DEF AwakeSubmitters
<1>3. Cardinality(AwakeSubmitters) <= Cardinality(AwakeSubmitters')
  BY <1>1, <1>2, FS_Subset
<1>4. len \in Nat /\ Cap \in Nat /\ shutting_down \in BOOLEAN
  BY PoolAssumption DEF TypeOK
<1>5. cv_not_full' # {} /\ ~shutting_down' => Cardinality(AwakeSubmitters) >= Cap - len
  BY <1>4 DEF SubmittersWoken, AwakeSubmitters
<1>6. cv_not_full' # {} /\ ~shutting_down' => Cardinality(AwakeSubmitters') >= Cap - len'
  BY <1>2, <1>3, <1>4, <1>5, SubmittersFinite
<1> QED
  BY <1>6 DEF SubmittersWoken, AwakeSubmitters

LEMMA PopSubmitters ==
  ASSUME TypeOK, SleepInv, SubmittersWoken, NEW w \in Workers, WorkerPop(w)
  PROVE  SubmittersWoken'
<1>1. CASE cv_not_full' = {} \/ shutting_down
  BY <1>1 DEF SubmittersWoken, WorkerPop
<1>2. ASSUME NEW c \in cv_not_full, cv_not_full' = cv_not_full \ {c}, ~shutting_down
      PROVE  SubmittersWoken'
  <2>1. c \notin AwakeSubmitters /\ AwakeSubmitters' = AwakeSubmitters \cup {c}
    BY <1>2 DEF AwakeSubmitters, AtSubmit, SleepInv, TypeOK, WorkerPop
  <2>2. Cardinality(AwakeSubmitters') = Cardinality(AwakeSubmitters) + 1
    BY <2>1, SubmittersFinite, FS_AddElement
  <2>3. Cardinality(AwakeSubmitters) >= Cap - len /\ len' = len - 1
    BY <1>2 DEF SubmittersWoken, AwakeSubmitters, WorkerPop
  <2>4. len \in Nat /\ Cap \in Nat
    BY PoolAssumption DEF TypeOK
  <2>5. Cardinality(AwakeSubmitters') >= Cap - len'
    BY <2>2, <2>3, <2>4, SubmittersFinite
  <2> QED
    BY <2>5 DEF SubmittersWoken, AwakeSubmitters
<1> QED
  BY <1>1, <1>2 DEF WorkerPop, SignalNotFull, Signal

LEMMA PushSubmitters ==
  ASSUME TypeOK, SubmittersWoken, NEW c \in Clients, Pushes(c)
  PROVE  SubmittersWoken'
<1>1. /\ cv_not_full' = cv_not_full /\ shutting_down' = shutting_down
      /\ len' = len + 1 /\ len \in Nat /\ Cap \in Nat
      /\ cpc' = [cpc EXCEPT ![c] = "idle"]
  BY PoolAssumption DEF Pushes, Push, ReturnTask, Goto, TypeOK
<1>2. CASE cv_not_full = {} \/ shutting_down
  BY <1>1, <1>2 DEF SubmittersWoken
<1>3. CASE cv_not_full # {} /\ ~shutting_down
  <2>1. Cardinality(AwakeSubmitters) >= Cap - len
    BY <1>3 DEF SubmittersWoken, AwakeSubmitters
  <2>2. AwakeSubmitters' = AwakeSubmitters \ {c}
    BY <1>1 DEF AwakeSubmitters, AtSubmit, TypeOK
  <2>3. Cardinality(AwakeSubmitters') >= Cardinality(AwakeSubmitters) - 1
    BY <2>2, SubmittersFinite, FS_RemoveElement
  <2>4. Cardinality(AwakeSubmitters') \in Nat
    BY PoolAssumption, FS_Subset, FS_CardinalityType DEF AwakeSubmitters
  <2>5. Cardinality(AwakeSubmitters') >= Cap - len'
    BY <1>1, <2>1, <2>3, <2>4, SubmittersFinite
  <2> QED
    BY <2>5 DEF SubmittersWoken, AwakeSubmitters
<1> QED
  BY <1>2, <1>3

LEMMA NextSubmitters ==
  ASSUME TypeOK, SleepInv, SubmittersWoken, [Next]_vars
  PROVE  SubmittersWoken'
<1>1. CASE UNCHANGED vars
  BY <1>1, MoreSubmitters DEF vars
<1>2. CASE SpuriousWake
  BY <1>2, MoreSubmitters DEF SpuriousWake, ring
<1>3. ASSUME NEW w \in Workers, Work(w) PROVE SubmittersWoken'
  <2>1. CASE WorkerWait(w) \/ WorkerExit(w) \/ WorkerFinish(w)
    BY <2>1, MoreSubmitters
    DEF WorkerWait, WorkerExit, WorkerFinish, pool, ring, condvars
  <2> QED
    BY <1>3, <2>1, PopSubmitters DEF Work
<1>4. ASSUME NEW c \in Clients, Call(c) PROVE SubmittersWoken'
  <2>1. /\ UNCHANGED pool /\ cpc[c] = "idle"
        /\ \E there \in ClientPC : cpc' = [cpc EXCEPT ![c] = there]
    BY <1>4 DEF Call, CallWithTask, CallDrain, CallShutdown, CallFree, Goto, ClientPC
  <2> QED
    BY <2>1, MoreSubmitters DEF pool, ring, condvars, TypeOK
<1>5. ASSUME NEW c \in Clients, Proceed(c) PROVE SubmittersWoken'
  <2> USE DEF Goto, TypeOK
  <2>1. CASE SubmitRefuse(c)
    BY <2>1 DEF SubmitRefuse, pool, SubmittersWoken
  <2>2. CASE SubmitWait(c)
    <3>1. len' = Cap /\ Cap \in Nat
      BY <2>2, PoolAssumption DEF SubmitWait, ring
    <3>2. Cardinality(AwakeSubmitters') \in Nat
      BY PoolAssumption, FS_Subset, FS_CardinalityType DEF AwakeSubmitters
    <3>3. Cardinality(AwakeSubmitters') >= Cap - len'
      BY <3>1, <3>2
    <3> QED
      BY <3>3 DEF SubmittersWoken, AwakeSubmitters
  <2>3. CASE SubmitPush(c) \/ TryPush(c)
    <3>1. Pushes(c)
      BY <2>3 DEF SubmitPush, TryPush, AtSubmit, Pushes
    <3> QED
      BY <3>1, PushSubmitters
  <2>4. CASE TryRefuse(c)
    BY <2>4, MoreSubmitters DEF TryRefuse, ReturnTask, pool, ring, condvars
  <2>5. CASE WaitDrained(c)
    BY <2>5, MoreSubmitters DEF WaitDrained, ring
  <2>6. CASE DrainReturn(c) \/ ShutdownIdle(c)
    BY <2>6, MoreSubmitters DEF DrainReturn, ShutdownIdle, pool, ring, condvars
  <2>7. CASE ShutdownBegin(c)
    BY <2>7 DEF ShutdownBegin, SubmittersWoken
  <2>8. CASE JoinSkip(c) \/ JoinTwice(c) \/ JoinDone(c)
    BY <2>8, MoreSubmitters DEF JoinSkip, JoinTwice, JoinDone, ShutdownReturn, pool, ring, condvars
  <2>9. CASE JoinTest(c) \/ JoinSet(c)
    BY <2>9, MoreSubmitters DEF JoinTest, JoinSet, pool, ring, condvars
  <2>10. CASE FreeTest(c) \/ Reclaim(c)
    BY <2>10, MoreSubmitters DEF FreeTest, Reclaim, pool, ring, condvars
  <2> QED
    BY <1>5, <2>1, <2>2, <2>3, <2>4, <2>5, <2>6, <2>7, <2>8, <2>9, <2>10 DEF Proceed
<1> QED
  BY <1>1, <1>2, <1>3, <1>4, <1>5 DEF Next

-----------------------------------------------------------------------------
(* Shutdown and free.                                                       *)

(* When every worker has left worker_main, nothing waits and nothing runs. *)
LEMMA AllExitedQuiet ==
  ASSUME ActiveInv, StopInv, AllExited
  PROVE  len = 0 /\ active = 0
<1>1. Running = {}
  BY DEF Running, AllExited
<1>2. active = 0
  BY <1>1, FS_EmptySet DEF ActiveInv
<1>3. len = 0
  BY PoolAssumption DEF AllExited, StopInv
<1> QED
  BY <1>2, <1>3

(* The client that frees a pool finds it shut down only if its workers are  *)
(* gone: there is nobody else who could still be waiting for them.          *)
LEMMA LoneClient ==
  ASSUME FreeInv, NEW c \in Clients, cpc[c] = "free"
  PROVE  (shutting_down => AllExited) /\ (joined => AllExited)
BY DEF FreeInv, Stopping

LEMMA NextStop ==
  ASSUME TypeOK, TaskInv, StopInv, FreeInv, [Next]_vars
  PROVE  StopInv'
<1> USE DEF StopInv, Stopping, TypeOK
<1>1. CASE UNCHANGED vars
  BY <1>1 DEF vars
<1>2. CASE SpuriousWake
  BY <1>2 DEF SpuriousWake, ring
<1>3. ASSUME NEW w \in Workers, Work(w) PROVE StopInv'
  <2>1. CASE WorkerWait(w)
    BY <2>1 DEF WorkerWait, ring
  <2>2. CASE WorkerExit(w)
    BY <2>2 DEF WorkerExit, MayExit, pool, ring
  <2>3. CASE WorkerPop(w)
    BY <2>3 DEF WorkerPop
  <2>4. CASE WorkerFinish(w)
    <3>1. active > 0
      BY <2>4, RunningCounted DEF WorkerFinish, TaskInv
    <3> QED
      BY <2>4, <3>1 DEF WorkerFinish, ring
  <2> QED
    BY <1>3, <2>1, <2>2, <2>3, <2>4 DEF Work
<1>4. ASSUME NEW c \in Clients, Call(c) PROVE StopInv'
  BY <1>4
  DEF Call, CallWithTask, CallDrain, CallShutdown, CallFree, Goto, pool, ring
<1>5. ASSUME NEW c \in Clients, Proceed(c) PROVE StopInv'
  <2> USE DEF Goto
  <2>1. CASE SubmitRefuse(c) \/ TryRefuse(c)
    BY <2>1 DEF SubmitRefuse, TryRefuse, ReturnTask, pool, ring
  <2>2. CASE SubmitWait(c) \/ WaitDrained(c)
    BY <2>2 DEF SubmitWait, WaitDrained, ring
  <2>3. CASE SubmitPush(c) \/ TryPush(c)
    BY <2>3 DEF SubmitPush, TryPush, ReturnTask, MayPush, Push
  <2>4. CASE DrainReturn(c) \/ ShutdownIdle(c)
    BY <2>4 DEF DrainReturn, ShutdownIdle, Busy, pool, ring
  <2>5. CASE ShutdownBegin(c)
    BY <2>5 DEF ShutdownBegin, Busy, ring
  <2>6. CASE JoinSkip(c) \/ JoinTwice(c) \/ JoinDone(c)
    BY <2>6 DEF JoinSkip, JoinTwice, JoinDone, ShutdownReturn, pool, ring
  <2>7. CASE JoinTest(c) \/ JoinSet(c)
    BY <2>7 DEF JoinTest, JoinSet, pool, ring
  <2>8. CASE FreeTest(c)
    <3>1. shutting_down => AllExited
      BY <2>8, LoneClient DEF FreeTest, FreeInv
    <3>2. AllExited => len = 0 /\ active = 0
      BY AllExitedQuiet DEF TaskInv
    <3> QED
      BY <2>8, <3>1, <3>2 DEF FreeTest, pool, ring
  <2>9. CASE Reclaim(c)
    BY <2>9 DEF Reclaim, pool, ring
  <2> QED
    BY <1>5, <2>1, <2>2, <2>3, <2>4, <2>5, <2>6, <2>7, <2>8, <2>9 DEF Proceed
<1> QED
  BY <1>1, <1>2, <1>3, <1>4, <1>5 DEF Next

LEMMA NextFree ==
  ASSUME TypeOK, StopInv, FreeInv, [Next]_vars
  PROVE  FreeInv'
<1> USE DEF FreeInv, FreedUnused, AllExited, Stopping, TypeOK
<1>1. CASE UNCHANGED vars
  BY <1>1 DEF vars
<1>2. CASE SpuriousWake
  BY <1>2 DEF SpuriousWake
<1>3. ASSUME NEW w \in Workers, Work(w) PROVE FreeInv'
  <2>1. CASE WorkerWait(w)
    BY <2>1 DEF WorkerWait
  <2>2. CASE WorkerExit(w)
    BY <2>2 DEF WorkerExit, pool
  <2>3. CASE WorkerPop(w)
    BY <2>3 DEF WorkerPop, AtTop
  <2>4. CASE WorkerFinish(w)
    BY <2>4 DEF WorkerFinish
  <2> QED
    BY <1>3, <2>1, <2>2, <2>3, <2>4 DEF Work
<1>4. ASSUME NEW c \in Clients, Call(c) PROVE FreeInv'
  <2> USE DEF Goto, pool
  <2>1. ASSUME NEW t \in Tasks, Begins(c, t) PROVE FreeInv'
    BY <2>1 DEF Begins, CallWithTask
  <2>2. CASE CallDrain(c) \/ CallShutdown(c)
    BY <2>2 DEF CallDrain, CallShutdown
  <2>3. CASE CallFree(c)
    BY <2>3 DEF CallFree
  <2> QED
    BY <1>4, <2>1, <2>2, <2>3 DEF Call, Begins
<1>5. ASSUME NEW c \in Clients, Proceed(c) PROVE FreeInv'
  <2> USE DEF Goto
  <2>1. CASE SubmitRefuse(c) \/ TryRefuse(c)
    BY <2>1 DEF SubmitRefuse, TryRefuse, AtSubmit, ReturnTask, pool
  <2>2. CASE SubmitWait(c) \/ WaitDrained(c)
    BY <2>2 DEF SubmitWait, WaitDrained
  <2>3. CASE SubmitPush(c) \/ TryPush(c)
    BY <2>3 DEF SubmitPush, TryPush, AtSubmit, ReturnTask, MayPush, Push
  <2>4. CASE DrainReturn(c) \/ ShutdownIdle(c)
    BY <2>4 DEF DrainReturn, ShutdownIdle, pool
  <2>5. CASE ShutdownBegin(c)
    BY <2>5 DEF ShutdownBegin
  <2>6. CASE JoinSkip(c)
    BY <2>6 DEF JoinSkip, ShutdownReturn, pool
  <2>7. CASE JoinTwice(c) \/ JoinDone(c)
    BY <2>7 DEF JoinTwice, JoinDone, ShutdownReturn, pool
  <2>8. CASE JoinTest(c)
    BY <2>8 DEF JoinTest, pool
  <2>9. CASE JoinSet(c)
    BY <2>9 DEF JoinSet
  <2>10. CASE FreeTest(c)
    BY <2>10, LoneClient DEF FreeTest, pool
  <2>11. CASE Reclaim(c)
    BY <2>11 DEF Reclaim, pool
  <2> QED
    BY <1>5, <2>1, <2>2, <2>3, <2>4, <2>5, <2>6, <2>7, <2>8, <2>9, <2>10, <2>11 DEF Proceed
<1> QED
  BY <1>1, <1>2, <1>3, <1>4, <1>5 DEF Next

-----------------------------------------------------------------------------
(* Theorems of the specification.                                           *)

LEMMA InitIInv == Init => IInv
<1> SUFFICES ASSUME Init PROVE IInv
  OBVIOUS
<1>1. TypeOK /\ TaskInv
  BY InitType, InitTasks
<1>2. SleepInv /\ DrainersWoken /\ WorkersWoken /\ SubmittersWoken
  BY InitSleep
<1>3. StopInv /\ FreeInv
  BY DEF Init, StopInv, FreeInv, FreedUnused, Stopping
<1> QED
  BY <1>1, <1>2, <1>3 DEF IInv, TaskInv

LEMMA NextIInv == IInv /\ [Next]_vars => IInv'
<1> SUFFICES ASSUME IInv, [Next]_vars PROVE IInv'
  OBVIOUS
<1>1. TypeOK' /\ TaskInv'
  BY NextType, NextTasks DEF IInv, TaskInv
<1>2. SleepInv' /\ DrainersWoken' /\ WorkersWoken' /\ SubmittersWoken'
  BY NextSleep, NextDrainers, NextWorkers, NextSubmitters DEF IInv
<1>3. StopInv' /\ FreeInv'
  BY NextStop, NextFree DEF IInv, TaskInv
<1> QED
  BY <1>1, <1>2, <1>3 DEF IInv, TaskInv

LEMMA Invariance == Spec => []IInv
BY InitIInv, NextIInv, PTL DEF Spec

(* The variables keep their types; in particular head and tail stay inside  *)
(* the ring, its length never exceeds p->cap, and the counter p->active     *)
(* never falls below zero (lines 49-52, 58, 194-196).                       *)
THEOREM TypeCorrect == Spec => []TypeOK
<1>1. IInv => TypeOK
  BY DEF IInv
<1> QED
  BY <1>1, Invariance, PTL

(* No producer or worker loses, overwrites or repeats a task, for any       *)
(* number of them and any capacity of the ring.                             *)
THEOREM TasksKept == Spec => []NoTaskLost
<1>1. ASSUME IInv, NEW t \in Tasks
      PROVE  Cardinality(InRing(t)) = IF status[t] = "queued" THEN 1 ELSE 0
  <2>1. CASE status[t] = "queued"
    <3>1. PICK i \in 0 .. len - 1 : slots[Pos(i)] = t
      BY <1>1, <2>1 DEF IInv, RingInv
    <3>2. InRing(t) = {i}
      BY <1>1, <3>1 DEF InRing, IInv, RingInv
    <3> QED
      BY <2>1, <3>2, FS_Singleton
  <2>2. CASE status[t] # "queued"
    <3>1. InRing(t) = {}
      BY <1>1, <2>2 DEF InRing, IInv, RingInv
    <3> QED
      BY <2>2, <3>1, FS_EmptySet
  <2> QED
    BY <2>1, <2>2
<1>2. ASSUME IInv, NEW t \in Tasks
      PROVE  Cardinality(HeldBy(t)) = IF status[t] = "running" THEN 1 ELSE 0
  <2>1. CASE status[t] = "running"
    <3>1. PICK w \in Workers : job[w] = t
      BY <1>2, <2>1 DEF IInv, JobInv
    <3>2. HeldBy(t) = {w}
      BY <1>2, <3>1, PoolAssumption DEF HeldBy, IInv, JobInv
    <3> QED
      BY <2>1, <3>2, FS_Singleton
  <2>2. CASE status[t] # "running"
    <3>1. HeldBy(t) = {}
      BY <1>2, <2>2, PoolAssumption DEF HeldBy, IInv, JobInv
    <3> QED
      BY <2>2, <3>1, FS_EmptySet
  <2> QED
    BY <2>1, <2>2
<1>3. IInv => NoTaskLost
  BY <1>1, <1>2 DEF NoTaskLost
<1> QED
  BY <1>3, Invariance, PTL

(* The two counters that drain and shutdown look at tell the truth. *)
LEMMA IdleMeansSettled == IInv /\ len = 0 /\ active = 0 => Unsettled = {}
<1> SUFFICES ASSUME IInv, len = 0, active = 0 PROVE Unsettled = {}
  OBVIOUS
<1>1. Running = {}
  BY RunningFinite, FS_EmptySet DEF IInv, ActiveInv
<1>2. \A t \in Tasks : status[t] # "running"
  BY <1>1, PoolAssumption DEF IInv, JobInv, Running
<1>3. \A t \in Tasks : status[t] # "queued"
  BY DEF IInv, RingInv
<1> QED
  BY <1>2, <1>3 DEF Unsettled

(* A shutdown that has returned leaves a pool in which nothing waits or     *)
(* runs, now and ever after.                                                *)
THEOREM StopsForGood == Spec => []StoppedForGood
<1>1. IInv => StoppedForGood
  BY IdleMeansSettled DEF IInv, StopInv, StoppedForGood
<1> QED
  BY <1>1, Invariance, PTL

(* drain, and the wait inside shutdown, end only in a quiet pool. *)
THEOREM QuietReturns == Spec => QuietReturn
<1> DEFINE Returns(c) == \/ cpc[c] = "drain" /\ cpc'[c] = "idle"
                         \/ cpc[c] \in {"stop", "stopwait"} /\ cpc'[c] = "join"
<1>1. ASSUME IInv, [Next]_vars, NEW c \in Clients, Returns(c)
      PROVE  Unsettled' = {}
  <2>1. len' = 0 /\ active' = 0
    <3> USE DEF Goto, IInv, TypeOK
    <3>1. ASSUME NEW d \in Clients, Proceed(d) PROVE len' = 0 /\ active' = 0
      <4>1. CASE DrainReturn(d) \/ ShutdownIdle(d)
        BY <1>1, <4>1 DEF DrainReturn, ShutdownIdle, Busy, pool, ring
      <4>2. CASE ShutdownBegin(d)
        BY <1>1, <4>2 DEF ShutdownBegin, Busy, ring
      <4>3. CASE SubmitRefuse(d) \/ SubmitWait(d) \/ SubmitPush(d)
        BY <1>1, <4>3
        DEF SubmitRefuse, SubmitWait, SubmitPush, AtSubmit, ReturnTask
      <4>4. CASE TryRefuse(d) \/ TryPush(d) \/ WaitDrained(d)
        BY <1>1, <4>4 DEF TryRefuse, TryPush, WaitDrained, ReturnTask
      <4>5. CASE JoinSkip(d) \/ JoinTest(d) \/ JoinSet(d) \/ JoinTwice(d) \/ JoinDone(d)
        BY <1>1, <4>5 DEF JoinSkip, JoinTest, JoinSet, JoinTwice, JoinDone, ShutdownReturn
      <4>6. CASE FreeTest(d) \/ Reclaim(d)
        BY <1>1, <4>6 DEF FreeTest, Reclaim
      <4> QED
        BY <3>1, <4>1, <4>2, <4>3, <4>4, <4>5, <4>6 DEF Proceed
    <3>2. ASSUME NEW d \in Clients, Call(d) PROVE FALSE
      BY <1>1, <3>2 DEF Call, CallWithTask, CallDrain, CallShutdown, CallFree
    <3>3. ASSUME UNCHANGED cpc PROVE FALSE
      BY <1>1, <3>3
    <3>4. CASE UNCHANGED vars \/ SpuriousWake \/ \E w \in Workers : Work(w)
      BY <3>3, <3>4
      DEF vars, SpuriousWake, Work, WorkerWait, WorkerExit, WorkerPop, WorkerFinish
    <3> QED
      BY <1>1, <3>1, <3>2, <3>4 DEF Next
  <2>2. IInv'
    BY <1>1, NextIInv
  <2>3. (IInv /\ len = 0 /\ active = 0 => Unsettled = {})'
    BY IdleMeansSettled, PTL
  <2> QED
    BY <2>1, <2>2, <2>3
<1>2. IInv /\ [Next]_vars => [\A c \in Clients : Returns(c) => Unsettled' = {}]_vars
  BY <1>1
<1> QED
  BY <1>2, Invariance, PTL DEF Spec, QuietReturn

(* free touches nothing that a worker or another client still uses. *)
THEOREM FreesUnused == Spec => []FreedUnused
<1>1. IInv => FreedUnused
  BY DEF IInv, FreeInv
<1> QED
  BY <1>1, Invariance, PTL

(* No wake-up is lost: a thread sleeps on a condition variable only while   *)
(* there is nothing for it to do, or enough others are awake to do it.      *)
THEOREM NoLostWakeup == Spec => []NoWakeUpLost
<1>1. IInv => NoWakeUpLost
  BY DEF IInv, NoWakeUpLost
<1> QED
  BY <1>1, Invariance, PTL

-----------------------------------------------------------------------------
(* ThreadPool implements the safety part of TaskPool: each of its steps,     *)
(* seen through the mapping of TP, is a step of TaskPool or leaves it        *)
(* unchanged.                                                               *)

Queue == [i \in 1 .. len |-> slots[Pos(i - 1)]]
Started == With("running")

(* A step that moves no task, as TaskPool sees it. *)
Still == UNCHANGED <<Queue, With("running"), With("finished"), With("refused")>>

-----------------------------------------------------------------------------
(* The ring as a sequence.                                                  *)

LEMMA QueueOfTasks ==
  TypeOK /\ RingInv => Queue \in Seq(Tasks) /\ Len(Queue) = len /\ len \in Nat
<1> SUFFICES ASSUME TypeOK, RingInv
             PROVE  Queue \in Seq(Tasks) /\ Len(Queue) = len /\ len \in Nat
  OBVIOUS
<1>1. len \in Nat
  BY PoolAssumption DEF TypeOK
<1>2. ASSUME NEW i \in 1 .. len PROVE slots[Pos(i - 1)] \in Tasks
  <2>1. i - 1 \in 0 .. len - 1
    BY <1>1
  <2> QED
    BY <2>1 DEF RingInv
<1>3. Queue \in [1 .. len -> Tasks]
  BY <1>2 DEF Queue
<1> QED
  BY <1>1, <1>3, SeqDef, LenProperties

(* Two queues are equal if they are as long and agree everywhere. *)
LEMMA QueueKept ==
  ASSUME UNCHANGED ring
  PROVE  UNCHANGED Queue
BY DEF Queue, ring, Pos

LEMMA QueuePop ==
  ASSUME TypeOK, RingInv, RingInv', TypeOK', NEW w \in Workers, WorkerPop(w)
  PROVE  /\ Queue # <<>> /\ Head(Queue) = slots[head]
         /\ Queue' = Tail(Queue)
<1>1. /\ len \in Nat /\ len > 0 /\ len' = len - 1 /\ UNCHANGED slots
      /\ Queue \in Seq(Tasks) /\ Len(Queue) = len
      /\ Queue' \in Seq(Tasks) /\ Len(Queue') = len'
  <2>1. len \in Nat /\ len > 0 /\ len' = len - 1 /\ UNCHANGED slots
    BY PoolAssumption DEF WorkerPop, TypeOK
  <2>2. Queue \in Seq(Tasks) /\ Len(Queue) = len
    BY QueueOfTasks
  <2>3. (Queue \in Seq(Tasks) /\ Len(Queue) = len)'
    BY QueueOfTasks, PTL
  <2> QED
    BY <2>1, <2>2, <2>3
<1>2. Head(Queue) = slots[head]
  <2>1. Pos(0) = head /\ 1 \in 1 .. len /\ 1 - 1 = 0
    BY <1>1, HeadTask
  <2>2. Queue[1] = slots[Pos(0)]
    BY <2>1 DEF Queue
  <2> QED
    BY <1>1, <2>1, <2>2, HeadTailProperties
<1>3. ASSUME NEW i \in 1 .. len'
      PROVE  Queue'[i] = Tail(Queue)[i]
  <2>1. i - 1 \in 0 .. len - 1 /\ (i - 1) + 1 = i /\ i + 1 \in 1 .. len /\ (i + 1) - 1 = i
    BY <1>1
  <2>2. Pos(i - 1)' = Pos(i)
    BY <2>1, PopShifts
  <2>3. Queue'[i] = slots[Pos(i)]
    BY <1>1, <2>2 DEF Queue
  <2>4. Queue[i + 1] = slots[Pos(i)]
    BY <2>1 DEF Queue
  <2>5. Tail(Queue)[i] = Queue[i + 1]
    BY <1>1, <2>1
  <2> QED
    BY <2>3, <2>4, <2>5
<1> QED
  BY <1>1, <1>2, <1>3, SeqEqual, HeadTailProperties

LEMMA QueuePush ==
  ASSUME TypeOK, RingInv, RingInv', TypeOK', NEW t \in Tasks, MayPush, Push(t)
  PROVE  Len(Queue) < Cap /\ Queue' = Append(Queue, t)
<1>1. /\ len \in Nat /\ len < Cap /\ len' = len + 1
      /\ Queue \in Seq(Tasks) /\ Len(Queue) = len
      /\ Queue' \in Seq(Tasks) /\ Len(Queue') = len'
  <2>1. len \in Nat /\ len < Cap /\ len' = len + 1
    BY PoolAssumption DEF MayPush, Push, TypeOK
  <2>2. Queue \in Seq(Tasks) /\ Len(Queue) = len
    BY QueueOfTasks
  <2>3. (Queue \in Seq(Tasks) /\ Len(Queue) = len)'
    BY QueueOfTasks, PTL
  <2> QED
    BY <2>1, <2>2, <2>3
<1>2. ASSUME NEW i \in 1 .. len'
      PROVE  Queue'[i] = Append(Queue, t)[i]
  <2>1. Queue'[i] = slots'[Pos(i - 1)']
    BY DEF Queue
  <2>2. CASE i = len'
    <3>1. i - 1 = len
      BY <1>1, <2>2
    <3>2. Pos(i - 1)' = tail
      BY <3>1, PushKeeps DEF Pos, Push
    <3>3. Append(Queue, t)[len + 1] = t
      BY <1>1, AppendProperties
    <3> QED
      BY <1>1, <2>1, <2>2, <3>2, <3>3, PushKeeps
  <2>3. CASE i # len'
    <3>1. i \in 1 .. len /\ i - 1 \in 0 .. len - 1
      BY <1>1, <2>3
    <3> QED
      BY <1>1, <2>1, <3>1, PushKeeps, AppendProperties DEF Queue
  <2> QED
    BY <2>2, <2>3
<1> QED
  BY <1>1, <1>2, SeqEqual, AppendProperties

(* The queue holds the waiting tasks and no others. *)
LEMMA QueuedOnly ==
  ASSUME TypeOK, RingInv, NEW i \in DOMAIN Queue
  PROVE  status[Queue[i]] = "queued"
<1>1. len \in Nat /\ i \in 1 .. len /\ i - 1 \in 0 .. len - 1
  BY QueueOfTasks DEF Queue
<1> QED
  BY <1>1 DEF Queue, RingInv

-----------------------------------------------------------------------------
(* A worker that can pop is not running, so fewer tasks run than there are  *)
(* workers. *)
LEMMA RoomToStart ==
  ASSUME TypeOK, JobInv, NEW w \in Workers, wpc[w] = "top"
  PROVE  Cardinality(Started) < Cardinality(Workers)
<1>1. Started \subseteq {job[v] : v \in Workers \ {w}}
  BY PoolAssumption DEF Started, With, JobInv
<1>2. IsFiniteSet(Workers \ {w}) /\ Cardinality(Workers \ {w}) = Cardinality(Workers) - 1
      /\ Cardinality(Workers) \in Nat
  BY PoolAssumption, FS_RemoveElement, FS_CardinalityType
<1>3. /\ IsFiniteSet({job[v] : v \in Workers \ {w}})
      /\ Cardinality({job[v] : v \in Workers \ {w}}) <= Cardinality(Workers \ {w})
      /\ Cardinality({job[v] : v \in Workers \ {w}}) \in Nat
  <2> DEFINE f == [v \in Workers \ {w} |-> job[v]]
             S == {job[v] : v \in Workers \ {w}}
  <2>1. f \in Surjection(Workers \ {w}, S)
    BY DEF Surjection
  <2> QED
    BY <1>2, <2>1, FS_Surjection, FS_CardinalityType
<1>4. Cardinality(Started) <= Cardinality({job[v] : v \in Workers \ {w}})
      /\ Cardinality(Started) \in Nat
  BY <1>1, <1>3, FS_Subset, FS_CardinalityType
<1> QED
  BY <1>2, <1>3, <1>4

-----------------------------------------------------------------------------
(* Each kind of step. *)

LEMMA AsideStill == TypeOK /\ Aside => Still
BY DEF Aside, Still, Queue, Pos, With

(* The flag is raised and never lowered. *)
LEMMA FlagRises ==
  ASSUME [Next]_vars
  PROVE  shutting_down' = shutting_down \/ shutting_down' = TRUE
<1> USE DEF pool, ring, condvars
<1>1. ASSUME NEW w \in Workers, Work(w) PROVE shutting_down' = shutting_down
  BY <1>1 DEF Work, WorkerWait, WorkerExit, WorkerPop, WorkerFinish
<1>2. ASSUME NEW c \in Clients, Call(c) PROVE shutting_down' = shutting_down
  BY <1>2 DEF Call, CallWithTask, CallDrain, CallShutdown, CallFree
<1>3. ASSUME NEW c \in Clients, Proceed(c), ~ShutdownBegin(c)
      PROVE  shutting_down' = shutting_down
  <2>1. CASE SubmitRefuse(c) \/ SubmitWait(c) \/ SubmitPush(c) \/ TryRefuse(c) \/ TryPush(c)
    BY <2>1 DEF SubmitRefuse, SubmitWait, SubmitPush, TryRefuse, TryPush, Push
  <2>2. CASE WaitDrained(c) \/ DrainReturn(c) \/ ShutdownIdle(c)
    BY <2>2 DEF WaitDrained, DrainReturn, ShutdownIdle
  <2>3. CASE JoinSkip(c) \/ JoinTest(c) \/ JoinSet(c) \/ JoinTwice(c) \/ JoinDone(c)
    BY <2>3 DEF JoinSkip, JoinTest, JoinSet, JoinTwice, JoinDone
  <2>4. CASE FreeTest(c) \/ Reclaim(c)
    BY <2>4 DEF FreeTest, Reclaim
  <2> QED
    BY <1>3, <2>1, <2>2, <2>3, <2>4 DEF Proceed
<1>4. ASSUME NEW c \in Clients, ShutdownBegin(c) PROVE shutting_down' = TRUE
  BY <1>4 DEF ShutdownBegin
<1>5. CASE SpuriousWake
  BY <1>5 DEF SpuriousWake
<1>6. CASE UNCHANGED vars
  BY <1>6 DEF vars
<1> QED
  BY <1>1, <1>2, <1>3, <1>4, <1>5, <1>6 DEF Next

LEMMA PopStarts ==
  ASSUME IInv, IInv', NEW w \in Workers, WorkerPop(w)
  PROVE  TP!Start
<1> USE DEF IInv
<1>1. Queue # <<>> /\ Head(Queue) = slots[head] /\ Queue' = Tail(Queue)
  BY QueuePop
<1>2. slots[head] \in Tasks /\ status[slots[head]] = "queued"
  BY HeadTask DEF WorkerPop
<1>3. status' = [status EXCEPT ![slots[head]] = "running"]
  BY DEF WorkerPop, SetStatus
<1>4. /\ Started' = Started \cup {slots[head]}
      /\ UNCHANGED <<With("finished"), With("refused"), shutting_down>>
  BY <1>2, <1>3 DEF Started, With, TypeOK, WorkerPop
<1>5. Cardinality(Started) < Cardinality(Workers)
  BY RoomToStart DEF WorkerPop, AtTop
<1>6. TP!Cardinality(Started) = Cardinality(Started)
  BY DEF TP!Cardinality, Cardinality
<1> QED
  BY <1>1, <1>4, <1>5, <1>6 DEF TP!Start, Queue, Started

LEMMA FinishFinishes ==
  ASSUME IInv, NEW w \in Workers, WorkerFinish(w)
  PROVE  \E t \in Tasks : TP!Finish(t)
<1> USE DEF IInv
<1>1. job[w] \in Tasks /\ status[job[w]] = "running"
  BY DEF WorkerFinish, JobInv
<1>2. status' = [status EXCEPT ![job[w]] = "finished"]
  BY DEF WorkerFinish, SetStatus
<1>3. UNCHANGED Queue /\ UNCHANGED shutting_down
  BY QueueKept DEF WorkerFinish
<1>4. /\ job[w] \in Started /\ Started' = Started \ {job[w]}
      /\ With("finished")' = With("finished") \cup {job[w]}
      /\ UNCHANGED With("refused")
  BY <1>1, <1>2 DEF Started, With, TypeOK
<1>5. TP!Finish(job[w])
  BY <1>3, <1>4 DEF TP!Finish, Queue, Started
<1> QED
  BY <1>1, <1>5

(* The task of a call in progress is one that TaskPool has not seen yet. *)
LEMMA ArgUnseen ==
  ASSUME IInv, NEW c \in Clients, Submitting(c)
  PROVE  arg[c] \in Tasks /\ TP!Unseen(arg[c])
<1>1. arg[c] \in Tasks /\ status[arg[c]] = "calling"
  BY DEF IInv, ArgInv, Submitting
<1>2. arg[c] \notin {Queue[i] : i \in DOMAIN Queue}
  BY <1>1, QueuedOnly DEF IInv
<1> QED
  BY <1>1, <1>2 DEF TP!Unseen, TP!Enqueued, With, Queue

LEMMA PushAccepts ==
  ASSUME IInv, IInv', NEW c \in Clients, Pushes(c)
  PROVE  \E t \in Tasks : TP!Accept(t)
<1> USE DEF IInv
<1>1. Submitting(c) /\ MayPush /\ Push(arg[c]) /\ ReturnTask(c, "queued")
  BY DEF Pushes, Submitting
<1>2. arg[c] \in Tasks /\ status[arg[c]] = "calling" /\ TP!Unseen(arg[c])
  BY <1>1, ArgUnseen DEF ArgInv, Submitting
<1>3. Len(Queue) < Cap /\ Queue' = Append(Queue, arg[c])
  BY <1>1, <1>2, QueuePush
<1>4. status' = [status EXCEPT ![arg[c]] = "queued"] /\ ~shutting_down
      /\ UNCHANGED shutting_down
  BY <1>1 DEF ReturnTask, SetStatus, MayPush, Push
<1>5. UNCHANGED <<With("running"), With("finished"), With("refused")>>
  BY <1>2, <1>4 DEF With, TypeOK
<1>6. TP!Accept(arg[c])
  BY <1>2, <1>3, <1>4, <1>5 DEF TP!Accept, Queue
<1> QED
  BY <1>2, <1>6

LEMMA RefusalRefuses ==
  ASSUME IInv, NEW c \in Clients, Refuses(c)
  PROVE  \E t \in Tasks : TP!Refuse(t)
<1> USE DEF IInv
<1>1. /\ Submitting(c) /\ (shutting_down \/ len = Cap)
      /\ status' = [status EXCEPT ![arg[c]] = "refused"]
      /\ UNCHANGED <<ring, shutting_down>>
  BY DEF Refuses, SubmitRefuse, TryRefuse, AtSubmit, Submitting, ReturnTask, SetStatus, pool
<1>2. arg[c] \in Tasks /\ status[arg[c]] = "calling" /\ TP!Unseen(arg[c])
  BY <1>1, ArgUnseen DEF ArgInv, Submitting
<1>3. UNCHANGED Queue /\ Len(Queue) = len
  BY <1>1, QueueKept, QueueOfTasks
<1>4. /\ UNCHANGED <<With("running"), With("finished")>>
      /\ With("refused")' = With("refused") \cup {arg[c]}
  BY <1>1, <1>2 DEF With, TypeOK
<1>5. TP!Refuse(arg[c])
  BY <1>1, <1>2, <1>3, <1>4 DEF TP!Refuse, Queue
<1> QED
  BY <1>2, <1>5

-----------------------------------------------------------------------------
LEMMA InitMaps == Init => TP!Init
<1> SUFFICES ASSUME Init PROVE TP!Init
  OBVIOUS
<1>1. Queue \in Seq(Tasks) /\ Len(Queue) = 0
  BY InitIInv, QueueOfTasks DEF IInv, Init
<1>2. Queue = <<>>
  BY <1>1, EmptySeq
<1> QED
  BY <1>2 DEF Init, TP!Init, With, Queue

LEMMA StepMaps ==
  ASSUME IInv, IInv', [Next]_vars
  PROVE  [TP!Next]_(TP!abstractVars)
<1> USE DEF IInv
<1>1. CASE Aside
  <2>1. Still
    BY <1>1, AsideStill
  <2>2. CASE shutting_down' = shutting_down
    BY <2>1, <2>2 DEF Still, Queue, TP!abstractVars
  <2>3. CASE shutting_down' = TRUE
    <3>1. TP!Close
      BY <2>1, <2>3 DEF Still, Queue, TP!Close
    <3> QED
      BY <3>1 DEF TP!Next
  <2> QED
    BY <2>2, <2>3, FlagRises
<1>2. ASSUME NEW c \in Clients, NEW t \in Tasks, Begins(c, t)
      PROVE  UNCHANGED TP!abstractVars
  <2>1. /\ UNCHANGED <<ring, shutting_down>> /\ status[t] = "new"
        /\ status' = [status EXCEPT ![t] = "calling"]
    BY <1>2 DEF Begins, CallWithTask, SetStatus, pool
  <2>2. UNCHANGED Queue
    BY <2>1, QueueKept
  <2>3. UNCHANGED <<With("running"), With("finished"), With("refused")>>
    BY <2>1 DEF With, TypeOK
  <2> QED
    BY <2>1, <2>2, <2>3 DEF TP!abstractVars, Queue
<1> QED
  BY <1>1, <1>2, StepKinds, PopStarts, FinishFinishes, PushAccepts, RefusalRefuses
     DEF TP!Next

(* The pool is a bounded queue: tasks are started once, in the order in     *)
(* which they were accepted, at most as many at a time as there are         *)
(* workers; a task is refused only by a closed or a full pool, and a closed *)
(* pool accepts none (mcpkg_thread_pool.c, lines 37-65, 174-225).           *)
THEOREM IsTaskPool == Spec => TP!SafeSpec
<1>1. IInv /\ IInv' /\ [Next]_vars => [TP!Next]_(TP!abstractVars)
  BY StepMaps
<1> QED
  BY InitMaps, Invariance, <1>1, PTL DEF Spec, TP!SafeSpec

-----------------------------------------------------------------------------
(* mcpkg_thread_pool_new, whether a behaviour begins with the pool being     *)
(* made or with one that was made.                                          *)

StartTypeOK ==
  /\ npc \in {"alloc", "workers", "create", "flag", "broadcast", "join", "free",
              "returned", "crashed"}
  /\ created \in 0 .. NumThreads
  /\ at \in [Start!Worker -> {"unborn", "lock", "test", "sleep", "exited", "main"}]
  /\ ret \in {"none", "ok", "nomem", "sys"}

(* The workers that exist are the first ones, and none of them leaves       *)
(* before the flag is raised. *)
BornInv ==
  /\ \A w \in Start!Worker : (at[w] = "unborn") <=> (w > created)
  /\ ~flag => \A w \in Start!Worker : at[w] # "exited"
  /\ npc \in {"alloc", "workers"} => created = 0
  /\ npc \in {"alloc", "workers", "create", "flag"} => ~flag

(* How far new has come says which workers are gone. *)
GoneInv ==
  /\ npc = "free" \/ ret = "sys" => \A w \in 1 .. created : at[w] = "exited"
  /\ npc = "returned" <=> ret # "none"
  /\ ret = "nomem" => created = 0
  /\ ret = "ok" => created = NumThreads /\ ~flag

StartInv == StartTypeOK /\ BornInv /\ GoneInv

LEMMA Threads == NumThreads \in Nat \ {0} /\ NoWorker \notin 1 .. NumThreads
BY MakingAssumption DEF Start!StartupAssumption

(* A pool about to be made, and one that was made. *)
LEMMA InitStartInv == MakingInit \/ MadeInit => StartInv
<1> USE Threads DEF StartInv, StartTypeOK, BornInv, GoneInv, Start!Worker
<1>1. CASE MakingInit
  BY <1>1 DEF MakingInit, Start!Init
<1>2. CASE MadeInit
  BY <1>2 DEF MadeInit
<1> QED
  BY <1>1, <1>2

(* The steps of the thread that calls new. *)
LEMMA NewKeeps == StartInv /\ Start!NewPool => StartInv'
<1> SUFFICES ASSUME StartInv, Start!NewPool PROVE StartInv'
  OBVIOUS
<1> USE Threads DEF StartInv, StartTypeOK, BornInv, GoneInv, Start!Worker
<1>1. ASSUME NEW missing \in SUBSET Start!Field, Start!Allocate(missing) PROVE StartInv'
  BY <1>1 DEF Start!Allocate, Start!Return, Start!Crash
<1>2. CASE Start!AllocateWorkers
  BY <1>2 DEF Start!AllocateWorkers, Start!Crash
<1>3. CASE Start!CreateWorker
  BY <1>3 DEF Start!CreateWorker
<1>4. CASE Start!AllCreated
  BY <1>4 DEF Start!AllCreated, Start!Return
<1>5. CASE Start!CreateFails
  BY <1>5 DEF Start!CreateFails
<1>6. CASE Start!Cleanup
  <2>1. CASE Start!RaiseFlag
    BY <2>1 DEF Start!RaiseFlag
  <2>2. CASE Start!Broadcast
    BY <2>2 DEF Start!Broadcast
  <2>3. CASE Start!JoinAll
    BY <2>3 DEF Start!JoinAll
  <2>4. CASE Start!Free
    BY <2>4 DEF Start!Free, Start!Return
  <2> QED
    BY <1>6, <2>1, <2>2, <2>3, <2>4 DEF Start!Cleanup
<1> QED
  BY <1>1, <1>2, <1>3, <1>4, <1>5, <1>6 DEF Start!NewPool

(* The steps of a worker, which leaves only when it sees the flag. *)
LEMMA WorkerKeeps ==
  ASSUME StartInv,
         NEW w \in Start!Worker, Start!Work(w) \/ Start!SpuriousWake(w)
  PROVE  StartInv'
<1> USE Threads DEF StartInv, StartTypeOK, BornInv, GoneInv, Start!Worker
<1>1. CASE Start!WorkerLock(w)
  BY <1>1 DEF Start!WorkerLock
<1>2. CASE Start!WorkerTest(w)
  BY <1>2 DEF Start!WorkerTest
<1>3. CASE Start!WorkerSleep(w)
  BY <1>3 DEF Start!WorkerSleep
<1>4. CASE Start!SpuriousWake(w)
  BY <1>4 DEF Start!SpuriousWake
<1> QED
  BY <1>1, <1>2, <1>3, <1>4 DEF Start!Work

(* The calls of a pool that was made touch none of this. *)
LEMMA StartInvariance == LifeSpec => []StartInv
<1>1. StartInv /\ UNCHANGED startVars => StartInv'
  BY DEF startVars, StartInv, StartTypeOK, BornInv, GoneInv
<1>2. StartInv /\ [LifeNext]_lifeVars => StartInv'
  <2>1. CASE making /\ Start!Next /\ UNCHANGED <<making, vars>>
    BY <2>1, NewKeeps, WorkerKeeps DEF Start!Next
  <2>2. CASE ~making /\ Next /\ UNCHANGED <<making, startVars>>
    BY <2>2, <1>1
  <2> QED
    BY <2>1, <2>2, <1>1 DEF LifeNext, lifeVars
<1> QED
  BY InitStartInv, <1>2, PTL DEF LifeSpec

(* However many workers a pool is to have and whichever of them cannot be   *)
(* created: mcpkg_thread_pool_new returns either a pool with all of them,   *)
(* none told to stop, or nothing, with all of them gone.                    *)
THEOREM NoWorkerLeft == LifeSpec => []NoWorkerOutlivesPool
<1>1. StartInv => NoWorkerOutlivesPool
  BY Threads DEF StartInv, StartTypeOK, BornInv, GoneInv, Start!Worker,
     NoWorkerOutlivesPool, Start!NoWorkerOutlivesPool
<1> QED
  BY StartInvariance, <1>1, PTL
-----------------------------------------------------------------------------
(* The downloader: its types, and where a fetch is.                         *)
DlTypeOK ==
  /\ future \in [Tasks -> {"none", "pending", "done", "freed"}]
  /\ err \in [Tasks -> {"none", "ok", "net", "fs", "nomem"}]
  /\ dltask \in [Tasks -> {"none", "held", "freed"}]
  /\ promise \in [Tasks -> {"none", "held", "freed"}]
  /\ rc \in [Tasks -> {"none", "ok", "again"}]
  /\ bpc \in [Workers -> {"none", "request", "open", "write", "result", "set", "end"}]
  /\ wrote \in [Workers -> Nat]
  /\ DOMAIN file = Paths

(* A fetch that nobody has run, one whose error is noted, and one whose     *)
(* future has its result.                                                   *)
Untouched(t) ==
  err[t] = "none" /\ dltask[t] = "held" /\ promise[t] = "held" /\ future[t] = "pending"
Noted(t) ==
  err[t] # "none" /\ dltask[t] = "freed" /\ promise[t] = "held" /\ future[t] = "pending"
Resolved(t) ==
  /\ err[t] # "none" /\ dltask[t] = "freed" /\ promise[t] = "freed"
  /\ future[t] \in {"done", "freed"}

(* Where a worker is in dl_task_run says what has become of its fetch.      *)
RunInv ==
  \A w \in Workers :
    /\ bpc[w] = "none" <=> wpc[w] # "run"
    /\ bpc[w] \in {"request", "open", "write", "result"} => Untouched(job[w])
    /\ bpc[w] = "set" => Noted(job[w])
    /\ bpc[w] = "end" => Resolved(job[w])

(* What has become of a fetch that no worker runs. *)
FetchInv ==
  \A t \in Tasks :
    /\ status[t] \in {"new", "refused"} => err[t] = "none"
    /\ status[t] \in {"calling", "queued"} => Untouched(t)
    /\ status[t] = "finished" => Resolved(t)
    /\ rc[t] = "ok" => status[t] \in {"queued", "running", "finished"}

(* The first n chunks of the body of t. *)
Chunked(n, t) == [i \in 1 .. n |-> t]

FileInv ==
  /\ \A w \in Workers :
       /\ bpc[w] \in {"none", "request", "open"} => wrote[w] = 0
       /\ bpc[w] = "write" => file[OutFile[job[w]]] = Chunked(wrote[w], job[w])
       /\ bpc[w] = "result" => file[OutFile[job[w]]] = Chunked(Chunks, job[w])
  /\ \A t \in Tasks : err[t] = "ok" => file[OutFile[t]] = Chunked(Chunks, t)

DlInv == DlTypeOK /\ RunInv /\ FetchInv

OwnFiles == \A t, u \in Tasks : OutFile[t] = OutFile[u] => t = u

-----------------------------------------------------------------------------
(* Every step of the downloader is a step of its pool, or none of it.       *)
LEMMA PoolSteps == [DlNext]_allvars => [Next]_vars
<1> SUFFICES ASSUME DlNext PROVE [Next]_vars
  BY DEF allvars
<1>1. ASSUME NEW w \in Workers, Download(w) PROVE [Next]_vars
  <2>1. CASE Begin(w) \/ End(w) \/ WorkerWait(w) \/ WorkerExit(w)
    BY <2>1 DEF Begin, End, Next, Work
  <2>2. CASE Request(w) \/ Open(w) \/ Write(w) \/ Close(w) \/ Result(w) \/ Complete(w)
    BY <2>2 DEF Request, Open, Write, Close, Result, Complete
  <2> QED
    BY <1>1, <2>1, <2>2 DEF Download
<1>2. ASSUME NEW c \in Clients, NEW t \in Tasks, Fetch(c, t) \/ Collect(c, t)
      PROVE  [Next]_vars
  BY <1>2 DEF Fetch, Collect, Next, Call
<1>3. ASSUME NEW c \in Clients, FreeDownloader(c) \/ DlProceed(c) PROVE [Next]_vars
  BY <1>3 DEF FreeDownloader, DlProceed, FetchQueued, FetchRefused, Next, Call, Proceed
<1> QED
  BY <1>1, <1>2, <1>3 DEF DlNext, Next

(* The steps of the pool in which no task changes hands. *)
Passive ==
  /\ UNCHANGED <<job, status>>
  /\ \A w \in Workers : wpc'[w] = "run" <=> wpc[w] = "run"

LEMMA PassiveKeeps ==
  ASSUME Passive, UNCHANGED dlvars
  PROVE  /\ DlInv => DlInv'
         /\ FileInv => FileInv'
<1> USE DEF Passive, dlvars
<1>1. DlTypeOK => DlTypeOK'
  BY DEF DlTypeOK
<1>2. RunInv => RunInv'
  BY DEF RunInv, Untouched, Noted, Resolved
<1>3. FetchInv => FetchInv'
  BY DEF FetchInv, Untouched, Resolved
<1>4. FileInv => FileInv'
  BY DEF FileInv
<1> QED
  BY <1>1, <1>2, <1>3, <1>4 DEF DlInv

LEMMA PassiveSteps ==
  ASSUME TypeOK
  PROVE  /\ \A w \in Workers : WorkerWait(w) \/ WorkerExit(w) => Passive
         /\ \A c \in Clients : FreeDownloader(c) => Passive
         /\ \A c \in Clients :
              DlProceed(c) => FetchQueued(c) \/ FetchRefused(c) \/ (Passive /\ UNCHANGED dlvars)
         /\ SpuriousWake \/ UNCHANGED vars => Passive
<1> USE DEF Passive, TypeOK
<1>1. \A w \in Workers : WorkerWait(w) \/ WorkerExit(w) => Passive
  BY DEF WorkerWait, WorkerExit, AtTop
<1>2. \A c \in Clients : FreeDownloader(c) => Passive
  BY DEF FreeDownloader, CallShutdown, CallFree
<1>3. SpuriousWake \/ UNCHANGED vars => Passive
  BY DEF SpuriousWake, vars
<1>4. \A c \in Clients :
        /\ SubmitWait(c) \/ WaitDrained(c) => Passive
        /\ ShutdownBegin(c) \/ ShutdownIdle(c) => Passive
        /\ JoinSkip(c) \/ JoinTest(c) \/ JoinSet(c) \/ JoinDone(c) => Passive
        /\ FreeTest(c) \/ Reclaim(c) => Passive
  BY DEF SubmitWait, WaitDrained, ShutdownBegin, ShutdownIdle, JoinSkip, JoinTest, JoinSet,
         JoinDone, FreeTest, Reclaim
<1> QED
  BY <1>1, <1>2, <1>3, <1>4 DEF DlProceed

(* Two workers never run one fetch, and a fetch that runs is not waiting.   *)
LEMMA OneRunner ==
  ASSUME IInv, DlInv
  PROVE  /\ \A w \in Workers : bpc[w] # "none" =>
              job[w] \in Tasks /\ status[job[w]] = "running"
         /\ \A v, w \in Workers : bpc[v] # "none" /\ job[v] = job[w] => v = w
  BY PoolAssumption DEF IInv, JobInv, DlInv, RunInv

LEMMA InitDlInv == DlInit => DlInv /\ FileInv
<1> SUFFICES ASSUME DlInit PROVE DlInv /\ FileInv
  OBVIOUS
<1>1. DlTypeOK
  BY DEF DlInit, DlTypeOK
<1>2. RunInv /\ FetchInv /\ FileInv
  BY DEF DlInit, Init, RunInv, FetchInv, FileInv
<1> QED
  BY <1>1, <1>2 DEF DlInv
-----------------------------------------------------------------------------
(* What the steps do to the fetches.                                        *)

(* A worker goes on with its fetch, to a place where that fetch is as it    *)
(* must be, and leaves the others alone. *)
GoesOn(w) ==
  /\ UNCHANGED <<vars, rc>> /\ bpc[w] # "none" /\ bpc'[w] # "none"
  /\ \A v \in Workers \ {w} : bpc'[v] = bpc[v]
  /\ \A t \in Tasks \ {job[w]} :
       /\ err'[t] = err[t] /\ dltask'[t] = dltask[t]
       /\ promise'[t] = promise[t] /\ future'[t] = future[t]
  /\ bpc'[w] \in {"request", "open", "write", "result"} => Untouched(job[w])'
  /\ bpc'[w] = "set" => Noted(job[w])'
  /\ bpc'[w] = "end" => Resolved(job[w])'

LEMMA GoesOnKeeps ==
  ASSUME IInv, DlInv, NEW w \in Workers, GoesOn(w), DlTypeOK'
  PROVE  DlInv'
<1>1. UNCHANGED <<wpc, job, status, rc>>
  BY DEF GoesOn, vars
<1>2. job[w] \in Tasks /\ status[job[w]] = "running"
      /\ \A v \in Workers \ {w} : bpc[v] # "none" => job[v] \in Tasks \ {job[w]}
  BY OneRunner DEF GoesOn
<1>3. RunInv'
  <2>1. ASSUME NEW v \in Workers
        PROVE  /\ bpc'[v] = "none" <=> wpc[v] # "run"
               /\ bpc'[v] \in {"request", "open", "write", "result"} => Untouched(job[v])'
               /\ bpc'[v] = "set" => Noted(job[v])'
               /\ bpc'[v] = "end" => Resolved(job[v])'
    <3>1. CASE v = w
      BY <1>1, <3>1 DEF GoesOn, DlInv, RunInv
    <3>2. CASE v # w
      <4>1. bpc'[v] = bpc[v] /\ (bpc[v] # "none" => job[v] \in Tasks \ {job[w]})
        BY <1>2, <3>2 DEF GoesOn
      <4> QED
        BY <1>1, <4>1 DEF GoesOn, DlInv, RunInv, Untouched, Noted, Resolved
    <3> QED
      BY <3>1, <3>2
  <2> QED
    BY <1>1, <2>1 DEF RunInv
<1>4. FetchInv'
  BY <1>1, <1>2 DEF GoesOn, DlInv, FetchInv, Untouched, Resolved
<1> QED
  BY <1>3, <1>4 DEF DlInv

(* The request, the file and the result: either all goes well, or the error *)
(* is noted and what the task was given is freed.                           *)
LEMMA RunGoesOn ==
  ASSUME IInv, DlInv, NEW w \in Workers, UNCHANGED <<vars, rc, promise, future>>,
         DlTypeOK', bpc[w] \in {"request", "open", "write", "result"},
         \/ /\ UNCHANGED <<err, dltask>>
            /\ \E to \in {"open", "write", "result"} : bpc' = [bpc EXCEPT ![w] = to]
         \/ \E e \in {"ok", "net", "fs", "nomem"} : RunEnds(w, bpc[w], e)
  PROVE  DlInv'
<1>1. job[w] \in Tasks /\ Untouched(job[w])
  BY OneRunner DEF DlInv, RunInv
<1>2. UNCHANGED job
  BY DEF vars
<1>3. GoesOn(w)
  BY <1>1, <1>2 DEF GoesOn, Untouched, Noted, RunEnds, Body, DlInv, DlTypeOK
<1> QED
  BY <1>3, GoesOnKeeps

LEMMA CompleteKeeps ==
  ASSUME IInv, DlInv, NEW w \in Workers, Complete(w)
  PROVE  DlInv'
<1>1. job[w] \in Tasks /\ Noted(job[w]) /\ bpc[w] = "set"
  BY OneRunner DEF DlInv, RunInv, Complete, Body
<1>2. UNCHANGED <<job, vars, rc, err, dltask>>
  BY DEF Complete, vars
<1>3. DlTypeOK'
  BY <1>2 DEF Complete, Body, DlInv, DlTypeOK
<1>4. GoesOn(w)
  BY <1>1, <1>2 DEF GoesOn, Noted, Resolved, Complete, Body, DlInv, DlTypeOK
<1> QED
  BY <1>3, <1>4, GoesOnKeeps

LEMMA BeginKeeps ==
  ASSUME IInv, DlInv, NEW w \in Workers, Begin(w)
  PROVE  DlInv'
<1> DEFINE t == slots[head]
<1>1. t \in Tasks /\ status[t] = "queued" /\ Untouched(t) /\ bpc[w] = "none"
  <2>1. WorkerPop(w) /\ wpc[w] = "top" /\ len > 0
    BY DEF Begin, WorkerPop, AtTop
  <2> QED
    BY <2>1, HeadTask DEF IInv, DlInv, RunInv, FetchInv
<1>2. /\ job' = [job EXCEPT ![w] = t] /\ wpc' = [wpc EXCEPT ![w] = "run"]
      /\ status' = [status EXCEPT ![t] = "running"] /\ bpc' = [bpc EXCEPT ![w] = "request"]
      /\ UNCHANGED <<future, err, dltask, promise, rc, wrote, file>>
  BY DEF Begin, WorkerPop, SetStatus
<1>3. TypeOK
  BY DEF IInv
<1> HIDE DEF t
<1>4. DlTypeOK'
  BY <1>2 DEF DlInv, DlTypeOK
<1>5. RunInv'
  BY <1>1, <1>2, <1>3 DEF DlInv, RunInv, DlTypeOK, TypeOK, Untouched, Noted, Resolved
<1>6. FetchInv'
  BY <1>1, <1>2, <1>3 DEF DlInv, FetchInv, TypeOK, Untouched, Resolved
<1> QED
  BY <1>4, <1>5, <1>6 DEF DlInv

LEMMA EndKeeps ==
  ASSUME IInv, DlInv, NEW w \in Workers, End(w)
  PROVE  DlInv'
<1> DEFINE t == job[w]
<1>1. t \in Tasks /\ status[t] = "running" /\ Resolved(t) /\ bpc[w] = "end"
  BY OneRunner DEF End, Body, DlInv, RunInv
<1>2. /\ job' = [job EXCEPT ![w] = NoTask] /\ wpc' = [wpc EXCEPT ![w] = "top"]
      /\ status' = [status EXCEPT ![t] = "finished"] /\ bpc' = [bpc EXCEPT ![w] = "none"]
      /\ wrote' = [wrote EXCEPT ![w] = 0]
      /\ UNCHANGED <<future, err, dltask, promise, rc, file>>
  BY DEF End, WorkerFinish, SetStatus, Body
<1>3. TypeOK
  BY DEF IInv
<1> HIDE DEF t
<1>4. DlTypeOK'
  BY <1>2 DEF DlInv, DlTypeOK
<1>5. RunInv'
  BY <1>1, <1>2, <1>3 DEF DlInv, RunInv, DlTypeOK, TypeOK, Untouched, Noted, Resolved
<1>6. FetchInv'
  BY <1>1, <1>2, <1>3 DEF DlInv, FetchInv, TypeOK, Untouched, Resolved
<1> QED
  BY <1>4, <1>5, <1>6 DEF DlInv

(* The client's side: a new fetch, accepted or refused, and its result.     *)
LEMMA ClientKeeps ==
  ASSUME IInv, DlInv, NEW c \in Clients,
         \/ \E t \in Tasks : Fetch(c, t) \/ Collect(c, t)
         \/ FetchQueued(c) \/ FetchRefused(c)
  PROVE  DlInv'
<1> USE DEF DlInv, TypeOK, Untouched, Noted, Resolved
<1>0. TypeOK
  BY DEF IInv
<1>1. ASSUME NEW t \in Tasks, Fetch(c, t) PROVE DlInv'
  <2>1. /\ status[t] = "new" /\ status' = [status EXCEPT ![t] = "calling"]
        /\ UNCHANGED <<job, wpc, err, rc, bpc, wrote, file>>
        /\ future' = [future EXCEPT ![t] = "pending"]
        /\ dltask' = [dltask EXCEPT ![t] = "held"]
        /\ promise' = [promise EXCEPT ![t] = "held"]
    BY <1>1 DEF Fetch, CallWithTask, SetStatus
  <2>2. \A w \in Workers : bpc[w] # "none" => job[w] \in Tasks /\ job[w] # t
    BY <2>1, OneRunner
  <2>3. DlTypeOK'
    BY <2>1 DEF DlTypeOK
  <2>4. RunInv'
    BY <2>1, <2>2 DEF RunInv, DlTypeOK
  <2>5. FetchInv'
    BY <1>0, <2>1 DEF FetchInv, DlTypeOK
  <2> QED
    BY <2>3, <2>4, <2>5
<1>2. ASSUME NEW t \in Tasks, Collect(c, t) PROVE DlInv'
  <2>1. /\ future[t] = "done" /\ future' = [future EXCEPT ![t] = "freed"]
        /\ UNCHANGED <<status, job, wpc, err, dltask, promise, rc, bpc, wrote, file>>
    BY <1>2 DEF Collect, vars
  <2>2. DlTypeOK'
    BY <2>1 DEF DlTypeOK
  <2>3. RunInv'
    BY <2>1 DEF RunInv, DlTypeOK
  <2>4. FetchInv'
    BY <2>1 DEF FetchInv, DlTypeOK
  <2> QED
    BY <2>2, <2>3, <2>4
<1>3. CASE FetchQueued(c) \/ FetchRefused(c)
  <2> DEFINE t == arg[c]
  <2>1. t \in Tasks /\ status[t] = "calling"
    BY <1>3 DEF FetchQueued, FetchRefused, SubmitPush, SubmitRefuse, AtSubmit, IInv, ArgInv
  <2>2. /\ UNCHANGED <<job, wpc, future, err, promise, bpc, wrote, file>>
        /\ \/ /\ status' = [status EXCEPT ![t] = "queued"] /\ dltask' = dltask
              /\ rc' = [rc EXCEPT ![t] = "ok"]
           \/ /\ status' = [status EXCEPT ![t] = "refused"]
              /\ dltask' = [dltask EXCEPT ![t] = "freed"]
              /\ rc' = [rc EXCEPT ![t] = "again"]
    BY <1>3 DEF FetchQueued, FetchRefused, SubmitPush, SubmitRefuse, ReturnTask, SetStatus
  <2> HIDE DEF t
  <2>3. \A w \in Workers : bpc[w] # "none" => job[w] \in Tasks /\ job[w] # t
    BY <2>1, OneRunner
  <2>4. DlTypeOK'
    BY <2>2 DEF DlTypeOK
  <2>5. RunInv'
    BY <2>2, <2>3 DEF RunInv, DlTypeOK
  <2>6. FetchInv'
    BY <1>0, <2>1, <2>2 DEF FetchInv, DlTypeOK
  <2> QED
    BY <2>4, <2>5, <2>6
<1> QED
  BY <1>1, <1>2, <1>3

LEMMA NextDlInv == IInv /\ DlInv /\ [DlNext]_allvars => DlInv'
<1> SUFFICES ASSUME IInv, DlInv, [DlNext]_allvars PROVE DlInv'
  OBVIOUS
<1>0. TypeOK
  BY DEF IInv
<1>1. ASSUME NEW w \in Workers, Download(w) PROVE DlInv'
  <2>1. CASE Request(w) \/ Open(w) \/ Write(w) \/ Close(w) \/ Result(w)
    <3>1. UNCHANGED <<vars, rc, promise, future>>
      BY <2>1 DEF Request, Open, Write, Close, Result
    <3>2. bpc[w] \in {"request", "open", "write", "result"}
      BY <2>1 DEF Request, Open, Write, Close, Result, Body, RunEnds
    <3>3. \/ /\ UNCHANGED <<err, dltask>>
             /\ \E to \in {"open", "write", "result"} : bpc' = [bpc EXCEPT ![w] = to]
          \/ \E e \in {"ok", "net", "fs", "nomem"} : RunEnds(w, bpc[w], e)
      <4>1. CASE Request(w)
        BY <4>1 DEF Request, Body, RunEnds
      <4>2. CASE Open(w)
        BY <4>2 DEF Open, Body, RunEnds
      <4>3. CASE Write(w)
        <5>1. bpc = [bpc EXCEPT ![w] = bpc[w]]
          BY DEF DlInv, DlTypeOK
        <5> QED
          BY <4>3, <5>1 DEF Write, RunEnds
      <4>4. CASE Close(w)
        BY <4>4 DEF Close, Body, RunEnds
      <4>5. CASE Result(w)
        BY <4>5 DEF Result, Body, RunEnds
      <4> QED
        BY <2>1, <4>1, <4>2, <4>3, <4>4, <4>5
    <3>4. wrote' \in [Workers -> Nat] /\ DOMAIN file' = Paths
      BY <2>1 DEF Request, Open, Write, Close, Result, DlInv, DlTypeOK
    <3>5. DlTypeOK'
      BY <3>1, <3>3, <3>4 DEF DlInv, DlTypeOK, RunEnds, Body
    <3> QED
      BY <3>1, <3>2, <3>3, <3>5, RunGoesOn
  <2>2. CASE (WorkerWait(w) \/ WorkerExit(w)) /\ UNCHANGED dlvars
    BY <1>0, <2>2, PassiveSteps, PassiveKeeps
  <2> QED
    BY <1>1, <2>1, <2>2, BeginKeeps, EndKeeps, CompleteKeeps DEF Download
<1>2. ASSUME NEW c \in Clients, NEW t \in Tasks, Fetch(c, t) \/ Collect(c, t) PROVE DlInv'
  BY <1>2, ClientKeeps
<1>3. ASSUME NEW c \in Clients, FreeDownloader(c) \/ DlProceed(c) PROVE DlInv'
  <2>1. CASE FetchQueued(c) \/ FetchRefused(c)
    BY <2>1, ClientKeeps
  <2>2. CASE FreeDownloader(c)
    BY <1>0, <2>2, PassiveSteps, PassiveKeeps DEF FreeDownloader
  <2> QED
    BY <1>0, <1>3, <2>1, <2>2, PassiveSteps, PassiveKeeps
<1>4. CASE SpuriousWake /\ UNCHANGED dlvars
  BY <1>0, <1>4, PassiveSteps, PassiveKeeps
<1>5. CASE UNCHANGED allvars
  BY <1>0, <1>5, PassiveSteps, PassiveKeeps DEF allvars
<1> QED
  BY <1>1, <1>2, <1>3, <1>4, <1>5 DEF DlNext
-----------------------------------------------------------------------------
(* The files.                                                               *)

LEMMA ChunkedLen == ASSUME NEW n \in Nat, NEW t PROVE Len(Chunked(n, t)) = n
<1>1. Chunked(n, t) \in [1 .. n -> {t}]
  BY DEF Chunked
<1> QED
  BY <1>1, LenProperties, SeqDef

(* A chunk goes behind those that are there. *)
LEMMA NextChunk ==
  ASSUME NEW n \in Nat, NEW t
  PROVE  PutChunk(Chunked(n, t), n + 1, t) = Chunked(n + 1, t)
<1>1. Len(Chunked(n, t)) = n
  BY ChunkedLen
<1>2. n + 1 > n
  OBVIOUS
<1> QED
  BY <1>1, <1>2 DEF PutChunk, Chunked

(* Only a worker that opens or writes touches a file, and only that of its  *)
(* own fetch. *)
LEMMA FilesApart ==
  ASSUME OwnFiles, IInv, DlInv, FileInv, NEW w \in Workers,
         UNCHANGED <<vars, rc>>, DlTypeOK',
         bpc[w] # "none", err[job[w]] = "none" \/ file' = file,
         \A v \in Workers \ {w} : bpc'[v] = bpc[v] /\ wrote'[v] = wrote[v],
         \A t \in Tasks \ {job[w]} : err'[t] = err[t],
         \A p \in Paths \ {OutFile[job[w]]} : file'[p] = file[p],
         /\ bpc'[w] \in {"none", "request", "open"} => wrote'[w] = 0
         /\ bpc'[w] = "write" => file'[OutFile[job[w]]] = Chunked(wrote'[w], job[w])
         /\ bpc'[w] = "result" => file'[OutFile[job[w]]] = Chunked(Chunks, job[w])
         /\ err'[job[w]] = "ok" => file'[OutFile[job[w]]] = Chunked(Chunks, job[w])
  PROVE  FileInv'
<1>1. UNCHANGED job
  BY DEF vars
<1>2. job[w] \in Tasks
      /\ \A v \in Workers \ {w} : bpc[v] # "none" => job[v] \in Tasks \ {job[w]}
  BY OneRunner
<1>3. \A t \in Tasks \ {job[w]} : OutFile[t] \in Paths \ {OutFile[job[w]]}
  BY <1>2, DownloadAssumption DEF OwnFiles
<1>4. \A t \in Tasks \ {job[w]} : file'[OutFile[t]] = file[OutFile[t]] /\ err'[t] = err[t]
  BY <1>3
<1>5. \A t \in Tasks : err'[t] = "ok" => file'[OutFile[t]] = Chunked(Chunks, t)
  BY <1>4 DEF FileInv
<1>6. ASSUME NEW v \in Workers
      PROVE  /\ bpc'[v] \in {"none", "request", "open"} => wrote'[v] = 0
             /\ bpc'[v] = "write" => file'[OutFile[job[v]]] = Chunked(wrote'[v], job[v])
             /\ bpc'[v] = "result" => file'[OutFile[job[v]]] = Chunked(Chunks, job[v])
  <2>1. CASE v = w
    BY <2>1
  <2>2. CASE v # w
    <3>1. bpc'[v] = bpc[v] /\ wrote'[v] = wrote[v]
      BY <2>2
    <3>2. bpc[v] # "none" => file'[OutFile[job[v]]] = file[OutFile[job[v]]]
      BY <1>2, <1>4, <2>2
    <3> QED
      BY <3>1, <3>2 DEF FileInv
  <2> QED
    BY <2>1, <2>2
<1> QED
  BY <1>1, <1>5, <1>6 DEF FileInv

LEMMA NextFileInv ==
  OwnFiles /\ IInv /\ DlInv /\ FileInv /\ [DlNext]_allvars => FileInv'
<1> SUFFICES ASSUME OwnFiles, IInv, DlInv, FileInv, [DlNext]_allvars PROVE FileInv'
  OBVIOUS
<1>0. TypeOK /\ DlInv'
  BY NextDlInv DEF IInv
<1>1. ASSUME NEW w \in Workers, Download(w) PROVE FileInv'
  <2> DEFINE t == job[w]
             p == OutFile[t]
  <2>0. /\ bpc[w] \in {"request", "open", "write", "result"} => err[t] = "none"
        /\ bpc[w] # "none" => t \in Tasks /\ p \in Paths
        /\ DlTypeOK /\ DlTypeOK'
    BY <1>0, OneRunner, DownloadAssumption DEF DlInv, RunInv, Untouched
  <2> HIDE DEF t, p
  <2>1. CASE Begin(w)
    <3>1. /\ job' = [job EXCEPT ![w] = slots[head]] /\ bpc' = [bpc EXCEPT ![w] = "request"]
          /\ UNCHANGED <<err, wrote, file>> /\ bpc[w] = "none"
      BY <2>1 DEF Begin, WorkerPop, AtTop, DlInv, RunInv
    <3> QED
      BY <1>0, <2>0, <3>1 DEF FileInv, DlTypeOK, TypeOK
  <2>2. CASE End(w)
    <3>1. /\ job' = [job EXCEPT ![w] = NoTask] /\ bpc' = [bpc EXCEPT ![w] = "none"]
          /\ wrote' = [wrote EXCEPT ![w] = 0] /\ UNCHANGED <<err, file>>
      BY <2>2 DEF End, WorkerFinish, Body
    <3> QED
      BY <1>0, <2>0, <3>1 DEF FileInv, DlTypeOK, TypeOK
  <2>3. CASE Request(w) \/ Open(w) \/ Close(w) \/ Result(w) \/ Complete(w)
    <3>1. UNCHANGED <<vars, rc, wrote>> /\ bpc[w] # "none"
      BY <2>3 DEF Request, Open, Close, Result, Complete, Body, RunEnds
    <3>2. \A v \in Workers \ {w} : bpc'[v] = bpc[v]
      BY <2>0, <2>3 DEF Request, Open, Close, Result, Complete, Body, RunEnds, DlTypeOK
    <3>3. \A u \in Tasks \ {t} : err'[u] = err[u]
      BY <2>0, <2>3 DEF Request, Open, Close, Result, Complete, Body, RunEnds, DlTypeOK, t
    <3>4. \A q \in Paths \ {p} : file'[q] = file[q]
      BY <2>0, <2>3 DEF Request, Open, Close, Result, Complete, DlTypeOK, t, p
    <3>5. err[t] = "none" \/ file' = file
      BY <2>0, <2>3 DEF Request, Open, Close, Result, Complete, Body, RunEnds
    <3>6. /\ bpc'[w] \in {"none", "request", "open"} => wrote'[w] = 0
          /\ bpc'[w] = "write" => file'[p] = Chunked(wrote'[w], t)
          /\ bpc'[w] = "result" => file'[p] = Chunked(Chunks, t)
          /\ err'[t] = "ok" => file'[p] = Chunked(Chunks, t)
      <4>0. bpc[w] # "none" /\ t \in Tasks /\ p \in Paths
        BY <2>0, <3>1
      <4>1. CASE Request(w)
        <5>1. bpc[w] = "request" /\ bpc'[w] \in {"open", "set"} /\ err'[t] # "ok"
              /\ UNCHANGED wrote
          BY <2>0, <4>0, <4>1 DEF Request, Body, RunEnds, DlTypeOK, t
        <5> QED
          BY <5>1 DEF FileInv
      <4>2. CASE Open(w)
        <5>1. /\ bpc[w] = "open" /\ err'[t] # "ok" /\ UNCHANGED wrote
              /\ (bpc'[w] = "write" /\ file'[p] = <<>>) \/ bpc'[w] = "set"
          BY <2>0, <4>0, <4>2 DEF Open, Body, RunEnds, DlTypeOK, t, p
        <5>2. <<>> = Chunked(0, t)
          BY DEF Chunked
        <5> QED
          BY <5>1, <5>2 DEF FileInv
      <4>3. CASE Close(w)
        <5>1. /\ bpc[w] = "write" /\ wrote[w] = Chunks /\ err'[t] # "ok"
              /\ UNCHANGED <<wrote, file>> /\ bpc'[w] \in {"result", "set"}
          BY <2>0, <4>0, <4>3 DEF Close, Body, RunEnds, DlTypeOK, t
        <5> QED
          BY <5>1 DEF FileInv, t, p
      <4>4. CASE Result(w)
        <5>1. bpc[w] = "result" /\ UNCHANGED <<wrote, file>> /\ bpc'[w] = "set"
          BY <2>0, <4>0, <4>4 DEF Result, Body, RunEnds, DlTypeOK, t
        <5> QED
          BY <5>1 DEF FileInv, t, p
      <4>5. CASE Complete(w)
        <5>1. bpc[w] = "set" /\ UNCHANGED <<wrote, file, err>> /\ bpc'[w] = "end"
          BY <2>0, <4>0, <4>5 DEF Complete, Body, DlTypeOK
        <5> QED
          BY <4>0, <5>1 DEF FileInv, t, p
      <4> QED
        BY <2>3, <4>1, <4>2, <4>3, <4>4, <4>5
    <3> QED
      BY <2>0, <3>1, <3>2, <3>3, <3>4, <3>5, <3>6, FilesApart DEF t, p
  <2>4. CASE Write(w)
    <3>1. UNCHANGED <<vars, rc>> /\ bpc[w] = "write"
      BY <2>4 DEF Write
    <3>2. t \in Tasks /\ p \in Paths /\ err[t] = "none" /\ wrote[w] \in Nat
      BY <2>0, <3>1 DEF DlTypeOK
    <3>3. \/ /\ file' = [file EXCEPT ![p] = PutChunk(@, wrote[w] + 1, t)]
             /\ wrote' = [wrote EXCEPT ![w] = @ + 1] /\ UNCHANGED <<bpc, err>>
          \/ /\ UNCHANGED <<file, wrote>> /\ bpc' = [bpc EXCEPT ![w] = "set"]
             /\ err' = [err EXCEPT ![t] = "fs"]
      BY <2>4 DEF Write, RunEnds, Body, t, p
    <3>4. /\ \A v \in Workers \ {w} : bpc'[v] = bpc[v] /\ wrote'[v] = wrote[v]
          /\ \A u \in Tasks \ {t} : err'[u] = err[u]
          /\ \A q \in Paths \ {p} : file'[q] = file[q]
          /\ err'[t] # "ok"
      BY <2>0, <3>2, <3>3 DEF DlTypeOK
    <3>5. /\ bpc'[w] \in {"none", "request", "open"} => wrote'[w] = 0
          /\ bpc'[w] = "write" => file'[p] = Chunked(wrote'[w], t)
          /\ bpc'[w] = "result" => file'[p] = Chunked(Chunks, t)
      <4>1. file[p] = Chunked(wrote[w], t)
        BY <3>1 DEF FileInv, t, p
      <4>2. PutChunk(Chunked(wrote[w], t), wrote[w] + 1, t) = Chunked(wrote[w] + 1, t)
        BY <3>2, NextChunk
      <4> QED
        BY <2>0, <3>1, <3>2, <3>3, <4>1, <4>2 DEF DlTypeOK
    <3> QED
      BY <2>0, <3>1, <3>2, <3>4, <3>5, FilesApart DEF t, p
  <2>5. CASE (WorkerWait(w) \/ WorkerExit(w)) /\ UNCHANGED dlvars
    BY <1>0, <2>5, PassiveSteps, PassiveKeeps
  <2> QED
    BY <1>1, <2>1, <2>2, <2>3, <2>4, <2>5 DEF Download
<1>2. CASE UNCHANGED <<job, err, bpc, wrote, file>>
  BY <1>2 DEF FileInv
<1>3. ASSUME NEW c \in Clients, NEW t \in Tasks, Fetch(c, t) \/ Collect(c, t) PROVE FileInv'
  BY <1>2, <1>3 DEF Fetch, CallWithTask, Collect, vars
<1>4. ASSUME NEW c \in Clients, FreeDownloader(c) \/ DlProceed(c) PROVE FileInv'
  <2>1. CASE FetchQueued(c) \/ FetchRefused(c)
    BY <1>2, <2>1 DEF FetchQueued, FetchRefused, SubmitPush, SubmitRefuse
  <2>2. CASE FreeDownloader(c)
    BY <1>0, <2>2, PassiveSteps, PassiveKeeps DEF FreeDownloader
  <2> QED
    BY <1>0, <1>4, <2>1, <2>2, PassiveSteps, PassiveKeeps
<1>5. CASE SpuriousWake /\ UNCHANGED dlvars
  BY <1>0, <1>5, PassiveSteps, PassiveKeeps
<1>6. CASE UNCHANGED allvars
  BY <1>0, <1>6, PassiveSteps, PassiveKeeps DEF allvars
<1> QED
  BY <1>1, <1>3, <1>4, <1>5, <1>6 DEF DlNext

-----------------------------------------------------------------------------
LEMMA DlInvariance == DlSpec => [](IInv /\ DlInv)
<1>1. DlInit => IInv /\ DlInv
  BY InitIInv, InitDlInv DEF DlInit
<1>2. IInv /\ DlInv /\ [DlNext]_allvars => (IInv /\ DlInv)'
  BY PoolSteps, NextIInv, NextDlInv
<1> QED
  BY <1>1, <1>2, PTL DEF DlSpec

(* Whatever fails or runs beside it, a fetch that resolves with no error    *)
(* has its whole body in its file and nothing else, if no other fetch       *)
(* writes to that file.                                                     *)
THEOREM WrittenIfOk ==
  ASSUME OwnFiles
  PROVE  DlSpec => []OkMeansWritten
<1>1. DlInit => FileInv
  BY InitDlInv
<1>2. IInv /\ DlInv /\ FileInv /\ [DlNext]_allvars => FileInv'
  BY NextFileInv
<1>3. FileInv => OkMeansWritten
  BY DEF FileInv, OkMeansWritten, Chunked
<1> QED
  BY <1>1, <1>2, <1>3, DlInvariance, PTL DEF DlSpec

(* Once a shutdown of the pool has returned every fetch that was accepted   *)
(* is resolved, and what the worker was given for it is freed.              *)
THEOREM FuturesResolved == DlSpec => []NoFutureAbandoned
<1>1. IInv /\ DlInv => NoFutureAbandoned
  <2> SUFFICES ASSUME IInv, DlInv, stopped, NEW t \in Tasks, rc[t] = "ok"
               PROVE  /\ future[t] \in {"done", "freed"}
                      /\ dltask[t] = "freed" /\ promise[t] = "freed"
    BY DEF NoFutureAbandoned
  <2>1. Unsettled = {}
    BY IdleMeansSettled DEF IInv, StopInv
  <2>2. status[t] = "finished"
    BY <2>1 DEF Unsettled, DlInv, FetchInv
  <2> QED
    BY <2>2 DEF DlInv, FetchInv, Resolved
<1> QED
  BY <1>1, DlInvariance, PTL

-----------------------------------------------------------------------------
(* Futures: what holds for every number of threads and callbacks.           *)

FutureTypeOK ==
  /\ value \in Setters \cup {None}
  /\ watchers \in Seq(Callbacks)
  /\ pc \in [FutureThreads -> {"idle", "set", "fire", "spent", "wait", "timed", "poll", "watch"}]
  /\ firing \in [FutureThreads -> Seq(Callbacks)]
  /\ carry \in [FutureThreads -> Setters \cup {None}]
  /\ cb \in [Users -> Callbacks \cup {None}]
  /\ got \in [Users -> Setters \cup {None, TimedOut}]
  /\ won \subseteq Setters
  /\ state \in [Callbacks -> {"new", "calling", "accepted", "failed"}]
  /\ given \in [Callbacks -> Seq(Setters)]

(* Who can be in which call, and with which callback. *)
CallInv ==
  /\ \A s \in Setters : pc[s] \in {"idle", "set", "fire", "spent"}
  /\ \A u \in Users : pc[u] \notin {"set", "spent"}
  /\ \A th \in FutureThreads : firing[th] # <<>> => pc[th] = "fire"
  /\ \A u \in Users : pc[u] = "watch" => cb[u] \in Callbacks /\ state[cb[u]] = "calling"
  /\ \A u, v \in Users : pc[u] = "watch" /\ pc[v] = "watch" /\ cb[u] = cb[v] => u = v

(* A value is known only once somebody has won, and then nothing is queued  *)
(* and the winner is through with the future. *)
ValueInv ==
  /\ ~done => won = {}
  /\ done => /\ value \in Setters /\ won = {value}
             /\ pc[value] \in {"fire", "spent"} /\ watchers = <<>>
  /\ \A u \in Users : got[u] \in won \cup {None, TimedOut}
  /\ \A th \in FutureThreads : firing[th] # <<>> => carry[th] \in won
  /\ \A k \in Callbacks : \A i \in DOMAIN given[k] : given[k][i] \in won
  /\ free => done /\ FreedUntouched

(* A callback is in one place: queued, about to be invoked, or invoked.     *)
OnceInv ==
  /\ \A i, j \in DOMAIN watchers : watchers[i] = watchers[j] => i = j
  /\ \A a, b \in FutureThreads : \A i \in DOMAIN firing[a], j \in DOMAIN firing[b] :
       firing[a][i] = firing[b][j] => a = b /\ i = j
  /\ \A a \in FutureThreads : \A i \in DOMAIN firing[a], j \in DOMAIN watchers :
       firing[a][i] # watchers[j]
  /\ \A j \in DOMAIN watchers :
       given[watchers[j]] = <<>> /\ state[watchers[j]] = "accepted"
  /\ \A a \in FutureThreads : \A i \in DOMAIN firing[a] :
       given[firing[a][i]] = <<>> /\ state[firing[a][i]] = "accepted"
  /\ \A k \in Callbacks : given[k] # <<>> => Len(given[k]) = 1 /\ state[k] = "accepted"
  /\ \A k \in Callbacks : state[k] = "accepted" =>
       \/ given[k] # <<>>
       \/ \E j \in DOMAIN watchers : watchers[j] = k
       \/ \E a \in FutureThreads : \E i \in DOMAIN firing[a] : firing[a][i] = k

FutureIInv == FutureTypeOK /\ CallInv /\ ValueInv /\ OnceInv

-----------------------------------------------------------------------------
LEMMA FutureInitIInv == FutureInit => FutureIInv
<1> SUFFICES ASSUME FutureInit PROVE FutureIInv
  OBVIOUS
<1> USE DEF FutureInit
<1>1. FutureTypeOK
  BY DEF FutureTypeOK
<1>2. CallInv
  BY DEF CallInv, FutureThreads
<1>3. ValueInv
  BY DEF ValueInv
<1>4. OnceInv
  BY DEF OnceInv
<1> QED
  BY <1>1, <1>2, <1>3, <1>4 DEF FutureIInv

(* Callbacks are moved by these steps only.                                 *)
Places == <<watchers, firing, given>>

LEMMA OnceKept ==
  ASSUME OnceInv, UNCHANGED Places,
         \A k \in Callbacks : (state'[k] = "accepted") <=> (state[k] = "accepted"),
         watchers \in Seq(Callbacks), firing \in [FutureThreads -> Seq(Callbacks)]
  PROVE  OnceInv'
<1>1. \A j \in DOMAIN watchers : watchers[j] \in Callbacks
  OBVIOUS
<1>2. \A a \in FutureThreads : \A i \in DOMAIN firing[a] : firing[a][i] \in Callbacks
  OBVIOUS
<1> QED
  BY <1>1, <1>2 DEF OnceInv, Places

-----------------------------------------------------------------------------
(* Steps that move no callback. *)

(* A thread enters or leaves a call, goes to sleep or wakes up.             *)
Quiet == UNCHANGED <<done, value, carry, won, free, cb, state, Places>>

LEMMA QuietKeeps ==
  ASSUME FutureIInv, Quiet, FutureTypeOK',
         \A th \in FutureThreads : pc[th] = "fire" => pc'[th] = "fire" \/ firing[th] = <<>>,
         \A s \in Setters : pc'[s] \in {"idle", "set", "fire", "spent"}
                             /\ (pc[s] \in {"fire", "spent"} => pc'[s] \in {"fire", "spent"}),
         \A u \in Users : pc'[u] \notin {"set", "spent"}
                           /\ (pc'[u] = "watch" => pc[u] = "watch"),
         free => \A th \in FutureThreads : pc'[th] \in {"idle", "fire", "spent"},
         \A u \in Users : got'[u] \in {got[u], TimedOut} \cup won
  PROVE  FutureIInv'
<1> USE DEF Quiet, FutureIInv, Places
<1>1. CallInv'
  BY DEF CallInv, FutureTypeOK
<1>2. ValueInv'
  BY DEF ValueInv, FreedUntouched, FutureTypeOK
<1>3. OnceInv'
  BY DEF OnceInv
<1> QED
  BY <1>1, <1>2, <1>3

LEMMA CallsKeep ==
  ASSUME FutureIInv, NEW th \in FutureThreads,
         CallSet(th) \/ \E how \in {"wait", "timed", "poll"} : CallWait(th, how)
  PROVE  FutureIInv'
<1> USE FutureAssumption DEF FutureIInv, FutureTypeOK, CallInv, ValueInv, FutureGoto, shared, Quiet, Places, FutureThreads
<1>1. CASE CallSet(th)
  BY <1>1, QuietKeeps DEF CallSet
<1>2. ASSUME NEW how \in {"wait", "timed", "poll"}, CallWait(th, how) PROVE FutureIInv'
  BY <1>2, QuietKeeps DEF CallWait
<1> HIDE DEF FutureIInv
<1> QED
  BY <1>1, <1>2

LEMMA ReturnsKeep ==
  ASSUME FutureIInv, NEW th \in FutureThreads, SetAgain(th) \/ FireDone(th)
  PROVE  FutureIInv'
<1> USE FutureAssumption
    DEF FutureIInv, FutureTypeOK, CallInv, ValueInv, FutureGoto, shared, Quiet, Places, FutureThreads, FreedUntouched
<1>1. CASE SetAgain(th)
  BY <1>1, QuietKeeps DEF SetAgain
<1>2. CASE FireDone(th)
  BY <1>2, QuietKeeps DEF FireDone
<1> QED
  BY <1>1, <1>2

LEMMA WaitsKeep ==
  ASSUME FutureIInv, NEW u \in FutureThreads,
         \/ GetValue(u) \/ PollPending(u) \/ Sleep(u) \/ WaitTimesOut(u)
         \/ Tick(u) \/ TimedWake(u) \/ FutureSpuriousWake(u)
  PROVE  FutureIInv'
<1> USE FutureAssumption
    DEF FutureIInv, FutureTypeOK, CallInv, ValueInv, FutureGoto, shared, Quiet, Places, FutureThreads, FreedUntouched
<1>1. CASE GetValue(u)
  BY <1>1, QuietKeeps DEF GetValue
<1>2. CASE PollPending(u)
  BY <1>2, QuietKeeps DEF PollPending
<1>3. CASE Sleep(u)
  BY <1>3, QuietKeeps DEF Sleep
<1>4. CASE WaitTimesOut(u)
  BY <1>4, QuietKeeps DEF WaitTimesOut
<1>5. CASE Tick(u) \/ TimedWake(u) \/ FutureSpuriousWake(u)
  BY <1>5, QuietKeeps DEF Tick, TimedWake, FutureSpuriousWake
<1> QED
  BY <1>1, <1>2, <1>3, <1>4, <1>5

-----------------------------------------------------------------------------
(* Steps of watch.                                                          *)

(* A call of watch begins with a new callback, and may end with nothing     *)
(* queued: the callback is nowhere before and after. *)
LEMMA AskedKeeps ==
  ASSUME FutureIInv, NEW u \in Users,
         (\E k \in Callbacks : CallWatch(u, k)) \/ WatchNoMemory(u)
  PROVE  FutureIInv'
<1> USE FutureAssumption DEF FutureGoto, shared, Places, FutureThreads
<1>1. ASSUME NEW k \in Callbacks, CallWatch(u, k) PROVE FutureIInv'
  <2>1. FutureTypeOK' /\ CallInv'
    BY <1>1 DEF CallWatch, FutureIInv, FutureTypeOK, CallInv
  <2>2. ValueInv'
    BY <1>1 DEF CallWatch, FutureIInv, FutureTypeOK, ValueInv, FreedUntouched
  <2>3. OnceInv'
    <3>1. \A c \in Callbacks : (state'[c] = "accepted") <=> (state[c] = "accepted")
      BY <1>1 DEF CallWatch, FutureIInv, FutureTypeOK
    <3> QED
      BY <1>1, <3>1, OnceKept DEF CallWatch, FutureIInv, FutureTypeOK
  <2> QED
    BY <2>1, <2>2, <2>3 DEF FutureIInv
<1>2. CASE WatchNoMemory(u)
  <2>1. cb[u] \in Callbacks /\ state[cb[u]] = "calling"
    BY <1>2 DEF WatchNoMemory, FutureIInv, CallInv
  <2>2. FutureTypeOK' /\ CallInv'
    BY <1>2, <2>1 DEF WatchNoMemory, Answer, FutureIInv, FutureTypeOK, CallInv
  <2>3. ValueInv'
    BY <1>2 DEF WatchNoMemory, FutureIInv, FutureTypeOK, ValueInv, FreedUntouched
  <2>4. OnceInv'
    <3>1. \A c \in Callbacks : (state'[c] = "accepted") <=> (state[c] = "accepted")
      BY <1>2, <2>1 DEF WatchNoMemory, Answer, FutureIInv, FutureTypeOK
    <3> QED
      BY <1>2, <3>1, OnceKept DEF WatchNoMemory, FutureIInv, FutureTypeOK
  <2> QED
    BY <2>2, <2>3, <2>4 DEF FutureIInv
<1> QED
  BY <1>1, <1>2

(* A callback that a call of watch has brought is nowhere yet. *)
LEMMA Nowhere ==
  ASSUME FutureIInv, NEW u \in Users, pc[u] = "watch"
  PROVE  /\ cb[u] \in Callbacks /\ state[cb[u]] = "calling" /\ given[cb[u]] = <<>>
         /\ \A j \in DOMAIN watchers : watchers[j] # cb[u]
         /\ \A a \in FutureThreads : \A i \in DOMAIN firing[a] : firing[a][i] # cb[u]
<1>1. cb[u] \in Callbacks /\ state[cb[u]] = "calling"
  BY DEF FutureIInv, CallInv
<1> QED
  BY <1>1 DEF FutureIInv, OnceInv

(* Only the caller's callback changes its state. *)
LEMMA AnswerType ==
  ASSUME FutureTypeOK, NEW u \in Users, cb[u] \in Callbacks, Answer(u, "accepted")
  PROVE  /\ state' \in [Callbacks -> {"new", "calling", "accepted", "failed"}]
         /\ state'[cb[u]] = "accepted"
         /\ \A k \in Callbacks \ {cb[u]} : state'[k] = state[k]
         /\ cb' \in [Users -> Callbacks \cup {None}]
         /\ \A v \in Users \ {u} : cb'[v] = cb[v]
BY DEF Answer, FutureTypeOK

LEMMA LateKeeps ==
  ASSUME FutureIInv, NEW u \in Users, WatchDone(u)
  PROVE  FutureIInv'
<1> USE FutureAssumption DEF FutureGoto, shared, FutureThreads
<1> DEFINE k == cb[u]
<1>1. pc[u] = "watch" /\ done /\ firing[u] = <<>> /\ u \in FutureThreads
  BY DEF WatchDone, FutureIInv, CallInv
<1>2. /\ k \in Callbacks /\ state[k] = "calling" /\ given[k] = <<>>
      /\ \A j \in DOMAIN watchers : watchers[j] # k
      /\ \A a \in FutureThreads : \A i \in DOMAIN firing[a] : firing[a][i] # k
  BY <1>1, Nowhere
<1>3. /\ state' \in [Callbacks -> {"new", "calling", "accepted", "failed"}]
      /\ state'[k] = "accepted" /\ \A c \in Callbacks \ {k} : state'[c] = state[c]
      /\ cb' \in [Users -> Callbacks \cup {None}]
      /\ \A v \in Users \ {u} : cb'[v] = cb[v]
  BY <1>2, AnswerType DEF WatchDone, FutureIInv
<1>4. /\ firing'[u] = <<k>> /\ carry'[u] = value /\ pc'[u] = "fire"
      /\ \A a \in FutureThreads \ {u} : firing'[a] = firing[a] /\ carry'[a] = carry[a]
                                    /\ pc'[a] = pc[a]
      /\ UNCHANGED <<done, value, watchers, free, got, won, given>>
      /\ firing' \in [FutureThreads -> Seq(Callbacks)]
      /\ carry' \in [FutureThreads -> Setters \cup {None}]
      /\ pc' = [pc EXCEPT ![u] = "fire"]
  BY <1>1, <1>2 DEF WatchDone, FutureIInv, FutureTypeOK
<1>5. DOMAIN <<k>> = {1} /\ <<k>>[1] = k /\ <<k>> # <<>>
  OBVIOUS
<1>0. \A v \in Users \ {u} : pc[v] = "watch" => cb[v] # k
  BY <1>1 DEF FutureIInv, CallInv
<1> HIDE DEF k
<1>6. FutureTypeOK'
  BY <1>3, <1>4 DEF FutureIInv, FutureTypeOK
<1>7. CallInv'
  BY <1>0, <1>1, <1>2, <1>3, <1>4 DEF FutureIInv, CallInv, FutureTypeOK
<1>8. ValueInv'
  BY <1>1, <1>4 DEF FutureIInv, ValueInv, FreedUntouched
<1>9. OnceInv'
  <2>1. \A a \in FutureThreads : \A i \in DOMAIN firing'[a] :
          \/ a = u /\ i = 1 /\ firing'[a][i] = k
          \/ i \in DOMAIN firing[a] /\ firing'[a][i] = firing[a][i] /\ firing[a][i] # k
    BY <1>2, <1>4, <1>5
  <2>2. \A c \in Callbacks \ {k} : state'[c] = state[c]
    BY <1>3
  <2>3. \A a, b \in FutureThreads : \A i \in DOMAIN firing'[a], j \in DOMAIN firing'[b] :
          firing'[a][i] = firing'[b][j] => a = b /\ i = j
    BY <2>1 DEF FutureIInv, OnceInv
  <2>4. \A a \in FutureThreads : \A i \in DOMAIN firing'[a], j \in DOMAIN watchers :
          firing'[a][i] # watchers[j]
    BY <2>1, <1>2 DEF FutureIInv, OnceInv
  <2>5. \A j \in DOMAIN watchers : watchers[j] \in Callbacks /\ state'[watchers[j]] = "accepted"
    BY <1>2, <2>2 DEF FutureIInv, OnceInv, FutureTypeOK
  <2>6. \A a \in FutureThreads : \A i \in DOMAIN firing'[a] :
          given[firing'[a][i]] = <<>> /\ state'[firing'[a][i]] = "accepted"
    <3> TAKE a \in FutureThreads
    <3> TAKE i \in DOMAIN firing'[a]
    <3>1. CASE a = u /\ i = 1 /\ firing'[a][i] = k
      BY <3>1, <1>2, <1>3
    <3>2. CASE i \in DOMAIN firing[a] /\ firing'[a][i] = firing[a][i] /\ firing[a][i] # k
      <4>1. firing[a][i] \in Callbacks
        BY <3>2 DEF FutureIInv, FutureTypeOK
      <4> QED
        BY <3>2, <4>1, <2>2 DEF FutureIInv, OnceInv
    <3> QED
      BY <3>1, <3>2, <2>1
  <2>7. \A c \in Callbacks : given[c] # <<>> => Len(given[c]) = 1 /\ state'[c] = "accepted"
    BY <1>2, <2>2 DEF FutureIInv, OnceInv
  <2>8. \A c \in Callbacks : state'[c] = "accepted" =>
          \/ given[c] # <<>>
          \/ \E j \in DOMAIN watchers : watchers[j] = c
          \/ \E a \in FutureThreads : \E i \in DOMAIN firing'[a] : firing'[a][i] = c
    <3> TAKE c \in Callbacks
    <3>1. CASE c = k
      BY <3>1, <1>1, <1>4, <1>5
    <3>2. CASE c # k
      <4>1. ASSUME NEW a \in FutureThreads, NEW i \in DOMAIN firing[a]
            PROVE  firing'[a] = firing[a]
        BY <1>1, <1>4
      <4> QED
        BY <3>2, <2>2, <4>1 DEF FutureIInv, OnceInv
    <3> QED
      BY <3>1, <3>2
  <2> QED
    BY <1>4, <2>3, <2>4, <2>5, <2>6, <2>7, <2>8 DEF FutureIInv, OnceInv
<1> QED
  BY <1>6, <1>7, <1>8, <1>9 DEF FutureIInv

LEMMA QueuedKeeps ==
  ASSUME FutureIInv, NEW u \in Users, WatchQueue(u)
  PROVE  FutureIInv'
<1> USE FutureAssumption DEF FutureGoto, shared, FutureThreads
<1> DEFINE k == cb[u]
           n == Len(watchers)
<1>1. pc[u] = "watch" /\ ~done /\ u \in FutureThreads /\ pc' = [pc EXCEPT ![u] = "idle"]
      /\ UNCHANGED <<done, value, free, firing, carry, got, won, given>>
  BY DEF WatchQueue
<1>2. /\ k \in Callbacks /\ state[k] = "calling" /\ given[k] = <<>>
      /\ \A j \in DOMAIN watchers : watchers[j] # k
      /\ \A a \in FutureThreads : \A i \in DOMAIN firing[a] : firing[a][i] # k
  BY <1>1, Nowhere
<1>3. /\ state' \in [Callbacks -> {"new", "calling", "accepted", "failed"}]
      /\ state'[k] = "accepted" /\ \A c \in Callbacks \ {k} : state'[c] = state[c]
      /\ cb' \in [Users -> Callbacks \cup {None}]
      /\ \A v \in Users \ {u} : cb'[v] = cb[v]
  BY <1>2, AnswerType DEF WatchQueue, FutureIInv
<1>4. /\ watchers \in Seq(Callbacks) /\ n \in Nat /\ watchers' \in Seq(Callbacks)
      /\ DOMAIN watchers = 1 .. n /\ DOMAIN watchers' = 1 .. n + 1
      /\ watchers'[1] = k /\ \A j \in 1 .. n : watchers'[j + 1] = watchers[j]
  BY <1>2 DEF WatchQueue, FutureIInv, FutureTypeOK
<1>5. \A j \in DOMAIN watchers' :
        \/ j = 1 /\ watchers'[j] = k
        \/ j - 1 \in DOMAIN watchers /\ watchers'[j] = watchers[j - 1] /\ watchers[j - 1] # k
  <2> SUFFICES ASSUME NEW j \in 1 .. n + 1, j # 1
               PROVE  /\ j - 1 \in DOMAIN watchers /\ watchers'[j] = watchers[j - 1]
                      /\ watchers[j - 1] # k
    BY <1>4
  <2>1. j - 1 \in 1 .. n /\ (j - 1) + 1 = j
    BY <1>4
  <2> QED
    BY <2>1, <1>2, <1>4
<1>6. \A v \in Users \ {u} : pc[v] = "watch" => cb[v] # k
  BY <1>1 DEF FutureIInv, CallInv
<1> HIDE DEF k, n
<1>7. FutureTypeOK'
  BY <1>1, <1>3, <1>4 DEF FutureIInv, FutureTypeOK
<1>8. CallInv'
  BY <1>1, <1>2, <1>3, <1>6 DEF FutureIInv, CallInv, FutureTypeOK
<1>9. ValueInv'
  BY <1>1 DEF FutureIInv, ValueInv, FreedUntouched, FutureTypeOK
<1>10. OnceInv'
  <2>1. \A c \in Callbacks \ {k} : state'[c] = state[c]
    BY <1>3
  <2>2. \A i, j \in DOMAIN watchers' : watchers'[i] = watchers'[j] => i = j
    <3> TAKE i, j \in DOMAIN watchers'
    <3> HAVE watchers'[i] = watchers'[j]
    <3>1. i \in Int /\ j \in Int
      BY <1>4
    <3>2. CASE i = 1 \/ j = 1
      <4>1. \A l \in DOMAIN watchers' : watchers'[l] = k => l = 1
        BY <1>5
      <4> QED
        BY <1>4, <3>2, <4>1
    <3>3. CASE i # 1 /\ j # 1
      <4>1. i - 1 = j - 1
        BY <1>5, <3>3 DEF FutureIInv, OnceInv
      <4> QED
        BY <3>1, <4>1
    <3> QED
      BY <3>2, <3>3
  <2>3. \A a \in FutureThreads : \A i \in DOMAIN firing[a], j \in DOMAIN watchers' :
          firing[a][i] # watchers'[j]
    BY <1>2, <1>5 DEF FutureIInv, OnceInv
  <2>4. \A j \in DOMAIN watchers' :
          given[watchers'[j]] = <<>> /\ state'[watchers'[j]] = "accepted"
    <3> TAKE j \in DOMAIN watchers'
    <3>1. CASE j = 1 /\ watchers'[j] = k
      BY <3>1, <1>2, <1>3
    <3>2. CASE j - 1 \in DOMAIN watchers /\ watchers'[j] = watchers[j - 1]
               /\ watchers[j - 1] # k
      <4>1. watchers[j - 1] \in Callbacks
        BY <3>2, <1>4
      <4> QED
        BY <3>2, <4>1, <2>1 DEF FutureIInv, OnceInv
    <3> QED
      BY <3>1, <3>2, <1>5
  <2>5. \A a \in FutureThreads : \A i \in DOMAIN firing[a] :
          given[firing[a][i]] = <<>> /\ state'[firing[a][i]] = "accepted"
    <3> TAKE a \in FutureThreads
    <3> TAKE i \in DOMAIN firing[a]
    <3>1. firing[a][i] \in Callbacks /\ firing[a][i] # k
      BY <1>2 DEF FutureIInv, FutureTypeOK
    <3> QED
      BY <3>1, <2>1 DEF FutureIInv, OnceInv
  <2>6. \A c \in Callbacks : given[c] # <<>> => Len(given[c]) = 1 /\ state'[c] = "accepted"
    BY <1>2, <2>1 DEF FutureIInv, OnceInv
  <2>7. \A c \in Callbacks : state'[c] = "accepted" =>
          \/ given[c] # <<>>
          \/ \E j \in DOMAIN watchers' : watchers'[j] = c
          \/ \E a \in FutureThreads : \E i \in DOMAIN firing[a] : firing[a][i] = c
    <3> TAKE c \in Callbacks
    <3>1. CASE c = k
      <4>1. 1 \in DOMAIN watchers'
        BY <1>4
      <4> QED
        BY <3>1, <4>1, <1>4
    <3>2. CASE c # k
      <4>1. ASSUME NEW j \in DOMAIN watchers
            PROVE  j + 1 \in DOMAIN watchers' /\ watchers'[j + 1] = watchers[j]
        BY <1>4
      <4> QED
        BY <3>2, <2>1, <4>1 DEF FutureIInv, OnceInv
    <3> QED
      BY <3>1, <3>2
  <2> QED
    BY <1>1, <2>2, <2>3, <2>4, <2>5, <2>6, <2>7 DEF FutureIInv, OnceInv
<1> QED
  BY <1>7, <1>8, <1>9, <1>10 DEF FutureIInv

-----------------------------------------------------------------------------
(* The future is set: the queue moves to the setter. *)

LEMMA SetKeeps ==
  ASSUME FutureIInv, NEW s \in FutureThreads, SetFirst(s)
  PROVE  FutureIInv'
<1> USE FutureAssumption DEF FutureGoto, Detach, FutureThreads
<1>1. s \in Setters /\ ~done /\ pc[s] = "set" /\ firing[s] = <<>> /\ won = {}
  BY DEF SetFirst, FutureIInv, CallInv, ValueInv
<1>2. /\ done' = TRUE /\ value' = s /\ won' = {s} /\ watchers' = <<>>
      /\ pc' = [pc EXCEPT ![s] = "fire"]
      /\ firing' = [firing EXCEPT ![s] = watchers] /\ carry' = [carry EXCEPT ![s] = s]
      /\ UNCHANGED <<free, cb, got, state, given>>
  BY <1>1 DEF SetFirst
<1>3. ~free
  BY <1>1 DEF FutureIInv, ValueInv
<1>4. FutureTypeOK'
  BY <1>1, <1>2 DEF FutureIInv, FutureTypeOK
<1>5. CallInv'
  BY <1>1, <1>2 DEF FutureIInv, CallInv, FutureTypeOK
<1>6. \A a \in FutureThreads : firing[a] = <<>>
  BY <1>1 DEF FutureIInv, ValueInv
<1>7. \A k \in Callbacks : given[k] = <<>>
  <2> TAKE k \in Callbacks
  <2>1. given[k] \in Seq(Setters) /\ DOMAIN given[k] = 1 .. Len(given[k])
    BY LenProperties DEF FutureIInv, FutureTypeOK
  <2>2. \A i \in DOMAIN given[k] : FALSE
    BY <1>1 DEF FutureIInv, ValueInv
  <2>3. Len(given[k]) = 0
    <3> SUFFICES ASSUME Len(given[k]) # 0 PROVE FALSE
      OBVIOUS
    <3>1. 1 \in DOMAIN given[k]
      BY <2>1, LenProperties
    <3> QED
      BY <2>2, <3>1
  <2> QED
    BY <2>1, <2>3, EmptySeq
<1>8. ValueInv'
  <2>1. \A u \in Users : got'[u] \in won' \cup {None, TimedOut}
    BY <1>1, <1>2 DEF FutureIInv, ValueInv
  <2>2. \A a \in FutureThreads : firing'[a] # <<>> => carry'[a] \in won'
    BY <1>2, <1>6 DEF FutureIInv, FutureTypeOK
  <2>3. \A k \in Callbacks : \A i \in DOMAIN given'[k] : given'[k][i] \in won'
    BY <1>2, <1>7
  <2> QED
    BY <1>1, <1>2, <1>3, <2>1, <2>2, <2>3 DEF ValueInv, FutureIInv, FutureTypeOK
<1>9. OnceInv'
  <2>1. firing'[s] = watchers /\ \A a \in FutureThreads \ {s} : firing'[a] = <<>>
    BY <1>2, <1>6 DEF FutureIInv, FutureTypeOK
  <2>2. watchers' = <<>> /\ DOMAIN <<>> = {} /\ UNCHANGED <<given, state>>
    BY <1>2
  <2>3. \A a \in FutureThreads : \A i \in DOMAIN firing'[a] :
          a = s /\ i \in DOMAIN watchers /\ firing'[a][i] = watchers[i]
    BY <2>1, <2>2
  <2>4. \A k \in Callbacks : state'[k] = "accepted" =>
          \E a \in FutureThreads : \E i \in DOMAIN firing'[a] : firing'[a][i] = k
    BY <1>6, <1>7, <2>1, <2>2 DEF FutureIInv, OnceInv
  <2> QED
    BY <2>2, <2>3, <2>4, <1>7 DEF FutureIInv, OnceInv
<1> QED
  BY <1>4, <1>5, <1>8, <1>9 DEF FutureIInv

(* One callback is invoked, and leaves the place where it was. *)
LEMMA FireKeeps ==
  ASSUME FutureIInv, NEW th \in FutureThreads, Fire(th)
  PROVE  FutureIInv'
<1> DEFINE k == Head(firing[th])
           n == Len(firing[th])
<1>1. /\ pc[th] = "fire" /\ firing[th] # <<>>
      /\ given' = [given EXCEPT ![k] = Append(@, carry[th])]
      /\ firing' = [firing EXCEPT ![th] = Tail(@)]
      /\ UNCHANGED <<done, value, watchers, free, pc, carry, cb, got, won, state>>
  BY DEF Fire, shared
<1>2. /\ n \in Nat \ {0} /\ firing[th] \in Seq(Callbacks)
      /\ DOMAIN firing[th] = 1 .. n /\ k = firing[th][1] /\ k \in Callbacks
      /\ Tail(firing[th]) \in Seq(Callbacks)
      /\ DOMAIN Tail(firing[th]) = 1 .. n - 1
      /\ \A i \in 1 .. n - 1 : Tail(firing[th])[i] = firing[th][i + 1]
  <2>1. firing[th] \in Seq(Callbacks) /\ firing[th] # <<>>
    BY <1>1 DEF FutureIInv, FutureTypeOK
  <2> QED
    BY <2>1, HeadTailProperties, LenProperties, EmptySeq
<1>3. 1 \in DOMAIN firing[th] /\ given[k] = <<>> /\ state[k] = "accepted"
  <2>1. 1 \in DOMAIN firing[th]
    BY <1>2
  <2> QED
    BY <1>2, <2>1 DEF FutureIInv, OnceInv
<1>4. carry[th] \in won /\ carry[th] \in Setters
  BY <1>1 DEF FutureIInv, ValueInv, FutureTypeOK
<1>5. /\ given'[k] = <<carry[th]>> /\ given' \in [Callbacks -> Seq(Setters)]
      /\ \A c \in Callbacks \ {k} : given'[c] = given[c]
  BY <1>1, <1>2, <1>3, <1>4 DEF FutureIInv, FutureTypeOK
<1>6. /\ firing' \in [FutureThreads -> Seq(Callbacks)]
      /\ firing'[th] = Tail(firing[th])
      /\ \A a \in FutureThreads \ {th} : firing'[a] = firing[a]
  BY <1>1, <1>2 DEF FutureIInv, FutureTypeOK
<1>7. DOMAIN <<carry[th]>> = {1} /\ <<carry[th]>>[1] = carry[th]
      /\ Len(<<carry[th]>>) = 1 /\ <<carry[th]>> # <<>>
  OBVIOUS
<1> HIDE DEF k, n
(* What is still to be invoked was so before, and is not k. *)
<1>8. \A i \in DOMAIN firing'[th] :
        i + 1 \in DOMAIN firing[th] /\ firing'[th][i] = firing[th][i + 1] /\ i \in Int
  BY <1>2, <1>6
<1>9. \A a \in FutureThreads \ {th} : \A i \in DOMAIN firing[a] : firing[a][i] # k
  BY <1>2, <1>3 DEF FutureIInv, OnceInv
<1>10. \A i \in DOMAIN firing'[th] : firing'[th][i] # k
  <2> TAKE i \in DOMAIN firing'[th]
  <2>1. i + 1 # 1 /\ i + 1 \in DOMAIN firing[th]
    BY <1>2, <1>6, <1>8
  <2> QED
    BY <1>2, <1>3, <1>8, <2>1 DEF FutureIInv, OnceInv
<1>11. FutureTypeOK'
  BY <1>1, <1>5, <1>6 DEF FutureIInv, FutureTypeOK
<1>12. CallInv'
  BY <1>1, <1>6 DEF FutureIInv, CallInv
<1>13. ValueInv'
  <2>1. \A a \in FutureThreads : firing'[a] # <<>> => carry'[a] \in won'
    BY <1>1, <1>4, <1>6 DEF FutureIInv, ValueInv
  <2>2. \A c \in Callbacks : \A i \in DOMAIN given'[c] : given'[c][i] \in won'
    BY <1>1, <1>4, <1>5, <1>7 DEF FutureIInv, ValueInv
  <2> QED
    BY <1>1, <2>1, <2>2 DEF FutureIInv, ValueInv, FreedUntouched
<1>14. OnceInv'
  <2>1. \A a, b \in FutureThreads : \A i \in DOMAIN firing'[a], j \in DOMAIN firing'[b] :
          firing'[a][i] = firing'[b][j] => a = b /\ i = j
    <3> TAKE a, b \in FutureThreads
    <3> TAKE i \in DOMAIN firing'[a], j \in DOMAIN firing'[b]
    <3> HAVE firing'[a][i] = firing'[b][j]
    <3>1. CASE a = th /\ b = th
      <4>1. i + 1 = j + 1
        BY <3>1, <1>8 DEF FutureIInv, OnceInv
      <4> QED
        BY <3>1, <1>8, <4>1
    <3>2. CASE a # th /\ b = th
      BY <3>2, <1>6, <1>8 DEF FutureIInv, OnceInv
    <3>3. CASE a = th /\ b # th
      BY <3>3, <1>6, <1>8 DEF FutureIInv, OnceInv
    <3>4. CASE a # th /\ b # th
      BY <3>4, <1>6 DEF FutureIInv, OnceInv
    <3> QED
      BY <3>1, <3>2, <3>3, <3>4
  <2>2. \A a \in FutureThreads : \A i \in DOMAIN firing'[a] :
          /\ firing'[a][i] # k /\ firing'[a][i] \in Callbacks
          /\ \E j \in DOMAIN firing[a] : firing'[a][i] = firing[a][j]
    <3> TAKE a \in FutureThreads
    <3> TAKE i \in DOMAIN firing'[a]
    <3>1. firing'[a][i] \in Callbacks
      BY <1>6
    <3>2. CASE a = th
      BY <1>8, <1>10, <3>1, <3>2
    <3>3. CASE a # th
      BY <1>6, <1>9, <3>1, <3>3
    <3> QED
      BY <3>2, <3>3
  <2>3. \A j \in DOMAIN watchers : watchers[j] # k /\ watchers[j] \in Callbacks
    BY <1>2, <1>3 DEF FutureIInv, OnceInv, FutureTypeOK
  <2>4. \A a \in FutureThreads : \A i \in DOMAIN firing'[a], j \in DOMAIN watchers :
          firing'[a][i] # watchers[j]
    BY <2>2 DEF FutureIInv, OnceInv
  <2>5. \A j \in DOMAIN watchers :
          given'[watchers[j]] = <<>> /\ state[watchers[j]] = "accepted"
    BY <1>5, <2>3 DEF FutureIInv, OnceInv
  <2>6. \A a \in FutureThreads : \A i \in DOMAIN firing'[a] :
          given'[firing'[a][i]] = <<>> /\ state[firing'[a][i]] = "accepted"
    BY <1>5, <2>2 DEF FutureIInv, OnceInv
  <2>7. \A c \in Callbacks : given'[c] # <<>> => Len(given'[c]) = 1 /\ state[c] = "accepted"
    BY <1>3, <1>5, <1>7 DEF FutureIInv, OnceInv
  <2>8. \A c \in Callbacks : state[c] = "accepted" =>
          \/ given'[c] # <<>>
          \/ \E j \in DOMAIN watchers : watchers[j] = c
          \/ \E a \in FutureThreads : \E i \in DOMAIN firing'[a] : firing'[a][i] = c
    <3> TAKE c \in Callbacks
    <3> HAVE state[c] = "accepted"
    <3>0. CASE c = k
      BY <3>0, <1>5, <1>7
    <3>4. CASE c # k /\ (given[c] # <<>> \/ \E j \in DOMAIN watchers : watchers[j] = c)
      BY <3>4, <1>5
    <3> SUFFICES ASSUME c # k,
                        NEW a \in FutureThreads, NEW i \in DOMAIN firing[a], firing[a][i] = c
                 PROVE  \E j \in DOMAIN firing'[a] : firing'[a][j] = c
      BY <3>0, <3>4 DEF FutureIInv, OnceInv
    <3>1. CASE a = th
      <4>1. i \in 1 .. n /\ i # 1
        BY <1>2, <3>1
      <4>2. i - 1 \in 1 .. n - 1 /\ (i - 1) + 1 = i
        BY <1>2, <4>1
      <4> QED
        BY <1>2, <1>6, <3>1, <4>2
    <3>2. CASE a # th
      BY <1>6, <3>2
    <3> QED
      BY <3>1, <3>2
  <2> QED
    BY <1>1, <2>1, <2>4, <2>5, <2>6, <2>7, <2>8 DEF FutureIInv, OnceInv
<1> QED
  BY <1>11, <1>12, <1>13, <1>14 DEF FutureIInv

-----------------------------------------------------------------------------
(* The owner that frees the future has the value from the winner, so every  *)
(* setter is through, and nothing is queued. *)
LEMMA FreeKeeps ==
  ASSUME FutureIInv, NEW u \in Users, Free(u)
  PROVE  FutureIInv'
<1>1. /\ pc[u] = "idle" /\ got[u] \in Setters
      /\ \A v \in Users : pc[v] = "idle"
      /\ \A s \in Setters \ {got[u]} : pc[s] # "set"
      /\ free' = TRUE /\ watchers' = <<>>
      /\ UNCHANGED <<done, value, pc, firing, carry, cb, got, won, state, given>>
  BY DEF Free
<1>2. got[u] \in won
  BY <1>1, FutureAssumption DEF FutureIInv, ValueInv, FutureThreads
<1>3. done /\ won = {value} /\ watchers = <<>> /\ pc[got[u]] \in {"fire", "spent"}
  BY <1>2 DEF FutureIInv, ValueInv
<1>4. \A th \in FutureThreads : pc[th] \in {"idle", "fire", "spent"}
  BY <1>1, <1>3 DEF FutureIInv, CallInv, FutureThreads
<1>5. FutureTypeOK' /\ CallInv'
  BY <1>1, <1>3 DEF FutureIInv, FutureTypeOK, CallInv
<1>6. ValueInv'
  BY <1>1, <1>3, <1>4 DEF FutureIInv, ValueInv, FreedUntouched
<1>7. OnceInv'
  BY <1>1, <1>3, OnceKept DEF FutureIInv, FutureTypeOK, Places
<1> QED
  BY <1>5, <1>6, <1>7 DEF FutureIInv

LEMMA StutterKeeps == FutureIInv /\ UNCHANGED futureVars => FutureIInv'
<1> SUFFICES ASSUME FutureIInv, UNCHANGED futureVars PROVE FutureIInv'
  OBVIOUS
<1> USE DEF futureVars, FutureIInv
<1>1. FutureTypeOK' /\ CallInv'
  BY DEF FutureTypeOK, CallInv
<1>2. ValueInv'
  BY DEF ValueInv, FreedUntouched
<1>3. OnceInv'
  BY OnceKept DEF FutureTypeOK, Places
<1> QED
  BY <1>1, <1>2, <1>3

(* Only users watch. *)
LEMMA WatchersAreUsers ==
  ASSUME FutureIInv, NEW th \in FutureThreads, pc[th] = "watch"
  PROVE  th \in Users
BY DEF FutureIInv, CallInv, FutureThreads

LEMMA FutureNextIInv == FutureIInv /\ [FutureNext]_futureVars => FutureIInv'
<1> SUFFICES ASSUME FutureIInv, [FutureNext]_futureVars PROVE FutureIInv'
  OBVIOUS
<1>1. ASSUME NEW th \in FutureThreads, FutureCall(th) PROVE FutureIInv'
  <2>1. ASSUME NEW k \in Callbacks, CallWatch(th, k) PROVE FutureIInv'
    BY <2>1, AskedKeeps DEF CallWatch
  <2> QED
    BY <1>1, <2>1, CallsKeep DEF FutureCall
<1>2. ASSUME NEW th \in FutureThreads, FutureProceed(th) PROVE FutureIInv'
  <2>1. CASE WatchDone(th) \/ WatchQueue(th) \/ WatchNoMemory(th)
    <3>1. th \in Users
      BY <2>1, WatchersAreUsers DEF WatchDone, WatchQueue, WatchNoMemory
    <3> QED
      BY <2>1, <3>1, LateKeeps, QueuedKeeps, AskedKeeps
  <2>2. CASE SetAgain(th) \/ FireDone(th)
    BY <2>2, ReturnsKeep
  <2>3. CASE GetValue(th) \/ PollPending(th) \/ Sleep(th) \/ WaitTimesOut(th)
    BY <2>3, WaitsKeep
  <2>4. CASE SetFirst(th)
    BY <2>4, SetKeeps
  <2>5. CASE Fire(th)
    BY <2>5, FireKeeps
  <2> QED
    BY <1>2, <2>1, <2>2, <2>3, <2>4, <2>5 DEF FutureProceed
<1>3. ASSUME NEW u \in Users, Clock(u) \/ FutureSpuriousWake(u) PROVE FutureIInv'
  BY <1>3, WaitsKeep DEF Clock, FutureThreads
<1>4. ASSUME NEW u \in Users, Free(u) PROVE FutureIInv'
  BY <1>4, FreeKeeps
<1> QED
  BY <1>1, <1>2, <1>3, <1>4, StutterKeeps DEF FutureNext

LEMMA FutureInvariance == FutureSpec => []FutureIInv
BY FutureInitIInv, FutureNextIInv, PTL DEF FutureSpec

-----------------------------------------------------------------------------
(* Whatever the race between any number of setters, one of them is answered *)
(* 0, and every wait, poll and callback that learns a value learns that     *)
(* one's (mcpkg_thread_future.c, lines 76-104). *)
THEOREM OneValue == FutureSpec => []Agreement
<1>1. FutureIInv => Agreement
  <2> SUFFICES ASSUME FutureIInv PROVE Agreement
    OBVIOUS
  <2>1. \A s \in won : won = {s} /\ done
    BY DEF FutureIInv, ValueInv
  <2>2. \A k \in Callbacks : ToSet(given[k]) \subseteq won
    BY DEF FutureIInv, ValueInv, ToSet
  <2> QED
    BY <2>1, <2>2 DEF Agreement, FutureIInv, ValueInv
<1> QED
  BY FutureInvariance, <1>1, PTL

(* Freed by an owner that has the value, the future is not touched again,   *)
(* by however many other setters there are. *)
THEOREM FreedAlone == FutureSpec => []FreedUntouched
<1>1. FutureIInv => FreedUntouched
  BY DEF FutureIInv, ValueInv, FreedUntouched
<1> QED
  BY FutureInvariance, <1>1, PTL

(* A callback accepted by watch is in exactly one place: the queue, the     *)
(* hands of one thread, or done with; none runs twice or is forgotten       *)
(* (lines 92-103, 176-205). *)
THEOREM InvokedOnce == FutureSpec => []CallbackOnce
<1>1. FutureIInv => CallbackOnce
  <2> SUFFICES ASSUME FutureIInv, NEW k \in Callbacks
               PROVE  Occurrences(k) = IF state[k] = "accepted" THEN 1 ELSE 0
    BY DEF CallbackOnce
  <2> DEFINE Q == {i \in DOMAIN watchers : watchers[i] = k}
             F == {x \in UNION {{th} \X DOMAIN firing[th] : th \in FutureThreads} :
                     firing[x[1]][x[2]] = k}
  <2>1. Occurrences(k) = Len(given[k]) + Cardinality(Q) + Cardinality(F)
    BY DEF Occurrences
  <2>2. \A x : x \in F <=> \E th \in FutureThreads : \E i \in DOMAIN firing[th] :
                           x = <<th, i>> /\ firing[th][i] = k
    OBVIOUS
  <2>3. \A i : i \in Q <=> i \in DOMAIN watchers /\ watchers[i] = k
    OBVIOUS
  <2>4. given[k] \in Seq(Setters) /\ Len(<<>>) = 0
    BY DEF FutureIInv, FutureTypeOK
  <2>5. Cardinality({}) = 0 /\ \A x : Cardinality({x}) = 1
    BY FS_EmptySet, FS_Singleton
  <2> HIDE DEF F, Q
  <2>6. CASE state[k] # "accepted"
    <3>1. given[k] = <<>> /\ Q = {}
      BY <2>3, <2>6 DEF FutureIInv, OnceInv
    <3>2. F = {}
      BY <2>2, <2>6 DEF FutureIInv, OnceInv
    <3> QED
      BY <2>1, <2>4, <2>5, <2>6, <3>1, <3>2
  <2>7. CASE state[k] = "accepted" /\ given[k] # <<>>
    <3>1. Len(given[k]) = 1 /\ Q = {}
      BY <2>3, <2>7 DEF FutureIInv, OnceInv
    <3>2. F = {}
      BY <2>2, <2>7 DEF FutureIInv, OnceInv
    <3> QED
      BY <2>1, <2>5, <2>7, <3>1, <3>2
  <2>8. ASSUME state[k] = "accepted", NEW j \in DOMAIN watchers, watchers[j] = k
        PROVE  Occurrences(k) = 1
    <3>1. given[k] = <<>> /\ Q = {j}
      BY <2>3, <2>8 DEF FutureIInv, OnceInv
    <3>2. F = {}
      BY <2>2, <2>8 DEF FutureIInv, OnceInv
    <3>3. Cardinality(Q) = 1 /\ Cardinality(F) = 0 /\ Len(given[k]) = 0
      BY <2>4, <2>5, <3>1, <3>2
    <3> QED
      BY <2>1, <3>3
  <2>9. ASSUME state[k] = "accepted", NEW a \in FutureThreads, NEW i \in DOMAIN firing[a],
               firing[a][i] = k
        PROVE  Occurrences(k) = 1
    <3>1. given[k] = <<>> /\ Q = {}
      BY <2>3, <2>9 DEF FutureIInv, OnceInv
    <3>2. F = {<<a, i>>}
      BY <2>2, <2>9 DEF FutureIInv, OnceInv
    <3>3. Cardinality(Q) = 0 /\ Cardinality(F) = 1 /\ Len(given[k]) = 0
      BY <2>4, <2>5, <3>1, <3>2
    <3> QED
      BY <2>1, <3>3
  <2> QED
    BY <2>6, <2>7, <2>8, <2>9 DEF FutureIInv, OnceInv
<1> QED
  BY FutureInvariance, <1>1, PTL
=============================================================================
