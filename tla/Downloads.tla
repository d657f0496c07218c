----------------------------- MODULE Downloads ------------------------------
(***************************************************************************)
(* libmcpkg/net/mcpkg_net_downloader.c on its own ThreadPool, through      *)
(* mcpkg_thread_pool_call_future: clients fetch files concurrently, each   *)
(* fetch is a task of the pool that downloads into memory, writes its      *)
(* output file (mcpkg_fs_write_all) and completes a future.                *)
(*                                                                         *)
(* A task of ThreadPool is one fetch together with its DlTask, its         *)
(* CallCtx and promise, and its future.  The future is the cell of module  *)
(* Future, seen here as pending, done or freed by its consumer.  The net   *)
(* client's answer is external: the request succeeds or fails.             *)
(***************************************************************************)
EXTENDS ThreadPool, Sequences, SequencesExt

CONSTANTS
  Paths,    \* the files written to
  OutFile,  \* the output file of each fetch, as a function on Tasks
  Chunks    \* how many write(2) calls it takes to write a body

ASSUME DownloadAssumption ==
  /\ \A c, d \in Stoppers : c = d
  /\ OutFile \in [Tasks -> Paths]
  /\ Chunks \in Nat \ {0}

VARIABLES
  future,   \* the future of each fetch
  err,      \* the error the fetch ended with
  dltask,   \* the DlTask: who frees it?
  promise,  \* the CallCtx and the promise
  rc,       \* what fetch returned
  bpc,      \* where a worker is in dl_task_run
  wrote,    \* how many chunks it has written
  file      \* the chunks of each file, by the fetch that wrote them

dlvars == <<future, err, dltask, promise, rc, bpc, wrote, file>>
allvars == <<vars, dlvars>>

DlInit ==
  /\ Init
  /\ future = [t \in Tasks |-> "none"]
  /\ err = [t \in Tasks |-> "none"]
  /\ dltask = [t \in Tasks |-> "none"]
  /\ promise = [t \in Tasks |-> "none"]
  /\ rc = [t \in Tasks |-> "none"]
  /\ bpc = [w \in Workers |-> "none"]
  /\ wrote = [w \in Workers |-> 0]
  /\ file = [p \in Paths |-> <<>>]

-----------------------------------------------------------------------------
(* mcpkg_net_downloader_fetch and mcpkg_thread_pool_call_future.  When      *)
(* memory runs out fetch returns before anything has happened.              *)

(* *out_f is set before the task is submitted.  (Op_Slip is Op with a       *)
(* programmer's slip, for the mutants of PROJECT.json.)                     *)
Fetch(c, t) ==
  /\ CallWithTask(c, t, "submit")
  /\ future' = [future EXCEPT ![t] = "pending"]
  /\ dltask' = [dltask EXCEPT ![t] = "held"]
  /\ promise' = [promise EXCEPT ![t] = "held"]
  /\ UNCHANGED <<err, rc, bpc, wrote, file>>

FetchQueued(c) ==
  /\ SubmitPush(c)
  /\ rc' = [rc EXCEPT ![arg[c]] = "ok"]
  /\ UNCHANGED <<future, err, dltask, promise, bpc, wrote, file>>

(* fetch frees its DlTask; call_future leaves its CallCtx, the promise and  *)
(* the future it has handed out as they are.                                *)
FetchRefused(c) ==
  /\ SubmitRefuse(c)
  /\ rc' = [rc EXCEPT ![arg[c]] = "again"]
  /\ dltask' = [dltask EXCEPT ![arg[c]] = "freed"]
  /\ UNCHANGED <<future, err, promise, bpc, wrote, file>>

(* A consumer waits for a future, takes the result and frees the future. *)
Collect(c, t) ==
  /\ cpc[c] = "idle"
  /\ future[t] = "done"
  /\ future' = [future EXCEPT ![t] = "freed"]
  /\ UNCHANGED <<vars, err, dltask, promise, rc, bpc, wrote, file>>

-----------------------------------------------------------------------------
(* call_tramp and dl_task_run, in the worker.                               *)

Body(w, from, to) == bpc[w] = from /\ bpc' = [bpc EXCEPT ![w] = to]

(* dl_task_run ends: the error is noted and everything but the result is    *)
(* freed.                                                                   *)
RunEnds(w, from, e) ==
  /\ Body(w, from, "set")
  /\ err' = [err EXCEPT ![job[w]] = e]
  /\ dltask' = [dltask EXCEPT ![job[w]] = "freed"]

Begin(w) ==
  /\ WorkerPop(w)
  /\ bpc' = [bpc EXCEPT ![w] = "request"]
  /\ UNCHANGED <<future, err, dltask, promise, rc, wrote, file>>

Request(w) ==
  /\ \/ Body(w, "request", "open") /\ UNCHANGED <<err, dltask>>
     \/ RunEnds(w, "request", "net")
  /\ UNCHANGED <<vars, future, promise, rc, wrote, file>>

(* mcpkg_fs_write_all: open with O_TRUNC, then write until nothing is left. *)
Open(w) ==
  /\ \/ /\ Body(w, "open", "write")
        /\ file' = [file EXCEPT ![OutFile[job[w]]] = <<>>]
        /\ UNCHANGED <<err, dltask>>
     \/ RunEnds(w, "open", "fs") /\ UNCHANGED file
  /\ UNCHANGED <<vars, future, promise, rc, wrote>>

(* A chunk goes to the writer's own offset; a gap left by another writer's  *)
(* truncation reads as zeros.                                               *)
PutChunk(content, at, t) ==
  [i \in 1 .. IF at > Len(content) THEN at ELSE Len(content) |->
     IF i = at THEN t ELSE IF i <= Len(content) THEN content[i] ELSE NoTask]

Write_ErrorsIgnored(w) ==
  /\ bpc[w] = "write" /\ wrote[w] < Chunks
  /\ wrote' = [wrote EXCEPT ![w] = @ + 1]
  /\ UNCHANGED <<bpc, err, dltask>>
  /\ \/ UNCHANGED file
     \/ file' = [file EXCEPT ![OutFile[job[w]]] = PutChunk(@, wrote[w] + 1, job[w])]
  /\ UNCHANGED <<vars, future, promise, rc>>

Write(w) ==
  /\ bpc[w] = "write" /\ wrote[w] < Chunks
  /\ \/ /\ file' = [file EXCEPT ![OutFile[job[w]]] = PutChunk(@, wrote[w] + 1, job[w])]
        /\ wrote' = [wrote EXCEPT ![w] = @ + 1]
        /\ UNCHANGED <<bpc, err, dltask>>
     \/ RunEnds(w, "write", "fs") /\ UNCHANGED <<file, wrote>>
  /\ UNCHANGED <<vars, future, promise, rc>>

Close(w) ==
  /\ bpc[w] = "write" /\ wrote[w] = Chunks
  /\ \/ Body(w, "write", "result") /\ UNCHANGED <<err, dltask>>
     \/ RunEnds(w, "write", "fs")
  /\ UNCHANGED <<vars, future, promise, rc, wrote, file>>

Result(w) ==
  /\ \E e \in {"ok", "nomem"} : RunEnds(w, "result", e)
  /\ UNCHANGED <<vars, future, promise, rc, wrote, file>>

Complete_OnlyOk(w) ==
  /\ Body(w, "set", "end")
  /\ future' = IF err[job[w]] = "ok" THEN [future EXCEPT ![job[w]] = "done"] ELSE future
  /\ promise' = [promise EXCEPT ![job[w]] = "freed"]
  /\ UNCHANGED <<vars, err, dltask, rc, wrote, file>>

(* mcpkg_thread_promise_set, promise_free. *)
Complete(w) ==
  /\ Body(w, "set", "end")
  /\ future' = [future EXCEPT ![job[w]] = "done"]
  /\ promise' = [promise EXCEPT ![job[w]] = "freed"]
  /\ UNCHANGED <<vars, err, dltask, rc, wrote, file>>

End(w) ==
  /\ Body(w, "end", "none")
  /\ WorkerFinish(w)
  /\ wrote' = [wrote EXCEPT ![w] = 0]
  /\ UNCHANGED <<future, err, dltask, promise, rc, file>>

-----------------------------------------------------------------------------
Download(w) ==
  \/ Begin(w) \/ Request(w) \/ Open(w) \/ Write(w) \/ Close(w) \/ Result(w)
  \/ Complete(w) \/ End(w)
  \/ (WorkerWait(w) \/ WorkerExit(w)) /\ UNCHANGED dlvars

(* mcpkg_net_downloader_free shuts its own pool down and frees it; a pool   *)
(* lent by cfg->pool is shut down and freed by its owner, at any time.      *)
(* There is one owner, so nobody joins the workers twice.                   *)
FreeDownloader(c) ==
  (CallShutdown(c) \/ CallFree(c)) /\ UNCHANGED dlvars

DlProceed(c) ==
  \/ FetchQueued(c) \/ FetchRefused(c)
  \/ /\ \/ SubmitWait(c) \/ WaitDrained(c)
        \/ ShutdownBegin(c) \/ ShutdownIdle(c)
        \/ JoinSkip(c) \/ JoinTest(c) \/ JoinSet(c) \/ JoinDone(c)
        \/ FreeTest(c) \/ Reclaim(c)
     /\ UNCHANGED dlvars

DlNext ==
  \/ \E w \in Workers : Download(w)
  \/ \E c \in Clients :
       \/ \E t \in Tasks : Fetch(c, t) \/ Collect(c, t)
       \/ FreeDownloader(c) \/ DlProceed(c)
  \/ SpuriousWake /\ UNCHANGED dlvars

DlSpec == DlInit /\ [][DlNext]_allvars

(* As in ThreadPool; requests and writes return. *)
DlFairSpec ==
  /\ DlSpec
  /\ \A w \in Workers : WF_allvars(Download(w))
  /\ \A c \in Clients : WF_allvars(DlProceed(c))

-----------------------------------------------------------------------------
(* A fetch whose future resolves with err 0 has its whole body in its file  *)
(* and nothing else, whatever failed or ran beside it, provided no two      *)
(* fetches write the same file (lines 198-258; the run chooses OutFile).    *)
OkMeansWritten ==
  \A t \in Tasks :
    err[t] = "ok" => file[OutFile[t]] = [i \in 1 .. Chunks |-> t]

(* Freeing the downloader drains its pool (lines 139-148): no future that a *)
(* successful fetch handed out is left pending by it, and what the worker   *)
(* and its trampoline were given, the DlTask and the promise, is freed by   *)
(* then (lines 211-245).                                                    *)
NoFutureAbandoned ==
  stopped => \A t \in Tasks :
    rc[t] = "ok" => /\ future[t] \in {"done", "freed"}
                    /\ dltask[t] = "freed" /\ promise[t] = "freed"

(* Every future of a successful fetch resolves, also with an error. *)
FetchResolves ==
  \A t \in Tasks : rc[t] = "ok" ~> future[t] \in {"done", "freed"}

=============================================================================
