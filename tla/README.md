# mcpkg in TLA+

A verification project for mcpkg, a package manager for Minecraft mods written
in C: TLA+ modules translated from the code of `libmcpkg`, TLC configurations
that check them on small instances, and theorems that TLAPS proves for every
value of their constants. Paths below are relative to `libmcpkg/`.

## 1. Inventory

| Component | State | Operations | What is hard | What makes it correct |
|---|---|---|---|---|
| thread pool, `threads/mcpkg_thread_pool.c` | ring of tasks, `len`, `active`, `shutting_down`, `joined`, workers, three condition variables, one mutex | new, submit, try_submit, drain, shutdown, free, worker_main, call_future | everything: producers, workers, drains, a shutdown and a free interleave; wake-ups are signalled one at a time | no task lost or run twice; FIFO; bounded; no wake-up lost; drain and shutdown return only in a quiet pool; free touches nothing in use; calls return |
| futures and promises, `threads/mcpkg_thread_future.c`, `_promise.c` | `done`, result, list of watchers | set, wait with and without timeout, poll, watch, free | set races with set, wait, watch, deadline and free | one value; each callback once; nobody left asleep; free as soon as the value is known |
| platform threads, `threads/posix`, `threads/win` | - | mutex, condition variable, thread, join | spurious wake-ups; a timed wait that returns early | seen through the modules that use them |
| downloader, `net/mcpkg_net_downloader.c` | a pool, a directory; per fetch a DlTask and a future | new, fetch, free; the task run by a worker | any step of a fetch fails; the downloader is freed under running fetches | err 0 means the whole file was written; every future resolves; nothing leaks |
| net client and URLs, `net/` | base URL, headers, rate-limit numbers | request, set_header, header and body callbacks, get_ratelimit | rate-limit fields are written, without a lock, by every thread that shares a client | whoever reads the limit alone gets the numbers of one answer |
| Modrinth client, `net/modrinth` | the page under construction | fetch a page, parse hits, choose a version, build a package (two builders) | choice among many versions; any request, parse or allocation fails | the best version that fits; a package per answered hit, in order; nothing leaks |
| files, `fs/` | the file system | write_all, cp_file, ln_sf, mkdir_p, cp_dir, rm_r, touch, unlink, zstd read and write | each system call may fail, or somebody else may change the tree between two | all or a reported error; copies cover the tree; removal stays in it |
| list and string list, `container/mcpkg_list.c`, `mcpkg_str_list.c` | array, size, capacity, two limits | push, add, pop, remove_at, set, resize, reserve, set_limits | growth up to limits in elements and in bytes | a sequence; size <= capacity; limits respected; ownership of elements |
| hash table, `container/mcpkg_hash.c` | slots with tombstones, used count, limits | set, get, pop, remove, rehash, iterate | long runs of insert and remove; bounded probing | a map; every stored key is found; no key twice |
| ordered map, `container/mcpkg_map.c` | red-black tree, limits, an iterator | set, get, remove, iterate, seek | rebalancing on delete; changes under an iteration | a sorted map; red-black shape; an iteration stays in order |
| Merkle tree and proofs, `crypto/mcpkg_merkle_*.c` | leaves | append, root, audit path, tree head, consistency nodes | sizes that are no power of two | proofs verify exactly what was appended |
| ledger pages, `crypto/mcpkg_repo_page.c`, `mcpkg_leaf_index_cache.c`, `mcpkg_manifest_and_sig.c` | a page over a borrowed tree, an index of leaves | begin, add, finish, sign | an add fails between its steps; two pages share a tree | a block covers exactly its leaves; the index points at them |
| message pack reader and writer, `mp/mcpkg_mp_util.c` | a buffer, a reader | a write per kind of value, a getter per kind | keys in any order, unknown, repeated; widths and signs of numbers | what is written is read back |
| message pack types, `mp/` | - | pack, unpack, new, free of 19 generated types | partial input, wrong types, optional fields, failing allocations | unpack(pack(x)) = x if it succeeds; a failed unpack frees what it made; success means a whole object |
| game metadata, `mc/` | lists of loaders, providers and version families; the current ones | seed, add, find, set current by object or by id, set URL and online, pack and unpack, shut down | who owns what: selections and copies that share strings | no object freed twice, lost or used after; a selection mirrors its entry |
| signatures and hashing, `crypto/` | - | keys, sign, verify, digests of files, random ids | - | - |
| portability, `win/`, `math/`, `threads/win` | - | shims for missing functions, saturating arithmetic | - | - |
| legacy commands, `api/`, `providers/`, `mcpkg/` | a package database file, a cache, links in the game directory | update, install, remove, upgrade, activate | several files change one after another | the database matches what is installed |
| code generator, `mpgen/` | - | YAML schemas to C | - | - |

Interactions. The downloader owns or borrows a pool, hands it a task per fetch
through `call_future`, and the worker completes the fetch's future; the task
calls the net client and `mcpkg_fs_write_all`. The Modrinth client makes the
requests of a page through one net client, which other threads may share, and
builds message pack types of the answers. A ledger page borrows a Merkle tree and
an index and appends to both. The registry of `mc/` keeps lists from `container/`
and stores its selections through the writer and reader of `mp/`. Only `threads/`
and its users run concurrently within the program; the file tree is shared with
other programs.

`api/`, `providers/`, `mcpkg/` (the command line) and `fs/mcpkg_fs.c` are not in
the build (`CMakeLists.txt` comments them out): they are the previous version of
the program, being replaced.

## 2. Plan

In the order in which they were taken up:

1. `ThreadPool` with its promise `TaskPool`: the one component where every hazard
   of concurrency is met, and under everything that downloads. Then
   `PoolStartup`, `PoolLife`, `Future`, and `Downloads`, which composes the pool,
   the futures and `write_all`.
2. Containers, each against the abstract structure it promises: `List` (a bounded
   sequence), `HashTable` (a finite map, with tombstones and bounded probing) and
   `OrderedMap` (the same map, by a red-black tree).
3. The ledger: `Merkle` (roots, audit paths, consistency nodes) and `Ledger`
   (pages, index and blocks over one tree, with failures between steps).
4. Formats and data: `MsgFormat`, `MsgTypes`, `MsgUnpack`, `MsgPack`; `Registry`.
5. The outside world: `FileTree` (system calls of several processes) and
   `NetClient` with `Modrinth` (threads that share a client, failing requests).
6. Proofs, of what matters most in each: the pool's invariants and its refinement
   of `TaskPool`, the making of a pool, the future's value and callbacks, what a
   download promises, the list's limits and ownership and its refinement of
   `StringSeq`, the hash table's and the ordered map's of `BoundedMap` and the shape
   of the latter's tree, the ledger (tiling, heads, audit paths, consistency proofs), memory in unpack and what its
   success means, who owns what in the registry and what its selections are, calls
   that share the file tree (mkdir_p, removals, links), all of the Modrinth client.

All six are done. What is left: what signatures cover (the chain of previous
hashes and heights that callers build, attestations and their verification); the
text of URLs; a proof that a copy or removal of a directory that meets nobody is
whole.

The abstract specifications are `TaskPool`, `StringSeq` and `BoundedMap`; the last
has two implementations. There is one run per component, with the deepest
properties only, but for the message types and the registry, which share `messages`,
and two runs for findings. Recursion over data is written as recursive
functions where something is proved about it (Merkle trees, red-black trees, tables
being rebuilt, paths, what is nested in an object), and otherwise stays in modules
that only TLC uses (packing and reading back nested objects).

## 3. Modules

### TaskPool, ThreadPool, ThreadPoolProofs

`TaskPool` is what the pool promises: a bounded FIFO queue, at most `NumWorkers`
started tasks, refusal only by a full or closed pool.

`ThreadPool` is `mcpkg_thread_pool.c` after a successful new. Its variables are
the fields of `struct McPkgThreadPool`; a wait set stands for each condition
variable; `wpc` and `cpc` say where the workers are in `worker_main` and the
clients in the function they call. The code between taking the mutex and
releasing it (or waiting on a condition variable) is one action: that is
justified because every field is accessed under the mutex. The exceptions have
actions of their own: the read and the write of `joined` (`JoinTest`, `JoinSet`,
and `JoinTwice` for two threads that join the same workers) and the read of
`shutting_down` in free (`FreeTest`). `SpuriousWake` lets any wait return
unprompted, as POSIX does. Clients call in any order, under one rule: free is
called when no other call is under way, and nobody calls after it. `status`,
`stopped` and `life` are history.

| Definition | Code |
|---|---|
| `WorkerWait`, `WorkerExit`, `WorkerPop`, `WorkerFinish` | worker_main |
| `SubmitRefuse`, `SubmitWait`, `SubmitPush` | submit |
| `TryRefuse`, `TryPush` | try_submit |
| `WaitDrained`, `DrainReturn` | drain |
| `ShutdownBegin`, `WaitDrained`, `ShutdownIdle`, `Join...` | shutdown, pool_join_workers |
| `FreeTest`, `Reclaim` | free |

`PoolLife` puts this module and `PoolStartup` (below) side by side, so that one run
covers the file: a behaviour is that of a pool being made or of one that was made.

Runs (`MCPoolLife`):

- `pool`: of a pool that was made, two workers, two clients, both of which may stop
  the pool, three tasks, ring of two. Two slots and three tasks make the ring wrap
  and fill; two stoppers overlap in shutdown and race on `joined`. Of a pool being
  made, four threads. Checked, under fairness: `NoTaskLost`, `QuietReturn`,
  `StoppedForGood`, `FreedUnused`, `NoWakeUpLost` (one conjunct per condition
  variable), `ImplementsLiveTaskPool` (the refinement of `TaskPool`, with its
  fairness), `CallsReturn` for submit, drain, shutdown and free, and the two
  properties of `PoolStartup`. No symmetry is used: liveness is checked. Three tasks
  never leave both clients asleep on a full ring; that wake-ups suffice for several
  submitters is the theorem `NoLostWakeup`.
- `pool_blocked_submit` (violation): three clients and a ring of one; see Findings.

Fairness: weak fairness of every worker and of every client that is inside a
call. A thread that can run eventually runs, a mutex is eventually granted, and
the functions of tasks return. No client is obliged to call anything and no
spurious wake-up is assumed. Weak fairness is enough because the enabled step of
a thread stays enabled or is replaced by another of the same thread, except in
`submit`, where a stream of other submitters may take the slot; with finitely
many tasks that stream ends, so `CallsReturn` says that no wake-up is lost, not
that the mutex is fair.

Proved for all constants that satisfy `PoolAssumption` (finite, non-empty set of
workers, finite set of clients, capacity at least one, any set of tasks):
`TypeOK`, `NoTaskLost`, `QuietReturn`, `StoppedForGood`, `FreedUnused` and
`NoWakeUpLost`, and `IsTaskPool`, that the pool implements the safety part of
`TaskPool`. No invariant is inductive alone. The inductive
invariant `IInv` says in addition that

- the `len` slots from `head` on hold distinct queued tasks, all of them, and
  `tail` follows them (`RingInv`): else a push could overwrite a task;
- running tasks are the jobs of running workers, one each (`JobInv`), and
  `active` counts these (`ActiveInv`): that is why two counters tell drain the
  truth and why `active` never falls below zero;
- a submitter's task belongs to nobody else (`ArgInv`);
- once a shutdown has passed its wait, or a worker has exited, the flag is set
  and the pool is empty (`StopInv`);
- a pool whose flag is set has a client waiting for its workers until they have
  all exited (`FreeInv`): that is why free may skip shutdown when the flag is set;
- only threads in the matching loop sleep on a condition variable (`SleepInv`).

One lemma per part and per kind of step; the arithmetic of the ring (`PosSlot`,
`PosInjective`) and the counting of threads (`FS_AddElement` and its like) are
separate lemmas. TLC checked `IInv` before it was proved. For the refinement the
abstract queue is read off the ring, the `len` slots from `head` on; a pop is
`Tail` of it and a push `Append` (`QueuePop`, `QueuePush`), and every other step
leaves it alone. Only checked, not proved: the fairness of `TaskPool` and all
other liveness.

### PoolStartup, PoolLife

`mcpkg_thread_pool_new`, with each allocation and each thread creation failing or
not. Its clean-up does not take the mutex, so here the mutex is explicit and a
worker's test of `shutting_down` and its wait are two steps. The run `pool` (four
threads) checks `NoWorkerOutlivesPool`, that a pool given up leaves no worker
behind, and that the clean-up ends unless a worker slept behind its broadcast. In
that excepted case (which `FailureEndsUnlessSlept` names, and which the model
reaches) new never returns: when a worker cannot be created, new sets the flag and
broadcasts without the mutex, a worker between its test and its wait sleeps
through both, and the join waits for it for ever
(threads/mcpkg_thread_pool.c:104). An allocation failure that makes free use a
NULL lock or worker array is the outcome `npc = "crashed"`. Fairness is that of
new and of every worker.

`ThreadPoolProofs` proves `NoWorkerOutlivesPool` for every number of threads. The
invariant it takes says that the first `created` workers exist, that none has left
before the flag is up, and which are gone by the place that new has reached.

### Future, ThreadPoolProofs

`mcpkg_thread_future.c` with its promise. A value is the name of its setter.
Callbacks are fired one by one after the lock is released (`Fire`); deadlines pass
at any time (`Tick`); a timed wait may return at any time (`TimedWake`), which is
what the POSIX layer does. `future`: two setters, two users, one of whom may free
the future once it has the value, two callbacks, under fairness of threads in
calls and of time: `Agreement`, `CallbackOnce`, `FreedUntouched`,
`CompletionReachesAll`. A future is freed while the setter that won may still be
firing callbacks, but not while the loser is inside set: who frees must know of
it.

The first three are proved, at the end of `ThreadPoolProofs`, for any number of
setters, users and callbacks. (Names that the pool has too begin with `Future`, so
that one module of proofs can extend both.) Their inductive invariant `FutureIInv` adds to the types where each thread can be in
which state of the future (`CallInv`), that a value, once there, is that of the one
setter that won, with everyone who learned it (`ValueInv`), and that a watcher is
queued, about to be called or called, in one place only (`OnceInv`).

### Downloads

`mcpkg_net_downloader.c` composed with `ThreadPool` (by EXTENDS: every step of the
pool is one of its steps), `mcpkg_thread_pool_call_future` and
`mcpkg_fs_write_all`. A task is a fetch; the body of the task runs between
`WorkerPop` and `WorkerFinish` in steps that may fail. Files hold the chunks
written, each tagged with its writer. `downloads`: two fetches into two files, two
workers, one slot, two chunks, under the pool's fairness: `OkMeansWritten`,
`NoFutureAbandoned`, `FetchResolves`. An output file is two chunks long because
one chunk cannot be half written. The request itself is `NetClient`'s business;
here it succeeds or fails.

`ThreadPoolProofs` proves, after what it proves of the pool, `NoFutureAbandoned`, and `OkMeansWritten` under the
hypothesis `OwnFiles` that no two fetches name one file (with two that do it is
false, see Findings), for any number of fetches and workers and any length of file.
Since every step of a download is a step of its pool, or none of it (`PoolSteps`),
the pool's invariant `IInv` holds here too and is used as it is: a fetch has at most
one worker (`OneRunner`). `DlInv` adds how far that worker is in the body of the
task, and what becomes of the future, the promise and the DlTask on the way;
`FileInv` says that a worker in its write loop has so far written the first chunks
of its own body and nothing else.

### StringSeq, List, ListProofs

`StringSeq` is what a string list promises: a sequence of strings, changed by one
call at a time or not at all. `List` is `mcpkg_list.c` as `mcpkg_str_list.c` uses
it: the array of pointers `data`, `len`, `cap`, the two limits, and the strings
that are allocated, each with its owner. Copies of a pointer that a shift leaves
behind the end are in `data` as in the code. A call is one action and covers both
layers (`Push` is `mcpkg_stringlist_push` with `mcpkg_list_push` and
`ensure_cap_for` inside it); every allocation may fail. The constants scale the
code's: `FirstCap` is the initial capacity (8 in the code), `ElemSize` the size of
a pointer, `CountLimits` and `ByteLimits` the limits set_limits may be given. A
write behind the array sets `overrun`, after which anything may happen: the model
stops there.

- `list`: four strings, first capacity two, limits {2, 4} elements and {4, 6, 8}
  bytes at two bytes each, sizes up to five. That is enough for growth by
  doubling, a doubling cut short by each limit, limits moved between, below and
  above length and capacity, and a resize that fails half-way. Checked:
  `OneOwner` and `ImplementsStringSeq`, which allows a write behind the array only
  where the byte limit leaves less room than the element limit, and says nothing of
  what comes after it.

Proved in `ListProofs` for every set of strings, every element size and all
limits: `ListTypeCorrect`, `LimitsKept`, `RoomIsThere` (only a byte limit that
leaves less room than the element limit leads to a write behind the array),
`StringsOwned`. The inductive invariant is the conjunction of these four with
`InRoom` (as long as nothing was overrun, `len <= cap`); each needs the others:
the array stays within its limit because set_limits looks at the capacity,
ownership needs the cells below `len` to exist, which needs the room. The proof
goes call by call, and reduces each call to one of five things it may do to the
cells. The refinement `IsStringSeq` is proved from that invariant: one lemma for
each thing a call may do to a sequence of cells (`SeqPut`, `SeqTake`, `SeqCut` and
the like), then one per call.

### BoundedMap, HashTable, HashTableProofs

`BoundedMap` is the finite map that `mcpkg_hash.h` (and `mcpkg_map.h`) describe,
with the answer of every call. `HashTable` is `mcpkg_hash.c`: a table is a function
from positions to slots (empty, tombstone or full); SipHash under a random key is
any function from keys to hash values, chosen in `Init`. `FindSlot`, `Rehash`,
`MaybeGrow` are the functions of those names, as operators that return what the
function returns and the table it leaves (`Outcome`); set runs through `MaybeGrow`,
`Stored` and `Retry` in one action, because a set that fails may have rebuilt the
table on the way. Tables of four and eight slots stand for any power of two
(`MinCap` is 8 and `MaxProbe` 64 in the code).

- `hash`: four keys and two values, hash values 1 and 7 (so that homes collide and
  probes wrap around in both tables), byte limits for four and eight slots, pair
  limits 3 and 4, probes of four slots. That reaches tables full of tombstones,
  growth by load and by a long probe, and refusals by each limit. Checked:
  `ImplementsBoundedMap`: a key found twice, or not at all, a `len` that is not
  exact or a limit passed would each answer some call otherwise than the map. In
  these tables a probe covers at least half of the slots, as in those of up to 128
  slots in the code; for larger ones see Findings.

`HashTableProofs` proves `ImplementsBoundedMap` for any keys, values, hash values,
first size, probe bound and limits, in two forms. `TableIsMap` has the hypothesis
`[]Short`, that no table gets more than twice as many slots as a probe visits (130
in the code, so 128): in a larger table a rebuilding, whose own probes have no bound,
may put a key where `find_slot` does not look, and the property is false (Findings).
`SmallTableIsMap` derives the hypothesis from byte limits that allow no larger table,
as those of the run do. The invariant (`Inv`) is what `find_slot` lives on: no key is
in two slots (`Unique`); from the home of every key in the table its slot is reached in
at most `MaxProbe` steps over slots that are not empty (`Reach`), which a tombstone
does not break and an empty slot would; `cap` and `len` are exact. A rebuilt table is
the value of a recursive function; that it holds the same pairs (`RehashedIs`) is proved
by induction over the positions already moved, and that none of them is out of reach
from `Short`: at most half of the slots, so at most `MaxProbe` + 1, are full.

### OrderedMap, OrderedMapProofs

`mcpkg_map.c`, pointer by pointer: a node is named by its key and is a record of
its children, parent, colour and value (keys are numbers, as the strings of any one
program can be numbered in the order of strcmp); the mirrored pairs of functions are one
operator with a side as parameter (`Rotated`, `Transplant`). A loop along pointers is
`Last`, the end of a walk. The two rebalancing loops are as many turns as there are
nodes (`InsertTurn`, `DeleteTurn`); a turn of a loop that is over changes nothing,
and that the loop is over by then is part of what is proved. An iteration is a pointer to the next node; programs may
insert and remove under it; the removal of the very node it points to leaves the
pointer dangling, and ends the iteration in the model.

- `map`: six keys, one value, pair limits 4 and 9, a byte limit of six nodes. Trees
  of six nodes are the smallest in which each of the mirrored cases of a removal is
  met. Checked: `RedBlack` (order, parents, no two red nodes in a row, equal black
  heights), `IteratorSound` (an iteration goes upwards and skips no key that was
  there all the time) and `ImplementsBoundedMap`.

`OrderedMapProofs` proves all three for any keys, values and limits, so for trees of
any size (`AlwaysRedBlack`, `IterationIsSound`, `TreeIsMap`). A tree given by pointers
cannot be taken apart by recursion; the proofs carry two witnesses instead, `sub`, the
set of the nodes that hang under each node, and `bh`, its black height. `Shape` says
that `sub` is what the links say and is ordered, `Balanced` adds the colours and
heights. The invariant `MapInv` says that some `sub` and `bh` make the tree `Balanced`,
that `size` counts its nodes, and that the iterator is at a node not above the key that
is due. The argument, in the order of the module:

- A rotation changes six links and regroups `sub` at two nodes (`RotatedIs`,
  `ShapeTurned`); with the colours of the two exchanged it keeps all heights
  (`ExchangeLevel`).
- Insertion: a new red leaf makes the tree `Growing`, red-black but for one red node
  that may have a red parent. A turn of the loop keeps that, and ends the loop or moves
  the node up, where more hangs under it (`InsertTurnIs`); so there are at most as many
  turns as nodes (`InsertFixupIs`).
- Removal: a node with one child is dropped (`DroppedShape`). One with two children
  goes by dropping its heir and giving the node the heir's key: the code's pointer work
  comes to just that (`ClearedIs`, `MovedIs`), whether or not the heir is the node's own
  child, and the heir's key lies where the node's lay (`HeirIs`, `RenamedShape`). If what
  was dropped is black the tree is `Lacking`, one black node short on one side of one
  node, where NULL may stand; `DeleteTurnIs` and `DeleteFixupIs` are as above.
- In a tree of this shape a search finds exactly the nodes (`FoundIs`), and begin, next
  and seek give the least key of all, of those above a node, and of those not below a
  key (`FirstIs`, `SuccessorIs`, `LowerBoundIs`).

The functions defined by recursion (`Last`, the loops, `LowerBound`, `BlackHeight`) are
shown to exist, by induction over walks that get ever closer to their end or over
numbers.

### Merkle, Ledger, LedgerProofs

`Merkle` has the functions of `mcpkg_merkle_b2b32.c` and
`mcpkg_merkle_consistency_b2b32.c` as operators on the sequence of leaves. The
hash of two digests is their pair, so digests are equal only if all that went into
them is. `Ledger` is `mcpkg_repo_page.c` with the tree and the index it borrows:
`leaves`, `index`, `page` (each page's state and `start_size`) and `blocks`, the
tree heads and consistency proofs handed out. `Add` leaves the leaf in the tree
when signing fails after it, and drops the index entry when that fails, as the
code does; a project that is empty or has a colon in it has no key. `Finish` may
be called again and pages may overlap; `orderly` is history and says whether they
were used one after another. A signature is not modelled, nor who checks it.

What the properties need beside the code is how a record is verified:
`PathRoot` hashes along an audit path, `CoverRoot` rebuilds a root from digests of
blocks that make up all leaves, with `Seen`, what a follower knows of an old tree.
A follower has to know more than the old root: the proof holds the cover of the
new leaves only, which is why `Seen` holds the cover of the old ones.

- `ledger`: two pages at a time, two packages of which one has a key, five
  leaves, two blocks. Five leaves give trees with an odd level at the bottom (3),
  and at two levels (5), and consistency proofs of one block and of several.
  Two packages make runs of equal leaves, in which doubling could be mistaken
  for a leaf. Checked: `PathsLeadToRoot` (also for leaves looked up in the index),
  `HeadCommits`, `BlocksExtendTheirStart`, `OrderlyPagesTile`. The first two depend
  on the leaves alone, and are looked at when everything else is in its initial
  state. Pages are interchangeable (symmetry).

`LedgerProofs` proves all four for any number of pages and packages and trees of any
size. `PagesTile` takes the invariant `InOrder`: as long as pages are used one after
another at most one is in use, it starts where the blocks end, and with no page open
the leaves end there too. The other three are statements about trees, proved for all
sequences of leaves:

- `LevelsAre`: the levels are rows, each half as long as the one below it (`IsAbove`),
  up to a row of one. The recursive functions of `Merkle` are shown to exist first,
  and so are those of `CoverRoot` and `Pow2`, or nothing would be known of them.
- `RootTells`, for `HeadsCommit`: two trees of one size and one root have, from the
  top down, the same rows (`AboveTells`).
- `PathLeads`, for `PathsVerify`: the k-th digest on the way up is the node above the
  leaf in row k. What the index says is then right by the invariant `Indexed`: each
  key's place holds a leaf of that key.
- `ProofsVerify`, for `ConsistencyVerifies`: a cover consists of aligned blocks of
  powers of two and holds every leaf (`CoverIs`), so each has a node in the row of
  its height (`BlockHasNode`); a full node of an old tree is a node of every tree
  that goes on from it (`FullNodesStay`), so all a follower knows is true of the new
  tree (`FollowerKnows`); and by induction over heights a value rebuilt from blocks
  that hold all leaves is the node, unless it lies inside a known block, where
  `CoverRoot` never looks (`ValuesAreNodes`). The invariant `BlocksDescribe` says that
  the root and proof of each block are those of the leaves it counts, whatever was
  appended since.

Inductions run over natural numbers by way of the least element of a set (`Least`).

### MsgFormat, MsgTypes, MsgUnpack, MessageProofs, MsgPack

`MsgFormat` is `mcpkg_mp_util.c`: what each write puts into a message, and what each
getter makes of a value, with integers of two scaled widths (`Half32`, `Half64`), so
that casts wrap. `MsgTypes` has the 19 types: what each pack writes, each unpack
reads and in what order, what each free releases. `MsgUnpack` runs an unpack, with
the unpacks of nested objects on a stack and all that is allocated in `live`; each
allocation may fail, and the clean-up is the code's. `MsgPack` puts both together. The
pack of `ledger.consistency` copies each hash of its list over a pointer on its stack
and then reads where that points: it crashes, or writes whatever it finds (`Packs` has
both outcomes).

- `messages` (`MCMessages`, where a behaviour is one of the message types or one of
  the registry): objects of every type with one field at an extreme (absent, empty,
  negative, at the ends of both widths, two elements), packed, then also reversed
  and with an unknown and a repeated key; and messages with one value anywhere
  dropped or replaced by nil or by bytes that are no message. Checked:
  `NothingLeaked` (when unpack returns only what it returns is allocated),
  `ReadsBack` (an object that comes back is complete and the one that was packed;
  a complete one whose signed and 64-bit numbers are neither negative nor 2^63 or more
  does come back, unless memory runs out), `SuccessIsWhole` (success comes with an
  object that has what its type requires, with the exception named there, see Findings). One field at a time is
  enough because the fields of a message are read independently of each other.
- `unknown_side` (violation): of packed objects, `DeclaredReadsBack`, that those come
  back too whose sides are values which the schemas declare; see Findings.

`MessageProofs` proves `NothingLeaked` and `SuccessIsWhole` for any types, any input
and whichever allocations fail, on the assumptions of `MsgUnpack`, which TLC evaluates
on the tables of `MsgTypes` and on every input of the run: that a type frees what its
reads allocate and nests only types that can be unpacked (`TypesAssumption`), that it
reads a field once and types do not nest in a circle, `Rank` being how deep a type
nests (`NestingAssumption`), and that arrays are sequences (`InputsAssumption`); and
on `ObjectsAreNotNull`, that NULL is no object.

For `NothingLeaked` the invariant says what a call in progress looks like (`Frames`),
that every call but the innermost waits for a nested object (`Asking`), and that
whatever is allocated is the reader, the cursor or a part of the object of a call in
progress, or a part of the object just returned (`AllHeld`).

`SuccessIsWhole` is about an object with all that is nested in it (`WholeObject`, over
the levels of `ObjectsWithin`). Its invariant, `WholeInv`, takes that apart along the
calls in progress: each reads a message as many levels inside the input as the call is
deep, and is of the type its caller asked for (`Placed`); its fields already read are
whole with all below them, the elements so far of the list it reads are, and those
fields not yet read name no object (`SoFar`); and what a call has just returned as a
success is whole (`Answered`). The exception needs the levels of the input: an
element that is no bytes must be found in a message that lies within it. `WholeFrom`
puts an object together, by induction on the level.

### Registry, MessageProofs

`mc/`: lists of providers, loaders and version families, the current one of each,
the objects a program holds itself, and the strings and version lists that objects
own. Providers and loaders have tables and code of one shape and are one operator
with a kind; families have their own. Packing and unpacking a selection goes
through `MsgFormat`. A program gives away only what it owns, and changes what the
registry owns through the pointers that find returns. `Import` is an unpack into a new
object or into any that is there, the program's or the registry's. In the second case
the code writes over the URL or list that the object owns, also if it then fails
(`LeftBy` is what it may leave behind); `lost` is history and counts the parts that
went so.

- `messages`: programs that work with one kind at a time (the kinds share no state),
  three addresses, lists of up to two, each allocation failing. Three objects are a
  list member, a selection and one in the program's hand, the cases of ownership.
  A program stops losing parts after the first (`MaxLost` is 1): a second loss is like
  it. Checked: `OneOwner` (every object has one owner and nothing is freed twice; what
  is allocated is what objects own and exactly what unpacks wrote over),
  `SelectionReadsBack` (what is packed of a selection unpacks as the same, but for a URL
  that is missing or empty, which comes back as the table's), `SelectedMirrors` (a
  selection by id has the flags and URL, or the snapshot flag and versions, of the entry,
  if no memory was short and its URL or list was there; whether a provider is online is
  as the table says, not as the entry does). Addresses are interchangeable (symmetry).

`MessageProofs` also proves all three for any finite set of addresses, lists of any
length and any tables and stored bytes that satisfy `RegistryAssumption`. The
invariant says that no object is in two places among lists, selections and the
program's hand (`Apart`), that an address is allocated exactly when one of these
places has it (`Had`), and that as many parts are allocated as the objects own and
unpacks have lost.
`SelectionsMirror` is about single steps and follows from it.

### FileTree, FileTreeProofs

`fs/mcpkg_fs_dir.c` and `mcpkg_fs_file.c` on POSIX, as system calls of processes
that share a tree: paths with links, inodes, files that stay open when their name
goes. A call is a stack of functions (`rm_r` and `cp_dir` recurse); between two
system calls anybody else may do anything. Directories are read in any order. There
is one action per system call.

- `files`: two processes that make one call each, of two dozen, on an empty tree, a
  grown one, one half copied and one where links stand in the place of directories,
  with links to directories, to files and to nowhere; one failing system call; paths
  of up to three names. Checked: `AloneMeansDone`, `MkdirsMeet`, `LinkSurvives`,
  `RemovalStaysBelow`. Two calls meet in every pair of system calls; three names are
  a directory, one in it and a file there. Processes are interchangeable (symmetry).

`FileTreeProofs` proves three of the four for any number of processes, any calls and
any trees. `FileAssumption` and `CallAssumption` say that a tree has the parents of
its entries and links no longer than `PathMax`, and that calls have the arguments
their functions take.

- `MkdirsMeet` is a property of the step in which mkdir_p fails: an entry in its way
  may be of no harm any more when the call has returned, as when a link to nowhere
  becomes a link to a directory. The lemmas are about path resolution: a walk that
  reaches a directory reaches it still when the tree has grown (`WalkStays`), and the
  walk along a path is that along all but its last name and one name more
  (`WalkLast`, by induction over two walks side by side). The invariant says that a
  mkdir_p is at some name of its path and that, while nothing was removed, there is
  an entry at the name before (`Making`); that entry is a directory, leads to one, or
  is in the way (`NowhereToGo`).
- `RemovalStaysBelow`: each rm_r on the stack is at a place below the one the call's
  path leads to (`Removal`), while no other process makes links. The entry that comes
  or goes in a step is a leaf, since a directory is removed only when it is empty; a
  path therefore leads where it led, to that entry, or nowhere. So no other step
  makes the path of an rm_r lead elsewhere, and no link comes to be at a directory
  that it is in, which is what would take it along between its lstat and its opendir.
- `LinkSurvives`: while several processes put links at one path, that path leads to
  one place q, by way of a part of the tree without q (`Steady`); so it leads there
  whichever link is at q, or none. From the first success on (`Linked`), either the
  link of one that has succeeded is at q (`Linker`), or nothing is, and somebody who
  took a link away is about to make his own. When all have returned nobody is about
  to make one, so one that succeeded has its link there.

Paths are sequences over `Names`; that `Walk` makes enough steps rests on links being
no longer than `PathMax`.

### NetClient, Modrinth, ModrinthProofs

`NetClient` is the client as its threads share it: the default headers, the three
rate-limit fields, requests with the callbacks that libcurl makes for each header
line and each piece of a body. Header lines of two answers may alternate.
`Modrinth` adds what a thread does with requests: a page with its own package
builder, or the JSON functions (hits, `choose_version_idx`, `build_pkg_meta`) in a
caller's hands, each allocation, transfer and parse failing or not; memory is the
set of objects each thread holds.

- `modrinth`: three threads: two requests under a reader of the rate limit; a page
  or the JSON route beside a request, a reader or a set_header; and every list of
  up to three versions to choose from. Three versions are needed because a choice
  kept wrongly shows only at the next but one. One failure. Checked:
  `ReadIsSnapshot`, `BestVersion`, `PageFollowsHits`, `NothingLost`.

`ModrinthProofs` proves `ReadIsSnapshot` for any number of threads and requests. The
promise is narrow, since nothing is locked: a reader that meets one whole answer,
whose lines no other answer crossed, reads its three numbers. The inductive
invariant says of every request that no other crossed so far that the fields its
past lines carried are those now in the client (`Fresh`), that the fields of the
last such answer that came in whole are all in the client until another begins,
and that the reader has read only these. Every step that touches neither is shown
at once (`Apart`).

It also proves the other three, on `AnswerAssumption` (the fields an answer may have),
for any number of threads, hits, versions and failures. `BestIsChosen`: one pass over
any list keeps a version that fits and that none of the list beats, so by `ChoiceInv`
every caller has such a choice. `PagesFollowHits` and `CallsKeepAccount` take `PageInv`:
of each call, the fields it has at each place in it (`Place`), that its packages are of
the hits passed and not missed, in their order (`Follows`), and which objects its thread
must and may hold there (`Owns`).

Of everything but the pool, the futures and the downloads only safety is checked,
and no fairness is assumed.

## 4. Findings

`pool_blocked_submit`: shutdown wakes idle workers but not the submitters that sleep
on a full ring; pops after it wake one each, and a woken submitter returns without
passing the wake-up on. With more sleeping submitters than tasks left, some sleep
for ever beside an empty ring.

`unknown_side`: of the side of a dependency the schema says "UNKNOWN=-1,NO=0,YES=1"
(`../mpgen/schemas/pkg/pkg_depends.yaml:13`), as it does of the client and server sides of
a package (`pkg_meta.yaml:23`, line 24), and both Modrinth builders set the side of
every dependency to -1 (`net/modrinth/mcpkg_modrinth_json.c:773`,
`mcpkg_net_modrinth_client.c:357`). It is written signed and read with `get_u32`, which
refuses negative numbers (`mp/mcpkg_mp_pkg_depends.c:249`, `mp/mcpkg_mp_util.c:524`).
So a package with a dependency from Modrinth can be packed and not unpacked.

The following were seen while modelling; no run is made for them. Where a model has
the behaviour it does what the code does, and a property that has to except it names
the exception in its comment.

Threads and downloads
- `call_future` sets `*out_f` before it submits and returns E_AGAIN with it set; the
  future is never completed, and the CallCtx and the promise leak
  (`threads/mcpkg_thread_pool.c:308`).
- Freeing a future drops the watchers still queued on it.
- Two fetches into one output file truncate and write it at the same time and both
  report success; `downloads` gives each its own. A write that fails leaves the
  truncated file.

Containers
- `ensure_cap_for` cuts the new capacity down to what the limits allow and returns OK
  even if that is less than it was asked for; push, add and resize then write behind
  the array. It takes a byte limit of less than `max_elements * elem_size`
  (`container/mcpkg_list.c:85`).
- rehash reinserts the slots in the order of their positions, without a bound on
  the probe; keys that had wrapped around to the front come first, so a run of keys
  may be laid out in another order than before and its last key end up farther from
  its home than a lookup goes. The key is still counted and iterated over, but get
  and contains do not find it (`container/mcpkg_hash.c:77`; in a table of 256 slots
  or more, by a run of more than 65 keys). The load factor does not count
  tombstones (line 132).
- A hash table that holds max_pairs pairs refuses to replace the value of a key it
  has (line 375); the ordered map does not.

Messages
- All signed numbers are read as unsigned ones, and unsigned ones of 2^63 and more are
  written as negative: such objects pack and cannot be unpacked. `ReadsBack` does not
  ask that they can.
- An element of a list of objects that is no bytes makes the list, and with it the
  object, come back NULL with the error code still zero
  (`mp/mcpkg_mp_pkg_file.c:307`).
- pack of `ledger.consistency` reads each 32-byte hash of its list into the space of
  a pointer and writes what that points at
  (`mp/mcpkg_mp_ledger_consistency.c:111`). `ReadsBack` speaks of the hashes it wrote,
  if it came back.

Game metadata
- Seeding appends to a list that has entries, and seeding again after it stopped
  half-way appends the first ones again (`mc/mcpkg_mc.c:143`).
- unpack overwrites the URL or the list that the object it is given owns, and only then
  looks for one to free (`mc/mcpkg_mc_providers.c:449`,
  `mc/mcpkg_mc_versions_msgpack.c:91`), though `mcpkg_mc_providers.h:108` asks for "an
  initialized provider" and nothing more. It does so also if it fails afterwards.
  `OneOwner` counts what is lost so.
- set_current_provider_id copies URL and flags of the entry, but not whether it is
  online: the selection is as the table says (`mc/mcpkg_mc.c:397`). `SelectedMirrors`
  demands the table's value.
- `mcpkg_mc_ascii_ieq` lowers only one of the two letters it compares, so a name with
  capitals does not equal itself.

Ledger
- The comment on `build_block_sig_payload` signs the height, but that function is
  never called and the height is stored after signing (`crypto/mcpkg_repo_page.c:256`).
- `mcpkg_merkle_b2b32_build_sth` numbers leaves from 1 and pages number them from 0.
- `mcpkg_repo_page.h` and `mcpkg_manifest_and_sig.h` declare the signer with its two
  outputs in different orders.
- The destructor that the leaf index gives its map has its arguments in the other
  order, so keys are not freed.

Files
- mkdir_p reports success when its last component is a file or a link to nowhere.
- A copy of a file onto itself empties it; a copy of a directory into itself goes on
  until paths are too long. `AloneMeansDone` excepts both, and copies for which links at the
  destination make two entries meet or lead one to nothing (`OntoItself`).
- Between the lstat and the opendir of rm_r another call that puts a link in the
  place of the directory, or makes a link on the way to it lead elsewhere, takes rm_r
  along (`fs/mcpkg_fs_dir.c:289`). One ln_sf suffices; `RemovalStaysBelow` therefore
  speaks of removals while no other process makes links.
- cp_dir leaves out an entry for which lstat fails and reports success
  (`fs/mcpkg_fs_dir.c:208`); where a system call failed `AloneMeansDone` says nothing.
- An error of readdir is taken for the end of the directory.

Net
- set_header changes the list of headers while requests of other threads copy it,
  without a lock; it is one step here.
- The page's package builder takes the first version of an answer, where the JSON
  route chooses the best, and drops the elements of a half-filled list of digests
  or dependencies without freeing them (`NothingLost` excepts these). A hit that
  has a slug but no project id is skipped by the JSON parser and not by the page.
- A text field whose copy fails is NULL without an error.

## 5. What is not modelled

- Signatures: what is signed, by whom, and who checks it; so neither the chain of
  previous hashes and heights. Digests are opaque, and how files are hashed and ids
  drawn is arithmetic on bytes.
- The text of URLs, the formatting of dumps, names of well-known directories.
- Merkle's reset, which nobody calls, and build_sth, which pages do not use.
- Memory exhaustion, except where the code branches on it into a state change.
- Weak memory: fields read without a lock are read as if stores were visible at
  once (`shutting_down`, `joined`, the rate limit).
- The undefined part of joining a thread twice beyond "ends here or goes on".
- Win32 and tinycthread back ends and the Windows half of `fs/`; POSIX is built.
- The legacy commands, the command line and `fs/mcpkg_fs.c`, which are not built;
  vendored code; the code generator, whose output is modelled.
- Liveness, ENABLED and what is defined by RECURSIVE operators are with TLC only: no
  theorem is stated about calls returning or nested objects that read back as they
  were packed (`ReadsBack`). Of calls on the file tree `AloneMeansDone` is only
  checked: it speaks of what recursive copies and removals do as a whole, which takes
  induction over the content of a directory.
