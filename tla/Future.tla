------------------------------- MODULE Future -------------------------------
(***************************************************************************)
(* libmcpkg/threads/mcpkg_thread_future.c and mcpkg_thread_promise.c: a    *)
(* cell that is completed once, on which threads wait, wait with a         *)
(* deadline, poll and register callbacks.  A promise is a pointer to its   *)
(* future, and promise_set is future_set.                                  *)
(*                                                                         *)
(* Every access to the future's fields is made under f->lock, except by    *)
(* free, so the code between two releases of the lock is one action.  The  *)
(* callbacks run after the lock is released, in the thread that set the    *)
(* future, or in the one that registered them too late to be queued.       *)
(***************************************************************************)
EXTENDS Naturals, FiniteSets, Sequences, SequencesExt

CONSTANTS
  Setters,    \* the threads that complete the future, each at most once
  Users,      \* the threads that wait, poll and watch
  Owners,     \* the users that may free the future
  Callbacks,  \* the callbacks registered, each by one call of watch
  None,       \* no value, no callback
  TimedOut    \* what a wait that returns MCPKG_THREAD_E_TIMEOUT yields

FutureThreads == Setters \cup Users

ASSUME FutureAssumption ==
  /\ Setters \cap Users = {}
  /\ Owners \subseteq Users
  /\ None \notin FutureThreads \cup Callbacks
  /\ TimedOut \notin FutureThreads \cup {None}

VARIABLES
  done,      \* f->done
  value,     \* f->result and f->err: the name of the thread that set them
  watchers,  \* f->watchers, newest first
  cv,        \* threads asleep on f->cv
  pc,        \* the call each thread is in
  late,      \* threads in a timed wait whose deadline has passed
  firing,    \* callbacks a thread has still to invoke
  carry,     \* the value a thread invokes them with
  cb,        \* the callback of a thread's call of watch
  got,       \* what a thread's last wait, or a poll that found it done, gave
  won,       \* history: the setters that were answered 0
  free,      \* has the future been freed?
  state,     \* history: what became of each callback
  given      \* history: the values each callback was invoked with

shared == <<done, value, watchers, cv, free>>
futureVars == <<done, value, watchers, cv, pc, late, firing, carry, cb, got,
                won, free, state, given>>

(* mcpkg_thread_promise_new, mcpkg_thread_future_new. *)
FutureInit ==
  /\ done = FALSE /\ value = None /\ watchers = <<>> /\ cv = {}
  /\ pc = [th \in FutureThreads |-> "idle"]
  /\ late = {}
  /\ firing = [th \in FutureThreads |-> <<>>]
  /\ carry = [th \in FutureThreads |-> None]
  /\ cb = [u \in Users |-> None]
  /\ got = [u \in Users |-> None]
  /\ won = {}
  /\ free = FALSE
  /\ state = [k \in Callbacks |-> "new"]
  /\ given = [k \in Callbacks |-> <<>>]

FutureGoto(th, there) == pc' = [pc EXCEPT ![th] = there]

-----------------------------------------------------------------------------
(* Calls.  No call is made on a freed future; a setter calls set once.      *)

CallSet(s) ==
  /\ s \in Setters /\ pc[s] = "idle" /\ ~free
  /\ FutureGoto(s, "set")
  /\ UNCHANGED <<shared, late, firing, carry, cb, got, won, state, given>>

CallWait(u, how) ==
  /\ u \in Users /\ pc[u] = "idle" /\ ~free
  /\ how \in {"wait", "timed", "poll"}
  /\ FutureGoto(u, how)
  /\ UNCHANGED <<shared, late, firing, carry, cb, got, won, state, given>>

CallWatch(u, k) ==
  /\ u \in Users /\ pc[u] = "idle" /\ ~free
  /\ state[k] = "new"
  /\ state' = [state EXCEPT ![k] = "calling"]
  /\ cb' = [cb EXCEPT ![u] = k]
  /\ FutureGoto(u, "watch")
  /\ UNCHANGED <<shared, late, firing, carry, got, won, given>>

-----------------------------------------------------------------------------
(* mcpkg_thread_future_set.  (Op_Slip is Op with a programmer's slip, for   *)
(* the mutants of PROJECT.json.)                                            *)

SetAgain_Overwrites(s) ==
  /\ pc[s] = "set" /\ done
  /\ value' = s
  /\ FutureGoto(s, "spent")
  /\ UNCHANGED <<done, watchers, cv, free, late, firing, carry, cb, got, won,
                 state, given>>

(* Somebody has set it: MCPKG_THREAD_E_AGAIN. *)
SetAgain(s) ==
  /\ pc[s] = "set" /\ done
  /\ FutureGoto(s, "spent")
  /\ UNCHANGED <<shared, late, firing, carry, cb, got, won, state, given>>

Detach(s) ==
  /\ firing' = [firing EXCEPT ![s] = watchers]
  /\ carry' = [carry EXCEPT ![s] = s]
  /\ watchers' = <<>>

SetFirst_InTwo(s) ==
  /\ pc[s] = "set"
  /\ \/ ~done /\ UNCHANGED <<pc, firing, carry, watchers>>
     \/ value = s /\ FutureGoto(s, "fire") /\ Detach(s)
  /\ done' = TRUE /\ value' = s /\ cv' = {}
  /\ won' = won \cup {s}
  /\ UNCHANGED <<free, late, cb, got, state, given>>

SetFirst_NoBroadcast(s) ==
  /\ pc[s] = "set" /\ ~done
  /\ done' = TRUE
  /\ value' = s
  /\ Detach(s)
  /\ won' = won \cup {s}
  /\ FutureGoto(s, "fire")
  /\ UNCHANGED <<cv, free, late, cb, got, state, given>>

SetFirst_KeepsList(s) ==
  /\ pc[s] = "set" /\ ~done
  /\ done' = TRUE
  /\ value' = s
  /\ firing' = [firing EXCEPT ![s] = watchers]
  /\ carry' = [carry EXCEPT ![s] = s]
  /\ cv' = {}
  /\ won' = won \cup {s}
  /\ FutureGoto(s, "fire")
  /\ UNCHANGED <<watchers, free, late, cb, got, state, given>>

SetFirst(s) ==
  /\ pc[s] = "set" /\ ~done
  /\ done' = TRUE
  /\ value' = s
  /\ Detach(s)
  /\ cv' = {}
  /\ won' = won \cup {s}
  /\ FutureGoto(s, "fire")
  /\ UNCHANGED <<free, late, cb, got, state, given>>

(* One round of mcpkg_thread_future_invoke_watchers, or the direct call of  *)
(* mcpkg_thread_future_watch; the future itself is not touched.             *)
Fire(th) ==
  /\ pc[th] = "fire" /\ firing[th] # <<>>
  /\ given' = [given EXCEPT ![Head(firing[th])] = Append(@, carry[th])]
  /\ firing' = [firing EXCEPT ![th] = Tail(@)]
  /\ UNCHANGED <<shared, pc, late, carry, cb, got, won, state>>

FireDone(th) ==
  /\ pc[th] = "fire" /\ firing[th] = <<>>
  /\ FutureGoto(th, IF th \in Setters THEN "spent" ELSE "idle")
  /\ UNCHANGED <<shared, late, firing, carry, cb, got, won, state, given>>

-----------------------------------------------------------------------------
(* mcpkg_thread_future_wait and mcpkg_thread_future_poll.                   *)

GetValue(u) ==
  /\ pc[u] \in {"wait", "timed", "poll"} /\ u \notin cv
  /\ done
  /\ got' = [got EXCEPT ![u] = value]
  /\ late' = late \ {u}
  /\ FutureGoto(u, "idle")
  /\ UNCHANGED <<shared, firing, carry, cb, won, state, given>>

PollPending(u) ==
  /\ pc[u] = "poll" /\ ~done
  /\ FutureGoto(u, "idle")
  /\ UNCHANGED <<shared, late, firing, carry, cb, got, won, state, given>>

Sleep(u) ==
  /\ \/ pc[u] = "wait"
     \/ pc[u] = "timed" /\ u \notin late
  /\ u \notin cv /\ ~done
  /\ cv' = cv \cup {u}
  /\ UNCHANGED <<done, value, watchers, free, pc, late, firing, carry, cb, got,
                 won, state, given>>

WaitTimesOut(u) ==
  /\ pc[u] = "timed" /\ u \notin cv
  /\ ~done /\ u \in late
  /\ got' = [got EXCEPT ![u] = TimedOut]
  /\ late' = late \ {u}
  /\ FutureGoto(u, "idle")
  /\ UNCHANGED <<shared, firing, carry, cb, won, state, given>>

(* The deadline of a timed wait passes. *)
Tick(u) ==
  /\ pc[u] = "timed" /\ u \notin late
  /\ late' = late \cup {u}
  /\ UNCHANGED <<shared, pc, firing, carry, cb, got, won, state, given>>

(* cond_timedwait returns by itself, at its deadline or before: on POSIX    *)
(* the deadline is a CLOCK_MONOTONIC time given to a condition variable of  *)
(* the default clock, for which it lies in the past.                        *)
TimedWake(u) ==
  /\ pc[u] = "timed" /\ u \in cv
  /\ cv' = cv \ {u}
  /\ UNCHANGED <<done, value, watchers, free, pc, late, firing, carry, cb, got,
                 won, state, given>>

FutureSpuriousWake(u) ==
  /\ pc[u] = "wait" /\ u \in cv
  /\ cv' = cv \ {u}
  /\ UNCHANGED <<done, value, watchers, free, pc, late, firing, carry, cb, got,
                 won, state, given>>

-----------------------------------------------------------------------------
(* mcpkg_thread_future_watch.                                               *)

Answer(u, s) ==
  /\ state' = [state EXCEPT ![cb[u]] = s]
  /\ cb' = [cb EXCEPT ![u] = None]

(* Too late to be queued: the callback is invoked by the caller. *)
WatchDone(u) ==
  /\ pc[u] = "watch" /\ done
  /\ firing' = [firing EXCEPT ![u] = <<cb[u]>>]
  /\ carry' = [carry EXCEPT ![u] = value]
  /\ Answer(u, "accepted")
  /\ FutureGoto(u, "fire")
  /\ UNCHANGED <<shared, late, got, won, given>>

WatchQueue(u) ==
  /\ pc[u] = "watch" /\ ~done
  /\ watchers' = <<cb[u]>> \o watchers
  /\ Answer(u, "accepted")
  /\ FutureGoto(u, "idle")
  /\ UNCHANGED <<done, value, cv, free, late, firing, carry, got, won, given>>

(* malloc fails: MCPKG_THREAD_E_NOMEM. *)
WatchNoMemory(u) ==
  /\ pc[u] = "watch" /\ ~done
  /\ Answer(u, "failed")
  /\ FutureGoto(u, "idle")
  /\ UNCHANGED <<shared, late, firing, carry, got, won, given>>

(* mcpkg_thread_future_free, by an owner that has been given the value and  *)
(* while nobody else is in a call, except the setter it has the value from: *)
(* what that one is doing it cannot know.  Watchers still queued are        *)
(* dropped without being invoked.                                           *)
Free(u) ==
  /\ u \in Owners /\ pc[u] = "idle" /\ ~free
  /\ got[u] \in Setters
  /\ \A v \in Users : pc[v] = "idle"
  /\ \A s \in Setters \ {got[u]} : pc[s] # "set"
  /\ free' = TRUE
  /\ watchers' = <<>>
  /\ UNCHANGED <<done, value, cv, pc, late, firing, carry, cb, got, won, state,
                 given>>

-----------------------------------------------------------------------------
FutureCall(th) ==
  \/ CallSet(th)
  \/ \E how \in {"wait", "timed", "poll"} : CallWait(th, how)
  \/ \E k \in Callbacks : CallWatch(th, k)

FutureProceed(th) ==
  \/ SetAgain(th) \/ SetFirst(th) \/ Fire(th) \/ FireDone(th)
  \/ GetValue(th) \/ PollPending(th) \/ Sleep(th) \/ WaitTimesOut(th)
  \/ WatchDone(th) \/ WatchQueue(th) \/ WatchNoMemory(th)

Clock(u) == Tick(u) \/ TimedWake(u)

FutureNext ==
  \/ \E th \in FutureThreads : FutureCall(th) \/ FutureProceed(th)
  \/ \E u \in Users : Clock(u) \/ FutureSpuriousWake(u) \/ Free(u)

FutureSpec == FutureInit /\ [][FutureNext]_futureVars

(* Threads inside a call go on, callbacks return, time passes.              *)
FutureFairSpec ==
  /\ FutureSpec
  /\ \A th \in FutureThreads : WF_futureVars(FutureProceed(th))
  /\ \A u \in Users : WF_futureVars(Tick(u)) /\ WF_futureVars(TimedWake(u))

-----------------------------------------------------------------------------
(* Safety.                                                                  *)

(* "set once": a single setter is answered 0, and whoever learns a value,   *)
(* by waiting, by polling or as a callback, learns that setter's.           *)
Agreement ==
  /\ \A s \in won : won = {s} /\ done
  /\ \A u \in Users : got[u] \in won \cup {None, TimedOut}
  /\ \A k \in Callbacks : ToSet(given[k]) \subseteq won

Occurrences(k) ==
  Len(given[k]) + Cardinality({i \in DOMAIN watchers : watchers[i] = k})
    + Cardinality({x \in UNION {{th} \X DOMAIN firing[th] : th \in FutureThreads} :
                     firing[x[1]][x[2]] = k})

(* "invoked once on completion (or immediately if done)": a callback that   *)
(* watch accepted is queued once, or about to be invoked once by one        *)
(* thread, or has been invoked once, whatever the race between watch and    *)
(* set; one that watch refused never runs.                                  *)
CallbackOnce ==
  \A k \in Callbacks : Occurrences(k) = IF state[k] = "accepted" THEN 1 ELSE 0

(* An owner may free the future as soon as it has been given the value: a   *)
(* setter may still be invoking callbacks, but no longer reads the future.  *)
FreedUntouched ==
  free => \A th \in FutureThreads : pc[th] \in {"idle", "fire", "spent"}

-----------------------------------------------------------------------------
(* Liveness, under FutureFairSpec.                                          *)

(* An accepted callback runs once the future is complete. *)
CallbackRuns ==
  \A k \in Callbacks : done /\ state[k] = "accepted" ~> given[k] # <<>>

(* A wait with a timeout returns whether or not the future is completed, an *)
(* unbounded wait does if it is.                                            *)
WaitReturns ==
  \A u \in Users : /\ pc[u] = "timed" ~> pc[u] = "idle"
                   /\ done /\ pc[u] = "wait" ~> pc[u] = "idle"

(* Completing a future reaches everybody who waits for it. *)
CompletionReachesAll == CallbackRuns /\ WaitReturns
=============================================================================
