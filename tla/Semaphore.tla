------------------------------ MODULE Semaphore ------------------------------
(***************************************************************************)
(* The weighted semaphore of go/x/sync/semaphore/semaphore.go.             *)
(*                                                                         *)
(* A process of the model is one Acquire/Release session.  The semaphore   *)
(* does not know who holds its tokens, so a goroutine that nests           *)
(* acquisitions, or releases what another one acquired, is several         *)
(* sessions of the model.                                                  *)
(*                                                                         *)
(* A critical section of s.mu without a loop is one step, enabled when the *)
(* mutex is free.  The loop of notifyWaiters is one step per iteration     *)
(* with the mutex held, because a goroutine whose ready channel has been   *)
(* closed runs on, outside the mutex, before the loop ends.                *)
(***************************************************************************)
EXTENDS Integers, Sequences, SequencesExt

CONSTANTS
  Procs,      \* the sessions
  NoProc,     \* "nobody holds the mutex"
  Size,       \* s.size
  Weights,    \* the weights n that callers pass
  Misuse      \* whether some caller releases more than is held

ASSUME SizeAssumption    == Size \in Nat
ASSUME WeightsAssumption == Weights \subseteq Nat
ASSUME NoProcAssumption  == NoProc \notin Procs
ASSUME MisuseAssumption  == Misuse \in BOOLEAN

VARIABLES
  cur,        \* s.cur
  waiters,    \* s.waiters: the sessions in the list, front first
  mu,         \* the holder of s.mu inside notifyWaiters, or NoProc
  pc,         \* where each session is
  req,        \* n of the session's call
  ready,      \* whether the session's ready channel is closed
  done,       \* whether the session's ctx is done
  held        \* tokens the session has acquired and not yet released

vars == <<cur, waiters, mu, pc, req, ready, done, held>>

PCs == {"idle",        \* no call in progress, nothing held
        "doomed",      \* n > size: blocked on ctx.Done() only
        "waiting",     \* in the outer select
        "canceled",    \* took the ctx.Done() case, needs s.mu
        "notifyErr",   \* in notifyWaiters, called by the canceled Acquire
        "held",        \* Acquire returned nil
        "notifyRel",   \* in notifyWaiters, called by Release
        "panicked"}    \* Release panicked

TypeOK ==
  /\ cur \in Int /\ (~Misuse => cur >= 0)
  /\ waiters \in Seq(Procs)
  /\ mu \in Procs \cup {NoProc}
  /\ pc \in [Procs -> PCs]
  /\ req \in [Procs -> Nat]
  /\ ready \in [Procs -> BOOLEAN]
  /\ done \in [Procs -> BOOLEAN]
  /\ held \in [Procs -> Nat]

Init ==
  /\ cur = 0
  /\ waiters = <<>>
  /\ mu = NoProc
  /\ pc = [p \in Procs |-> "idle"]
  /\ req = [p \in Procs |-> 0]
  /\ ready = [p \in Procs |-> FALSE]
  /\ done = [p \in Procs |-> FALSE]
  /\ held = [p \in Procs |-> 0]

(* Mutants of CanTake: an off-by-one, and barging past the waiters. *)
CanTakeOneMore(n) == Size - cur + 1 >= n /\ waiters = <<>>
CanTakeBarging(n) == Size - cur >= n

(* s.size-s.cur >= n && s.waiters.Len() == 0 *)
CanTake(n) == Size - cur >= n /\ waiters = <<>>

(* The local variables of a call that returns are gone. *)
Forget(p) ==
  /\ req' = [req EXCEPT ![p] = 0]
  /\ ready' = [ready EXCEPT ![p] = FALSE]
  /\ done' = [done EXCEPT ![p] = FALSE]

-----------------------------------------------------------------------------
(* Acquire, up to the unlock of its first critical section.  The context   *)
(* handed in may already be done.                                          *)

AcquireNow(p, n) ==
  /\ pc[p] = "idle"
  /\ mu = NoProc
  /\ CanTake(n)
  /\ cur' = cur + n
  /\ held' = [held EXCEPT ![p] = n]
  /\ pc' = [pc EXCEPT ![p] = "held"]
  /\ UNCHANGED <<waiters, mu, req, ready, done>>

AcquireDoomed(p, n, d) ==
  /\ pc[p] = "idle"
  /\ mu = NoProc
  /\ ~CanTake(n)
  /\ n > Size
  /\ req' = [req EXCEPT ![p] = n]
  /\ done' = [done EXCEPT ![p] = d]
  /\ pc' = [pc EXCEPT ![p] = "doomed"]
  /\ UNCHANGED <<cur, waiters, mu, ready, held>>

AcquireEnqueue(p, n, d) ==
  /\ pc[p] = "idle"
  /\ mu = NoProc
  /\ ~CanTake(n)
  /\ n <= Size
  /\ waiters' = Append(waiters, p)
  /\ req' = [req EXCEPT ![p] = n]
  /\ ready' = [ready EXCEPT ![p] = FALSE]
  /\ done' = [done EXCEPT ![p] = d]
  /\ pc' = [pc EXCEPT ![p] = "waiting"]
  /\ UNCHANGED <<cur, mu, held>>

(* The caller's context is canceled or times out. *)
CtxDone(p) ==
  /\ pc[p] \in {"doomed", "waiting"}
  /\ ~done[p]
  /\ done' = [done EXCEPT ![p] = TRUE]
  /\ UNCHANGED <<cur, waiters, mu, pc, req, ready, held>>

(* <-ctx.Done(); return ctx.Err() of a request that can never be met *)
DoomedReturn(p) ==
  /\ pc[p] = "doomed"
  /\ done[p]
  /\ pc' = [pc EXCEPT ![p] = "idle"]
  /\ Forget(p)
  /\ UNCHANGED <<cur, waiters, mu, held>>

(* case <-ready of the outer select *)
SelectReady(p) ==
  /\ pc[p] = "waiting"
  /\ ready[p]
  /\ held' = [held EXCEPT ![p] = req[p]]
  /\ pc' = [pc EXCEPT ![p] = "held"]
  /\ Forget(p)
  /\ UNCHANGED <<cur, waiters, mu>>

(* case <-ctx.Done() of the outer select; s.mu is still to be taken *)
SelectDone(p) ==
  /\ pc[p] = "waiting"
  /\ done[p]
  /\ pc' = [pc EXCEPT ![p] = "canceled"]
  /\ UNCHANGED <<cur, waiters, mu, req, ready, done, held>>

(* Mutant: the grant that raced with the cancelation is dropped. *)
CancelAnyway(p) ==
  /\ pc[p] = "canceled"
  /\ mu = NoProc
  /\ ready[p]
  /\ pc' = [pc EXCEPT ![p] = "idle"]
  /\ Forget(p)
  /\ UNCHANGED <<cur, waiters, mu, held>>

(* The inner select finds ready closed: the cancelation is ignored. *)
CancelTooLate(p) ==
  /\ pc[p] = "canceled"
  /\ mu = NoProc
  /\ ready[p]
  /\ held' = [held EXCEPT ![p] = req[p]]
  /\ pc' = [pc EXCEPT ![p] = "held"]
  /\ Forget(p)
  /\ UNCHANGED <<cur, waiters, mu>>

(* Mutants: a canceled waiter never notifies; it stays in the list. *)
CancelSilently(p) ==
  /\ pc[p] = "canceled"
  /\ mu = NoProc
  /\ ~ready[p]
  /\ \E i \in 1 .. Len(waiters) :
       /\ waiters[i] = p
       /\ waiters' = RemoveAt(waiters, i)
  /\ pc' = [pc EXCEPT ![p] = "idle"]
  /\ Forget(p)
  /\ UNCHANGED <<cur, mu, held>>

(* The inner select's default case: leave the list, and if the session was *)
(* at its front and tokens are left, notify those behind it.               *)
CancelRemove(p) ==
  /\ pc[p] = "canceled"
  /\ mu = NoProc
  /\ ~ready[p]
  /\ \E i \in 1 .. Len(waiters) :
       /\ waiters[i] = p
       /\ waiters' = RemoveAt(waiters, i)
       /\ LET notify == i = 1 /\ Size > cur
          IN  /\ mu' = IF notify THEN p ELSE NoProc
              /\ pc' = [pc EXCEPT ![p] = IF notify THEN "notifyErr" ELSE "idle"]
  /\ Forget(p)
  /\ UNCHANGED <<cur, held>>

-----------------------------------------------------------------------------
TryAcquire(p, n) ==
  /\ pc[p] = "idle"
  /\ mu = NoProc
  /\ CanTake(n)
  /\ cur' = cur + n
  /\ held' = [held EXCEPT ![p] = n]
  /\ pc' = [pc EXCEPT ![p] = "held"]
  /\ UNCHANGED <<waiters, mu, req, ready, done>>

(* Mutant: Release forgets notifyWaiters. *)
ReleaseSilently(p, n) ==
  /\ pc[p] = "held"
  /\ mu = NoProc
  /\ cur - n >= 0
  /\ cur' = cur - n
  /\ held' = [held EXCEPT ![p] = @ - n]
  /\ pc' = [pc EXCEPT ![p] = IF held[p] = n THEN "idle" ELSE "held"]
  /\ UNCHANGED <<waiters, mu, req, ready, done>>

(* Release up to its call of notifyWaiters. *)
Release(p, n) ==
  /\ pc[p] = "held"
  /\ mu = NoProc
  /\ cur - n >= 0
  /\ cur' = cur - n
  /\ held' = [held EXCEPT ![p] = @ - n]
  /\ mu' = p
  /\ pc' = [pc EXCEPT ![p] = "notifyRel"]
  /\ UNCHANGED <<waiters, req, ready, done>>

(* Release of more than the semaphore has given out: s.cur stays negative *)
(* and no waiter is notified.                                              *)
ReleasePanic(p, n) ==
  /\ Misuse
  /\ pc[p] \in {"idle", "held"}
  /\ mu = NoProc
  /\ cur - n < 0
  /\ cur' = cur - n
  /\ pc' = [pc EXCEPT ![p] = "panicked"]
  /\ UNCHANGED <<waiters, mu, req, ready, done, held>>

-----------------------------------------------------------------------------
(* One iteration of notifyWaiters that grants the front waiter its tokens. *)
NotifyGrant(p) ==
  /\ mu = p
  /\ waiters # <<>>
  /\ LET w == Head(waiters)
     IN  /\ Size - cur >= req[w]
         /\ cur' = cur + req[w]
         /\ ready' = [ready EXCEPT ![w] = TRUE]
  /\ waiters' = Tail(waiters)
  /\ UNCHANGED <<mu, pc, req, done, held>>

(* The loop breaks; the caller unlocks s.mu and returns. *)
NotifyBreak(p) ==
  /\ mu = p
  /\ waiters # <<>> => Size - cur < req[Head(waiters)]
  /\ mu' = NoProc
  /\ pc' = [pc EXCEPT ![p] =
              IF @ = "notifyRel" /\ held[p] # 0 THEN "held" ELSE "idle"]
  /\ UNCHANGED <<cur, waiters, req, ready, done, held>>

-----------------------------------------------------------------------------
Acquire(p) ==
  \E n \in Weights, d \in BOOLEAN :
    \/ AcquireNow(p, n)
    \/ AcquireDoomed(p, n, d)
    \/ AcquireEnqueue(p, n, d)

(* What a session does by itself once it is called. *)
Running(p) ==
  \/ DoomedReturn(p)
  \/ SelectReady(p)
  \/ SelectDone(p)
  \/ CancelTooLate(p)
  \/ CancelRemove(p)
  \/ NotifyGrant(p)
  \/ NotifyBreak(p)

Next ==
  \E p \in Procs :
    \/ Acquire(p)
    \/ CtxDone(p)
    \/ Running(p)
    \/ \E n \in Weights : TryAcquire(p, n) \/ ReleasePanic(p, n)
    \/ \E n \in 0 .. held[p] : Release(p, n)

Spec == Init /\ [][Next]_vars

(* Goroutines that can run are run (weak fairness of their own steps);     *)
(* sync.Mutex hands the lock to a starving goroutine, so one that wants    *)
(* s.mu for ever gets it (strong fairness of the steps that lock).  The    *)
(* callers are assumed to release what they hold.  Contexts need not end.  *)
Fairness ==
  \A p \in Procs :
    /\ WF_vars(SelectReady(p))
    /\ WF_vars(NotifyGrant(p) \/ NotifyBreak(p))
    /\ SF_vars(CancelTooLate(p) \/ CancelRemove(p))
    /\ SF_vars(Release(p, held[p]))

FairSpec == Spec /\ Fairness

-----------------------------------------------------------------------------
NoPanic == \A p \in Procs : pc[p] # "panicked"

(* Never more than s.size tokens are out, whatever the callers do: the     *)
(* fast path, TryAcquire and every iteration of notifyWaiters test before  *)
(* they add.                                                               *)
Capacity == cur <= Size

(* No lost wake-up: whenever s.mu is free, the waiter at the front of the  *)
(* list does not fit into what is left.  Each way tokens or the front      *)
(* position are freed (Release, a canceled front waiter) must therefore    *)
(* run notifyWaiters far enough.                                           *)
FrontBlocked ==
  mu = NoProc /\ waiters # <<>> /\ NoPanic => Size - cur < req[Head(waiters)]

(* A session counts for the tokens it holds and, between the close of its  *)
(* ready channel and its own next step, for those granted to it.           *)
Charged ==
  [p \in Procs |->
     IF pc[p] \in {"waiting", "canceled"} /\ ready[p] THEN req[p] ELSE held[p]]

(* s.cur is exactly what the sessions are charged for: a grant that races  *)
(* with the cancelation of its context is neither lost nor counted twice,  *)
(* and an Acquire that returns ctx.Err() leaves the semaphore unchanged.   *)
Conservation == NoPanic => cur = SumFunction(Charged)

(* The list holds exactly the sessions that still wait: a granted session  *)
(* has left it, a canceled one is in it until it removes itself.           *)
ListedOnce ==
  /\ IsInjective(waiters)
  /\ \A p \in Procs :
       Contains(waiters, p) <=> pc[p] \in {"waiting", "canceled"} /\ ~ready[p]

(* What the sessions' program counters say about the calls in progress:    *)
(* only the caller of notifyWaiters holds s.mu, and a waiting session has  *)
(* the weight it was called with.                                          *)
CallInv ==
  /\ \A p \in Procs : mu = p <=> pc[p] \in {"notifyErr", "notifyRel"}
  /\ \A p \in Procs : pc[p] \in {"waiting", "canceled"} => req[p] \in Weights

(* First come, first served: a session that is behind another one in the   *)
(* list is not granted before it; the one ahead leaves only by its own     *)
(* grant or cancelation, and nobody takes tokens past a nonempty list.     *)
NoOvertaking ==
  [][ /\ \A i \in 1 .. Len(waiters) :
           ready'[waiters[i]] =>
             \A j \in 1 .. i - 1 : ready'[waiters[j]]
      /\ waiters # <<>> =>
           \A p \in Procs : pc[p] = "idle" => pc'[p] # "held" ]_vars

(* Acquire returns: a waiting session is granted its tokens, or its        *)
(* context ends and it leaves, as long as holders release and no misuse    *)
(* has made Release panic.                                                 *)
AcquireReturns ==
  \A p \in Procs :
    pc[p] \in {"waiting", "canceled"} ~> pc[p] \in {"held", "idle"} \/ ~NoPanic
=============================================================================
