------------------------------ MODULE EventLoop ------------------------------
(***************************************************************************)
(* A muduo event loop, net/EventLoop.cc, with its timer queue and the      *)
(* threads that hand it work.                                              *)
(*                                                                         *)
(* The loop thread is one process; what it does between two accesses to    *)
(* shared state is one step.  The others call queueInLoop, addTimer,       *)
(* cancel and quit.  Callbacks, of timers and of functors, may do the same *)
(* in the loop thread.                                                     *)
(***************************************************************************)
EXTENDS TimerQueue, Sequences, SequencesExt

CONSTANTS
  Threads,       \* threads other than the loop's
  MaxTime,       \* bound: last tick modelled
  MaxCreated,    \* bound: timers ever created
  MaxCalls       \* bound: calls made by threads and callbacks

ASSUME BoundsAssumption ==
  MaxTime \in Nat /\ MaxCreated \in Nat /\ MaxCalls \in Nat

VARIABLES
  loop,                   \* where loop() is
  quit_,
  pendingFunctors, functors, callingPendingFunctors,
  wakeupFd,               \* whether wakeupFd_ is readable
  activeChannels,         \* those of Channels still to be handled
  q,                      \* timerQueue_
  expired, called, now,   \* local to TimerQueue::handleRead: the batch, how many
                          \* of its callbacks have been called, and its time
  clock,
  numCreated,             \* Timer::s_numCreated_
  pc, arg,                \* of each thread: where it is, what it hands over
  ids,                    \* TimerIds returned to callers
  calls,                  \* calls made so far
  canceled,               \* history: timers canceled while the queue had them
  early                   \* history: a functor was queued in the loop thread before loop()

queueVars == <<pendingFunctors, functors, callingPendingFunctors>>
handleVars == <<expired, called, now>>
threadVars == <<pc, arg>>
vars == <<loop, quit_, queueVars, wakeupFd, activeChannels, q, handleVars, clock,
          numCreated, threadVars, ids, calls, canceled, early>>

(* "io" stands for the channels of connections and of the user *)
Channels == {"wakeup", "timer", "io"}

User == [kind |-> "user"]
AddOf(a) == [kind |-> "add", timer |-> a]
CancelOf(id) == [kind |-> "cancel", id |-> id]
NoArg == [kind |-> "none"]

Init ==
  /\ loop = "start" /\ quit_ = FALSE
  /\ pendingFunctors = <<>> /\ functors = <<>> /\ callingPendingFunctors = FALSE
  /\ wakeupFd = FALSE /\ activeChannels = {}
  /\ q = EmptyQueue
  /\ expired = {} /\ called = 0 /\ now = 0
  /\ clock = 1 /\ numCreated = 0
  /\ pc = [t \in Threads |-> "idle"] /\ arg = [t \in Threads |-> NoArg]
  /\ ids = {} /\ calls = 0 /\ canceled = {} /\ early = FALSE

Tick ==
  /\ clock < MaxTime
  /\ clock' = clock + 1
  /\ UNCHANGED <<loop, quit_, queueVars, wakeupFd, activeChannels, q, handleVars,
                 numCreated, threadVars, ids, calls, canceled, early>>

Calling == calls < MaxCalls /\ calls' = calls + 1

-----------------------------------------------------------------------------
(* The other threads *)

(* addTimer: new Timer, not yet handed to the loop *)
AddTimer(t) ==
  /\ pc[t] = "idle" /\ Calling /\ numCreated < MaxCreated
  /\ \E a \in Addrs, when \in {clock, clock + 1}, every \in {0, 1} :
       /\ ~q.heap[a].live
       /\ q' = [q EXCEPT !.heap[a] = NewTimer(numCreated + 1, when, every)]
       /\ arg' = [arg EXCEPT ![t] = AddOf(a)]
  /\ numCreated' = numCreated + 1
  /\ pc' = [pc EXCEPT ![t] = "queue"]
  /\ UNCHANGED <<loop, quit_, queueVars, wakeupFd, activeChannels, handleVars, clock,
                 ids, canceled, early>>

(* cancel, or queueInLoop of something else *)
Cancel(t) ==
  /\ pc[t] = "idle" /\ Calling
  /\ \E f \in {User} \cup {CancelOf(id) : id \in ids} : arg' = [arg EXCEPT ![t] = f]
  /\ pc' = [pc EXCEPT ![t] = "queue"]
  /\ UNCHANGED <<loop, quit_, queueVars, wakeupFd, activeChannels, q, handleVars, clock,
                 numCreated, ids, canceled, early>>

(* the critical section of queueInLoop *)
QueueInLoop(t) ==
  /\ pc[t] = "queue"
  /\ pendingFunctors' = Append(pendingFunctors, arg[t])
  /\ pc' = [pc EXCEPT ![t] = "wakeup"]
  /\ UNCHANGED <<loop, quit_, functors, callingPendingFunctors, wakeupFd, activeChannels,
                 q, handleVars, clock, numCreated, arg, ids, calls, canceled, early>>

Quit(t) ==
  /\ pc[t] = "idle" /\ Calling
  /\ quit_' = TRUE
  /\ pc' = [pc EXCEPT ![t] = "wakeup"]
  /\ UNCHANGED <<loop, queueVars, wakeupFd, activeChannels, q, handleVars, clock,
                 numCreated, arg, ids, canceled, early>>

(* Mutant: a thread that finds the loop running functors does not wake it. *)
WakeupIdle(t) ==
  /\ pc[t] = "wakeup"
  /\ wakeupFd' = (wakeupFd \/ ~callingPendingFunctors)
  /\ pc' = [pc EXCEPT ![t] = IF arg[t].kind = "add" THEN "return" ELSE "idle"]
  /\ arg' = [arg EXCEPT ![t] = IF @.kind = "add" THEN @ ELSE NoArg]
  /\ UNCHANGED <<loop, quit_, queueVars, activeChannels, q, handleVars, clock,
                 numCreated, ids, calls, canceled, early>>

Wakeup(t) ==
  /\ pc[t] = "wakeup"
  /\ wakeupFd' = TRUE
  /\ pc' = [pc EXCEPT ![t] = IF arg[t].kind = "add" THEN "return" ELSE "idle"]
  /\ arg' = [arg EXCEPT ![t] = IF @.kind = "add" THEN @ ELSE NoArg]
  /\ UNCHANGED <<loop, quit_, queueVars, activeChannels, q, handleVars, clock,
                 numCreated, ids, calls, canceled, early>>

(* addTimer reads timer->sequence() and returns; the read of an object     *)
(* that the loop has deleted may give anything.                            *)
ReturnId(t) ==
  /\ pc[t] = "return"
  /\ LET a == arg[t].timer
     IN  \E seq \in IF q.heap[a].live THEN {q.heap[a].sequence} ELSE 1 .. numCreated :
           ids' = ids \cup {<<a, seq>>}
  /\ pc' = [pc EXCEPT ![t] = "idle"]
  /\ arg' = [arg EXCEPT ![t] = NoArg]
  /\ UNCHANGED <<loop, quit_, queueVars, wakeupFd, activeChannels, q, handleVars, clock,
                 numCreated, calls, canceled, early>>

-----------------------------------------------------------------------------
(* The loop thread *)

(* timers that are in the queue, or in the batch being called *)
Known == q.activeTimers \cup {ActiveTimer(q, a) : a \in expired}

DoCancel(id) ==
  /\ q' = cancelInLoop(q, id)
  /\ canceled' = canceled \cup ({id} \cap Known)

(* what a callback does: nothing, or one call in the loop thread *)
Callback ==
  \/ UNCHANGED <<pendingFunctors, wakeupFd, quit_, q, numCreated, ids, calls, canceled, early>>
  \/ /\ Calling
     /\ pendingFunctors' = Append(pendingFunctors, User)
     /\ wakeupFd' = (wakeupFd \/ callingPendingFunctors)
     /\ early' = (early \/ loop = "start")
     /\ UNCHANGED <<quit_, q, numCreated, ids, canceled>>
  \/ /\ Calling /\ numCreated < MaxCreated
     /\ \E a \in Addrs, when \in {clock, clock + 1}, every \in {0, 1} :
          /\ ~q.heap[a].live
          /\ LET seq == numCreated + 1
             IN  /\ q' = addTimerInLoop([q EXCEPT !.heap[a] = NewTimer(seq, when, every)],
                                        a, clock)
                 /\ ids' = ids \cup {<<a, seq>>}
     /\ numCreated' = numCreated + 1
     /\ UNCHANGED <<pendingFunctors, wakeupFd, quit_, canceled, early>>
  \/ /\ Calling
     /\ \E id \in ids : DoCancel(id)
     /\ UNCHANGED <<pendingFunctors, wakeupFd, quit_, numCreated, ids, early>>
  \/ /\ Calling
     /\ quit_' = TRUE
     /\ UNCHANGED <<pendingFunctors, wakeupFd, q, numCreated, ids, canceled, early>>

(* the owner of the loop before it calls loop() *)
BeforeLoop ==
  /\ loop = "start"
  /\ Callback
  /\ UNCHANGED <<loop, functors, callingPendingFunctors, activeChannels, handleVars,
                 clock, threadVars>>

Start ==
  /\ loop = "start"
  /\ quit_' = FALSE
  /\ loop' = "while"
  /\ UNCHANGED <<queueVars, wakeupFd, activeChannels, q, handleVars, clock,
                 numCreated, threadVars, ids, calls, canceled, early>>

(* while (!quit_) *)
While ==
  /\ loop = "while"
  /\ loop' = IF quit_ THEN "exited" ELSE "poll"
  /\ UNCHANGED <<quit_, queueVars, wakeupFd, activeChannels, q, handleVars, clock,
                 numCreated, threadVars, ids, calls, canceled, early>>

(* poll returns the channels that are ready, or none when it times out *)
Poll ==
  /\ loop = "poll"
  /\ \E io \in SUBSET {"io"} :
       activeChannels' = io \cup (IF wakeupFd THEN {"wakeup"} ELSE {})
                            \cup (IF q.armed # 0 /\ q.armed <= clock THEN {"timer"} ELSE {})
  /\ loop' = "events"
  /\ UNCHANGED <<quit_, queueVars, wakeupFd, q, handleVars, clock,
                 numCreated, threadVars, ids, calls, canceled, early>>

(* the callback of another channel *)
HandleIO ==
  /\ loop = "events" /\ "io" \in activeChannels
  /\ activeChannels' = activeChannels \ {"io"}
  /\ Callback
  /\ UNCHANGED <<loop, functors, callingPendingFunctors, handleVars, clock, threadVars>>

HandleWakeup ==
  /\ loop = "events" /\ "wakeup" \in activeChannels
  /\ wakeupFd' = FALSE
  /\ activeChannels' = activeChannels \ {"wakeup"}
  /\ UNCHANGED <<loop, quit_, queueVars, q, handleVars, clock,
                 numCreated, threadVars, ids, calls, canceled, early>>

HandleTimer ==
  /\ loop = "events" /\ "timer" \in activeChannels
  /\ now' = clock
  /\ expired' = ExpiredAt(q, clock)
  /\ called' = 0
  /\ q' = getExpired(q, expired', clock)
  /\ loop' = "expired"
  /\ UNCHANGED <<quit_, queueVars, wakeupFd, activeChannels, clock,
                 numCreated, threadVars, ids, calls, canceled, early>>

(* the callback of the next timer of the batch: what it does is open, so   *)
(* which one it is makes no difference                                     *)
RunTimer ==
  /\ loop = "expired" /\ called < Cardinality(expired)
  /\ called' = called + 1
  /\ Callback
  /\ UNCHANGED <<loop, functors, callingPendingFunctors, activeChannels, expired, now,
                 clock, threadVars>>

Reset ==
  /\ loop = "expired" /\ called = Cardinality(expired)
  /\ q' = reset(q, expired, now, clock)
  /\ expired' = {} /\ called' = 0 /\ now' = 0
  /\ activeChannels' = activeChannels \ {"timer"}
  /\ loop' = "events"
  /\ UNCHANGED <<quit_, queueVars, wakeupFd, clock, numCreated, threadVars, ids, calls,
                 canceled, early>>

(* doPendingFunctors up to the swap under the mutex; the flag is read in   *)
(* the loop thread only.                                                   *)
Swap ==
  /\ loop = "events" /\ activeChannels = {}
  /\ callingPendingFunctors' = TRUE
  /\ functors' = pendingFunctors
  /\ pendingFunctors' = <<>>
  /\ early' = FALSE
  /\ loop' = "run"
  /\ UNCHANGED <<quit_, wakeupFd, activeChannels, q, handleVars,
                 clock, numCreated, threadVars, ids, calls, canceled>>

RunFunctor ==
  /\ loop = "run" /\ functors # <<>>
  /\ LET f == Head(functors)
     IN  \/ /\ f.kind = "user"
            /\ Callback
         \/ /\ f.kind = "add"
            /\ q' = addTimerInLoop(q, f.timer, clock)
            /\ UNCHANGED <<pendingFunctors, wakeupFd, quit_, numCreated, ids, calls, canceled, early>>
         \/ /\ f.kind = "cancel"
            /\ DoCancel(f.id)
            /\ UNCHANGED <<pendingFunctors, wakeupFd, quit_, numCreated, ids, calls, early>>
  /\ functors' = Tail(functors)
  /\ UNCHANGED <<loop, callingPendingFunctors, activeChannels, handleVars, clock, threadVars>>

EndFunctors ==
  /\ loop = "run" /\ functors = <<>>
  /\ callingPendingFunctors' = FALSE
  /\ loop' = "while"
  /\ UNCHANGED <<quit_, pendingFunctors, functors, wakeupFd, activeChannels, q, handleVars,
                 clock, numCreated, threadVars, ids, calls, canceled, early>>

Loop ==
  \/ BeforeLoop \/ Start \/ While \/ Poll \/ HandleIO \/ HandleWakeup \/ HandleTimer \/ RunTimer \/ Reset
  \/ Swap \/ RunFunctor \/ EndFunctors

Thread(t) ==
  AddTimer(t) \/ Cancel(t) \/ QueueInLoop(t) \/ Quit(t) \/ Wakeup(t) \/ ReturnId(t)

Next == Tick \/ Loop \/ \E t \in Threads : Thread(t)

Spec == Init /\ [][Next]_vars

-----------------------------------------------------------------------------
TypeOK ==
  /\ loop \in {"start", "while", "poll", "events", "expired", "run", "exited"}
  /\ quit_ \in BOOLEAN /\ wakeupFd \in BOOLEAN /\ callingPendingFunctors \in BOOLEAN
  /\ activeChannels \subseteq Channels
  /\ expired \subseteq Addrs /\ called \in 0 .. Cardinality(expired)
  /\ q.activeTimers \subseteq Addrs \X Nat /\ q.timers \subseteq Nat \X Addrs
  /\ pc \in [Threads -> {"idle", "queue", "wakeup", "return"}]
  /\ ids \subseteq Addrs \X (1 .. numCreated)

(* No lost wake-up: a loop that sleeps in poll with nothing ready has no   *)
(* functors to run and has not been told to quit, unless the thread that   *)
(* queued the functor or set quit_ is about to write to wakeupFd_.  A      *)
(* functor queued in the loop thread before loop() is the one that waits   *)
(* for the poll to time out: queueInLoop does not write for it.            *)
NoLostWakeup ==
  loop = "poll" /\ ~wakeupFd /\ ((pendingFunctors # <<>> /\ ~early) \/ quit_) =>
    \E t \in Threads : pc[t] = "wakeup"

(* timers_ and activeTimers_ have the same timers, and every pointer in    *)
(* them and in the batch being called is to a Timer that is not deleted,   *)
(* whose expiration and sequence are those it was entered with: the        *)
(* asserts of insert, cancelInLoop and getExpired hold.                    *)
SameTimers ==
  LET queued == {e[2] : e \in q.timers}
  IN  /\ \A a \in queued \cup expired : q.heap[a].live
      /\ queued \cap expired = {}
      /\ q.timers = {<<q.heap[a].expiration, a>> : a \in queued}
      /\ q.activeTimers = {ActiveTimer(q, a) : a \in queued}

(* No timer is forgotten: outside handleRead, while there are timers,      *)
(* timerfd_ is set to a time no later than the first expiration.           *)
Armed ==
  loop # "expired" /\ q.timers # {} =>
    q.armed # 0 /\ q.armed <= Max({Min(Expirations(q)), clock + 1})

(* A timer that was canceled while the queue had it is not in the queue    *)
(* once the callbacks of its batch are over, whether it was waiting, was   *)
(* in the batch, or canceled itself.                                       *)
CancelSticks ==
  loop # "expired" => canceled \cap q.activeTimers = {}

(* No timer object is leaked: one that is not deleted is in the queue, in  *)
(* the batch being called, or on its way into the queue.                   *)
NoLeak ==
  \A a \in Addrs :
    q.heap[a].live =>
      \/ ActiveTimer(q, a) \in Known
      \/ AddOf(a) \in ToSet(pendingFunctors) \cup ToSet(functors)
      \/ \E t \in Threads : pc[t] = "queue" /\ arg[t] = AddOf(a)
=============================================================================
