----------------------------- MODULE TimerQueue -----------------------------
(***************************************************************************)
(* The timers of a muduo event loop: net/TimerQueue.cc and net/Timer.cc,   *)
(* as operators on the state q of a queue:                                 *)
(*   timers           entries <<expiration, address>>, the set timers_     *)
(*   activeTimers     <<address, sequence>>                                *)
(*   cancelingTimers  <<address, sequence>>                                *)
(*   calling          callingExpiredTimers_                                *)
(*   armed            when timerfd_ becomes readable, 0 if it does not     *)
(*   heap             the Timer object at each address                     *)
(* Time is counted in ticks of 100 microseconds, the least delay that      *)
(* howMuchTimeFromNow sets; 0 is the invalid Timestamp.                    *)
(***************************************************************************)
EXTENDS Integers, FiniteSets, FiniteSetsExt

CONSTANT Addrs           \* where Timer objects can be allocated

(* Timer: interval 0 does not repeat *)
NoTimer == [live |-> FALSE, sequence |-> 0, expiration |-> 0, interval |-> 0]
NewTimer(seq, when, every) ==
  [live |-> TRUE, sequence |-> seq, expiration |-> when, interval |-> every]

EmptyQueue ==
  [timers |-> {}, activeTimers |-> {}, cancelingTimers |-> {}, calling |-> FALSE,
   armed |-> 0, heap |-> [a \in Addrs |-> NoTimer]]

Expirations(q) == {e[1] : e \in q.timers}
ActiveTimer(q, a) == <<a, q.heap[a].sequence>>

resetTimerfd(q, expiration, time) ==
  [q EXCEPT !.armed = Max({expiration, time + 1})]

Insert(q, S) ==
  [q EXCEPT !.timers = @ \cup {<<q.heap[a].expiration, a>> : a \in S},
            !.activeTimers = @ \cup {ActiveTimer(q, a) : a \in S}]

addTimerInLoop(q, a, time) ==
  LET when            == q.heap[a].expiration
      earliestChanged == \A e \in Expirations(q) : when < e
      q1              == Insert(q, {a})
  IN  IF earliestChanged THEN resetTimerfd(q1, when, time) ELSE q1

Erase(q, id) ==
  [q EXCEPT !.timers = @ \ {<<q.heap[id[1]].expiration, id[1]>>},
            !.activeTimers = @ \ {id},
            !.heap[id[1]].live = FALSE]

(* Mutant: a timer of the batch that is being called is not remembered. *)
cancelInLoopActive(q, id) == IF id \in q.activeTimers THEN Erase(q, id) ELSE q

(* Mutant: timers are told apart by their address alone. *)
cancelInLoopAddress(q, id) ==
  IF \E b \in q.activeTimers : b[1] = id[1] THEN Erase(q, id)
  ELSE IF q.calling THEN [q EXCEPT !.cancelingTimers = @ \cup {id}]
  ELSE q

(* Mutant: the object is not deleted. *)
cancelInLoopKeep(q, id) ==
  IF id \in q.activeTimers THEN [Erase(q, id) EXCEPT !.heap = q.heap]
  ELSE IF q.calling THEN [q EXCEPT !.cancelingTimers = @ \cup {id}]
  ELSE q

cancelInLoop(q, id) ==
  IF id \in q.activeTimers THEN Erase(q, id)
  ELSE IF q.calling THEN [q EXCEPT !.cancelingTimers = @ \cup {id}]
  ELSE q

(* the timers of the expired entries *)
ExpiredAt(q, now) == {e[2] : e \in {d \in q.timers : d[1] <= now}}

(* handleRead up to the callbacks.  The read clears timerfd_, unless it    *)
(* was set again after poll returned: then the read fails and is logged.   *)
getExpired(q, expired, now) ==
  [q EXCEPT !.timers = {e \in @ : e[2] \notin expired},
            !.activeTimers = {b \in @ : b[1] \notin expired},
            !.cancelingTimers = {}, !.calling = TRUE,
            !.armed = IF @ <= now THEN 0 ELSE @]

(* reset's loop: timers that repeat are entered again, others are deleted *)
Reschedule(q, expired, now) ==
  LET again == {a \in expired : /\ q.heap[a].interval > 0
                                /\ ActiveTimer(q, a) \notin q.cancelingTimers}
      heap  == [a \in Addrs |->
                  IF a \in again
                    THEN [q.heap[a] EXCEPT !.expiration = now + q.heap[a].interval]
                  ELSE IF a \in expired THEN [q.heap[a] EXCEPT !.live = FALSE]
                  ELSE q.heap[a]]
  IN  Insert([q EXCEPT !.calling = FALSE, !.heap = heap], again)

(* Mutant: timerfd_ is set again only when a timer repeats. *)
resetRepeating(q, expired, now, time) ==
  LET q1 == Reschedule(q, expired, now)
  IN  IF q1.timers = q.timers THEN q1 ELSE resetTimerfd(q1, Min(Expirations(q1)), time)

(* the end of handleRead *)
reset(q, expired, now, time) ==
  LET q1 == Reschedule(q, expired, now)
  IN  IF q1.timers = {} THEN q1 ELSE resetTimerfd(q1, Min(Expirations(q1)), time)
=============================================================================
