-------------------------- MODULE EventLoopProofs --------------------------
(***************************************************************************)
(* Proofs about EventLoop, for any number of threads, timers and calls: no *)
(* wake-up is lost, the two sets of timers agree and hold no deleted       *)
(* timer, canceled timers stay canceled, none leaks, and timerfd_ is never *)
(* set too late.                                                           *)
(***************************************************************************)
EXTENDS EventLoop, SequenceTheorems, WellFoundedInduction, TLAPS

Timers == [live : BOOLEAN, sequence : Nat, expiration : Nat, interval : Nat]

Queues ==
  [timers : SUBSET (Nat \X Addrs), activeTimers : SUBSET (Addrs \X Nat),
   cancelingTimers : SUBSET (Addrs \X Nat), calling : BOOLEAN, armed : Nat,
   heap : [Addrs -> Timers]]

\* The timer at a is in the queue p.
In(p, a) == ActiveTimer(p, a) \in p.activeTimers

\* timers_ and activeTimers_ hold the same timers.
Agree(p) ==
  /\ \A e \in p.timers : e[1] = p.heap[e[2]].expiration /\ In(p, e[2])
  /\ \A b \in p.activeTimers : b[2] = p.heap[b[1]].sequence
  /\ \A a \in Addrs : In(p, a) => <<p.heap[a].expiration, a>> \in p.timers

\* A timer that is not deleted is in exactly one place: in the queue, in the
\* batch X that is being called, or among those on their way, F.
Owned(p, X, F) ==
  \A a \in Addrs :
    /\ p.heap[a].live <=> In(p, a) \/ a \in X \/ a \in F
    /\ ~(In(p, a) /\ a \in X) /\ ~(In(p, a) /\ a \in F) /\ ~(a \in X /\ a \in F)

\* The n-th timer is the last one. Of the canceled timers C none is in the
\* queue or on its way, and those of the batch are remembered.
Canceled(p, X, F, C, n) ==
  /\ \A a \in Addrs : p.heap[a].sequence <= n
  /\ \A b \in C : b[2] <= n
  /\ \A a \in Addrs : In(p, a) \/ a \in F => ActiveTimer(p, a) \notin C
  /\ \A a \in X : ActiveTimer(p, a) \in C => ActiveTimer(p, a) \in p.cancelingTimers

Good(p, X, F, C, n) ==
  p \in Queues /\ Agree(p) /\ Owned(p, X, F) /\ Canceled(p, X, F, C, n)

-----------------------------------------------------------------------------
\* A new timer, on its way to the queue.
Made(p, a, n, when, every) == [p EXCEPT !.heap[a] = NewTimer(n + 1, when, every)]

\* The address a is free for it.
Free(p, X, F, C, n, a, when, every) ==
  /\ X \subseteq Addrs /\ F \subseteq Addrs /\ C \subseteq Addrs \X Nat /\ n \in Nat
  /\ Good(p, X, F, C, n) /\ a \in Addrs /\ ~p.heap[a].live
  /\ when \in Nat /\ every \in Nat

\* new Timer keeps what the queue has in order.
LEMMA NewGood ==
  ASSUME NEW p, NEW X, NEW F, NEW C, NEW n, NEW a, NEW when, NEW every,
         Free(p, X, F, C, n, a, when, every)
  PROVE  LET r == Made(p, a, n, when, every)
         IN  /\ Good(r, X, F \cup {a}, C, n + 1)
             /\ r.timers = p.timers /\ r.armed = p.armed /\ r.calling = p.calling
<1> USE DEF Free
<1> DEFINE timer == NewTimer(n + 1, when, every)
<1> DEFINE r == [p EXCEPT !.heap[a] = timer]
<1>1. /\ p \in Queues /\ p.heap \in [Addrs -> Timers]
      /\ p.timers \subseteq Nat \X Addrs /\ p.activeTimers \subseteq Addrs \X Nat
  BY DEF Good, Queues
<1>2. timer \in Timers /\ timer.live /\ timer.sequence = n + 1
  BY DEF NewTimer, Timers
<1> HIDE DEF timer
<1>3. /\ r.timers = p.timers /\ r.activeTimers = p.activeTimers
      /\ r.cancelingTimers = p.cancelingTimers /\ r.armed = p.armed
      /\ r.calling = p.calling /\ r.heap = [p.heap EXCEPT ![a] = timer]
      /\ r \in Queues
  BY <1>1, <1>2 DEF Queues
<1> HIDE DEF r
<1>4. \A b \in Addrs : r.heap[b] = IF b = a THEN timer ELSE p.heap[b]
  BY <1>1, <1>3
<1>5. ~In(p, a) /\ a \notin X /\ a \notin F
  BY DEF Good, Owned
<1>6. \A b \in p.activeTimers : b[2] <= n
  BY <1>1 DEF Good, Agree, Canceled
<1>7. ~In(r, a)
  BY <1>2, <1>3, <1>4, <1>6 DEF In, ActiveTimer
<1>8. \A b \in Addrs : b # a => (In(r, b) <=> In(p, b)) /\ ActiveTimer(r, b) = ActiveTimer(p, b)
  BY <1>3, <1>4 DEF In, ActiveTimer
<1>9. \A e \in p.timers : e[2] \in Addrs /\ e[2] # a
  BY <1>1, <1>5 DEF Good, Agree
<1>10. \A b \in p.activeTimers : b[1] \in Addrs /\ b[1] # a
  <2> TAKE b \in p.activeTimers
  <2>1. b[1] \in Addrs /\ b = <<b[1], b[2]>>
    BY <1>1
  <2>2. b[2] = p.heap[b[1]].sequence
    BY DEF Good, Agree
  <2>3. In(p, b[1])
    BY <2>1, <2>2 DEF In, ActiveTimer
  <2> QED
    BY <1>5, <2>1, <2>3
<1>11. Agree(r)
  <2>1. \A e \in r.timers : e[1] = r.heap[e[2]].expiration /\ In(r, e[2])
    BY <1>3, <1>4, <1>8, <1>9 DEF Good, Agree
  <2>2. \A b \in r.activeTimers : b[2] = r.heap[b[1]].sequence
    BY <1>3, <1>4, <1>10 DEF Good, Agree
  <2>3. \A b \in Addrs : In(r, b) => <<r.heap[b].expiration, b>> \in r.timers
    BY <1>3, <1>4, <1>7, <1>8 DEF Good, Agree
  <2> QED
    BY <2>1, <2>2, <2>3 DEF Agree
<1>12. Owned(r, X, F \cup {a})
  BY <1>2, <1>4, <1>5, <1>7, <1>8 DEF Good, Owned
<1>13. Canceled(r, X, F \cup {a}, C, n + 1)
  <2>1. \A b \in Addrs : r.heap[b].sequence <= n + 1
    BY <1>1, <1>2, <1>4 DEF Good, Canceled, Timers
  <2>2. \A b \in C : b[2] \in Nat /\ b[2] <= n /\ b[2] <= n + 1
    BY DEF Good, Canceled
  <2>3. ActiveTimer(r, a) \notin C
    BY <1>2, <1>4, <2>2 DEF ActiveTimer
  <2>4. \A b \in Addrs : In(r, b) \/ b \in F \cup {a} => ActiveTimer(r, b) \notin C
    BY <1>7, <1>8, <2>3 DEF Good, Canceled
  <2>5. \A b \in X : ActiveTimer(r, b) \in C => ActiveTimer(r, b) \in r.cancelingTimers
    BY <1>3, <1>5, <1>8 DEF Good, Canceled
  <2> QED
    BY <2>1, <2>2, <2>4, <2>5 DEF Canceled
<1> QED
  BY <1>3, <1>11, <1>12, <1>13 DEF Good, Made, r, timer

\* The later of two times.
LEMMA MaxOfTwo ==
  ASSUME NEW x \in Nat, NEW y \in Nat
  PROVE  /\ Max({x, y}) \in {x, y}
         /\ x <= Max({x, y}) /\ y <= Max({x, y})
<1>1. \E z \in {x, y} : \A w \in {x, y} : z >= w
  OBVIOUS
<1>2. Max({x, y}) \in {x, y} /\ \A w \in {x, y} : Max({x, y}) >= w
  BY Zenon, <1>1 DEF Max
<1> QED
  BY <1>2

\* resetTimerfd changes nothing but the time timerfd_ is set to.
LEMMA ResetTimerfdGood ==
  ASSUME NEW p, NEW X, NEW F, NEW C, NEW n, Good(p, X, F, C, n),
         NEW when \in Nat, NEW time \in Nat
  PROVE  LET r == resetTimerfd(p, when, time)
         IN  /\ Good(r, X, F, C, n)
             /\ r.timers = p.timers /\ r.calling = p.calling
             /\ r.armed \in Nat /\ r.armed # 0 /\ (r.armed = when \/ r.armed = time + 1)
<1> DEFINE t == Max({when, time + 1})
<1> DEFINE r == resetTimerfd(p, when, time)
<1>1. t \in {when, time + 1} /\ t >= time + 1 /\ t \in Nat
  BY MaxOfTwo
<1>2. r = [p EXCEPT !.armed = t]
  BY DEF resetTimerfd
<1> HIDE DEF t, r
<1>3. p \in Queues
  BY DEF Good
<1>4. /\ r.timers = p.timers /\ r.activeTimers = p.activeTimers /\ r.heap = p.heap
      /\ r.cancelingTimers = p.cancelingTimers /\ r.calling = p.calling
      /\ r.armed = t /\ r \in Queues
  BY <1>1, <1>2, <1>3 DEF Queues
<1>5. \A a : ActiveTimer(r, a) = ActiveTimer(p, a) /\ (In(r, a) <=> In(p, a))
  BY <1>4 DEF ActiveTimer, In
<1>6. Agree(r) /\ Owned(r, X, F) /\ Canceled(r, X, F, C, n)
  BY <1>4, <1>5 DEF Good, Agree, Owned, Canceled
<1> QED
  BY <1>1, <1>4, <1>6 DEF Good, r

\* Timers S that are not in the queue are entered into it: from the batch, or
\* from those on their way.
LEMMA InsertGood ==
  ASSUME NEW p, p \in Queues, Agree(p), NEW S \in SUBSET Addrs,
         \A a \in S : ~In(p, a)
  PROVE  LET r == Insert(p, S)
         IN  /\ r \in Queues /\ Agree(r) /\ r.heap = p.heap
             /\ \A a \in Addrs : In(r, a) <=> In(p, a) \/ a \in S
             /\ r.timers = p.timers \cup {<<p.heap[a].expiration, a>> : a \in S}
             /\ r.cancelingTimers = p.cancelingTimers /\ r.calling = p.calling
             /\ r.armed = p.armed
<1> DEFINE new == {<<p.heap[a].expiration, a>> : a \in S}
<1> DEFINE act == {ActiveTimer(p, a) : a \in S}
<1> DEFINE r == Insert(p, S)
<1>1. p.heap \in [Addrs -> Timers] /\ p.activeTimers \subseteq Addrs \X Nat
  BY DEF Queues
<1>2. \A a \in Addrs : p.heap[a].expiration \in Nat /\ p.heap[a].sequence \in Nat
  BY <1>1 DEF Timers
<1>3. new \subseteq Nat \X Addrs /\ act \subseteq Addrs \X Nat
  BY <1>2 DEF ActiveTimer
<1>4. r = [p EXCEPT !.timers = p.timers \cup new, !.activeTimers = p.activeTimers \cup act]
  BY DEF Insert
<1> HIDE DEF new, act, r
<1>5. /\ r.timers = p.timers \cup new /\ r.activeTimers = p.activeTimers \cup act
      /\ r.heap = p.heap /\ r.cancelingTimers = p.cancelingTimers
      /\ r.calling = p.calling /\ r.armed = p.armed /\ r \in Queues
  BY Zenon, <1>3, <1>4 DEF Queues
<1>6. \A a : ActiveTimer(r, a) = ActiveTimer(p, a)
  BY <1>5 DEF ActiveTimer
<1>7. \A a \in Addrs : ActiveTimer(p, a) \in act <=> a \in S
  BY DEF act, ActiveTimer
<1>8. \A a \in Addrs : In(r, a) <=> In(p, a) \/ a \in S
  BY <1>5, <1>6, <1>7 DEF In
<1>9. Agree(r)
  <2>1. \A e \in new : e[2] \in S /\ e[1] = p.heap[e[2]].expiration
    BY DEF new
  <2>2. \A e \in r.timers : e[1] = r.heap[e[2]].expiration /\ In(r, e[2])
    <3> TAKE e \in r.timers
    <3>1. CASE e \in new
      BY <1>5, <1>8, <2>1, <3>1
    <3>2. CASE e \in p.timers
      <4>1. e[2] \in Addrs
        BY <3>2 DEF Queues
      <4> QED
        BY <1>5, <1>8, <3>2, <4>1 DEF Agree
    <3> QED
      BY <1>5, <3>1, <3>2
  <2>3. \A b \in act : b[2] = p.heap[b[1]].sequence
    BY DEF act, ActiveTimer
  <2>4. \A b \in r.activeTimers : b[2] = r.heap[b[1]].sequence
    BY <1>5, <2>3 DEF Agree
  <2>5. \A a \in S : <<p.heap[a].expiration, a>> \in new
    BY DEF new
  <2>6. \A a \in Addrs : In(r, a) => <<r.heap[a].expiration, a>> \in r.timers
    BY <1>5, <1>8, <2>5 DEF Agree
  <2> QED
    BY <2>2, <2>4, <2>6 DEF Agree
<1> QED
  BY <1>5, <1>8, <1>9 DEF r, new

\* timerfd_ is set to the first expiration, or to the next tick.
Arms(p, time) ==
  \A e \in p.timers : p.armed # 0 /\ (p.armed <= e[1] \/ p.armed <= time + 1)

\* addTimerInLoop enters a timer that is on its way.
LEMMA AddGood ==
  ASSUME NEW p, NEW X \in SUBSET Addrs, NEW F \in SUBSET Addrs, NEW C, NEW n \in Nat,
         Good(p, X, F, C, n), NEW a \in F, NEW time \in Nat
  PROVE  LET r == addTimerInLoop(p, a, time)
         IN  /\ Good(r, X, F \ {a}, C, n) /\ r.calling = p.calling
             /\ Arms(p, time) => Arms(r, time)
<1> DEFINE when == p.heap[a].expiration
<1> DEFINE q1 == Insert(p, {a})
<1> DEFINE r == addTimerInLoop(p, a, time)
<1> DEFINE earliest == \A e \in Expirations(p) : when < e
<1>1. p \in Queues /\ Agree(p) /\ ~In(p, a) /\ a \in Addrs
  BY DEF Good, Owned
<1>2. when \in Nat /\ p.armed \in Nat /\ p.timers \subseteq Nat \X Addrs
  BY <1>1 DEF Queues, Timers
<1>3. /\ q1 \in Queues /\ Agree(q1) /\ q1.heap = p.heap
      /\ \A b \in Addrs : In(q1, b) <=> In(p, b) \/ b \in {a}
      /\ q1.timers = p.timers \cup {<<p.heap[b].expiration, b>> : b \in {a}}
      /\ q1.cancelingTimers = p.cancelingTimers /\ q1.calling = p.calling
      /\ q1.armed = p.armed
  <2>1. {a} \in SUBSET Addrs /\ \A b \in {a} : ~In(p, b)
    BY <1>1
  <2> QED
    BY <1>1, <2>1, InsertGood
<1>4. r = IF earliest THEN resetTimerfd(q1, when, time) ELSE q1
  BY DEF addTimerInLoop
<1>5. earliest <=> \A e \in p.timers : when < e[1]
  BY DEF Expirations
<1> HIDE DEF when, q1, r, earliest
<1>6. q1.timers = p.timers \cup {<<when, a>>}
  BY <1>3 DEF when
<1>7. \A b : ActiveTimer(q1, b) = ActiveTimer(p, b)
  BY <1>3 DEF ActiveTimer
<1>8. Good(q1, X, F \ {a}, C, n)
  <2>1. Owned(q1, X, F \ {a})
    BY <1>1, <1>3 DEF Good, Owned
  <2>2. Canceled(q1, X, F \ {a}, C, n)
    BY <1>3, <1>7 DEF Good, Canceled
  <2> QED
    BY <1>3, <2>1, <2>2 DEF Good
<1>9. CASE earliest
  <2>1. /\ Good(r, X, F \ {a}, C, n) /\ r.timers = q1.timers /\ r.calling = q1.calling
        /\ r.armed \in Nat /\ r.armed # 0 /\ (r.armed = when \/ r.armed = time + 1)
    <3> DEFINE u == resetTimerfd(q1, when, time)
    <3> DEFINE G == F \ {a}
    <3>1. when \in Nat /\ Good(q1, X, G, C, n)
      BY <1>2, <1>8
    <3> HIDE DEF G
    <3>2. /\ Good(u, X, G, C, n) /\ u.timers = q1.timers /\ u.calling = q1.calling
          /\ u.armed \in Nat /\ u.armed # 0 /\ (u.armed = when \/ u.armed = time + 1)
      BY <3>1, ResetTimerfdGood
    <3>3. r = u
      BY <1>4, <1>9
    <3> HIDE DEF u
    <3> QED
      BY Zenon, <3>2, <3>3 DEF G
  <2>2. \A e \in r.timers : e[1] \in Nat /\ when <= e[1]
    <3> TAKE e \in r.timers
    <3>1. CASE e = <<when, a>>
      BY <1>2, <3>1
    <3>2. CASE e \in p.timers
      BY <1>2, <1>5, <1>9, <3>2
    <3> QED
      BY <1>6, <2>1, <3>1, <3>2
  <2>3. Arms(r, time)
    BY <1>2, <2>1, <2>2 DEF Arms
  <2> QED
    BY <1>3, <2>1, <2>3 DEF r
<1>10. CASE ~earliest
  <2>1. r = q1
    BY <1>4, <1>10
  <2>2. ASSUME Arms(p, time) PROVE Arms(q1, time)
    <3>1. PICK d \in p.timers : ~(when < d[1])
      BY <1>5, <1>10
    <3>2. d[1] \in Nat /\ p.armed # 0 /\ (p.armed <= d[1] \/ p.armed <= time + 1)
      BY <1>2, <2>2, <3>1 DEF Arms
    <3>3. p.armed <= when \/ p.armed <= time + 1
      BY <1>2, <3>1, <3>2
    <3> QED
      BY SMTT(30), <1>3, <1>6, <2>2, <3>2, <3>3 DEF Arms
  <2> QED
    BY <1>3, <1>8, <2>1, <2>2 DEF r
<1> QED
  BY <1>9, <1>10

\* cancelInLoop on a timer of the queue, of the batch that is being called, or
\* that is in neither of them.
LEMMA CancelGood ==
  ASSUME NEW p, NEW X \in SUBSET Addrs, NEW F \in SUBSET Addrs,
         NEW C \in SUBSET (Addrs \X Nat), NEW n \in Nat, Good(p, X, F, C, n),
         X # {} => p.calling, NEW id \in Addrs \X Nat
  PROVE  LET r == cancelInLoop(p, id)
             K == p.activeTimers \cup {ActiveTimer(p, a) : a \in X}
         IN  /\ Good(r, X, F, C \cup ({id} \cap K), n)
             /\ r.calling = p.calling /\ r.timers \subseteq p.timers /\ r.armed = p.armed
<1> DEFINE K == p.activeTimers \cup {ActiveTimer(p, a) : a \in X}
<1> DEFINE D == C \cup ({id} \cap K)
<1> DEFINE r == cancelInLoop(p, id)
<1> DEFINE i == id[1]
<1>1. /\ p \in Queues /\ Agree(p) /\ p.heap \in [Addrs -> Timers]
      /\ p.timers \subseteq Nat \X Addrs /\ p.activeTimers \subseteq Addrs \X Nat
      /\ p.cancelingTimers \subseteq Addrs \X Nat
  BY DEF Good, Queues
<1>2. i \in Addrs /\ id = <<i, id[2]>>
  OBVIOUS
<1>3. \A b \in p.activeTimers : b = ActiveTimer(p, b[1])
  BY <1>1 DEF Agree, ActiveTimer
<1>4. \A a \in Addrs : p.heap[a].sequence <= n /\ p.heap[a].sequence \in Nat
  BY <1>1 DEF Good, Canceled, Timers
<1>5. \A b \in K : b[2] <= n
  BY <1>3, <1>4, <1>1 DEF ActiveTimer
<1>6. \A b \in D : b[2] <= n
  BY <1>5 DEF Good, Canceled
<1>7. CASE id \in p.activeTimers
  <2>1. /\ id = ActiveTimer(p, i) /\ In(p, i)
        /\ i \notin X /\ i \notin F
    <3>1. id = ActiveTimer(p, i)
      BY <1>3, <1>7
    <3>2. In(p, i)
      BY <1>7, <3>1 DEF In
    <3> QED
      BY <1>2, <3>1, <3>2 DEF Good, Owned
  <2> DEFINE gone == <<p.heap[i].expiration, i>>
  <2>2. r = [p EXCEPT !.timers = p.timers \ {gone}, !.activeTimers = p.activeTimers \ {id},
                      !.heap = [p.heap EXCEPT ![i] = [p.heap[i] EXCEPT !.live = FALSE]]]
    BY <1>7 DEF cancelInLoop, Erase
  <2> HIDE DEF i, D, r, gone
  <2>3. p.heap[i] \in Timers /\ [p.heap[i] EXCEPT !.live = FALSE] \in Timers
    BY ZenonT(60), <1>1, <1>2 DEF Timers
  <2>4. /\ r.timers = p.timers \ {gone} /\ r.activeTimers = p.activeTimers \ {id}
        /\ r.heap = [p.heap EXCEPT ![i] = [p.heap[i] EXCEPT !.live = FALSE]]
        /\ r.cancelingTimers = p.cancelingTimers /\ r.calling = p.calling
        /\ r.armed = p.armed /\ r \in Queues
    BY ZenonT(60), <1>1, <1>2, <2>2, <2>3 DEF Queues
  <2>5. \A a \in Addrs :
          /\ r.heap[a].sequence = p.heap[a].sequence
          /\ r.heap[a].expiration = p.heap[a].expiration
          /\ r.heap[a].live <=> p.heap[a].live /\ a # i
    BY <1>1, <1>2, <2>3, <2>4 DEF Timers
  <2>6. \A a \in Addrs : ActiveTimer(r, a) = ActiveTimer(p, a)
    BY <2>5 DEF ActiveTimer
  <2>7. \A a \in Addrs : In(r, a) <=> In(p, a) /\ a # i
    BY <2>1, <2>4, <2>6 DEF In, ActiveTimer
  <2>8. Agree(r)
    <3>1. \A e \in r.timers : e[2] \in Addrs /\ e[2] # i
      <4> TAKE e \in r.timers
      <4>1. e \in p.timers /\ e # gone /\ e = <<e[1], e[2]>> /\ e[2] \in Addrs
        BY <1>1, <2>4
      <4>2. e[1] = p.heap[e[2]].expiration
        BY <1>1, <4>1 DEF Agree
      <4> QED
        BY <4>1, <4>2 DEF gone
    <3>2. \A e \in r.timers : e[1] = r.heap[e[2]].expiration /\ In(r, e[2])
      BY SMTT(30), <1>1, <2>4, <2>5, <2>7, <3>1 DEF Agree
    <3>3. \A b \in r.activeTimers : b[2] = r.heap[b[1]].sequence
      BY <1>1, <2>4, <2>5 DEF Agree
    <3>4. \A a \in Addrs : In(r, a) => <<r.heap[a].expiration, a>> \in r.timers
      BY SMTT(30), <1>1, <2>4, <2>5, <2>7 DEF Agree, gone
    <3> QED
      BY <3>2, <3>3, <3>4 DEF Agree
  <2>9. Owned(r, X, F)
    BY <2>1, <2>5, <2>7 DEF Good, Owned
  <2>10. Canceled(r, X, F, D, n)
    <3>1. \A a \in Addrs : a # i => ActiveTimer(p, a) # id
      BY <2>1 DEF ActiveTimer
    <3>2. \A a \in Addrs : a # i => (ActiveTimer(p, a) \in D <=> ActiveTimer(p, a) \in C)
      BY <3>1 DEF D
    <3>3. \A a \in Addrs : In(r, a) \/ a \in F => ActiveTimer(r, a) \notin D
      BY SMTT(30), <2>1, <2>6, <2>7, <3>2 DEF Good, Canceled
    <3>4. \A a \in X : ActiveTimer(r, a) \in D => ActiveTimer(r, a) \in r.cancelingTimers
      BY SMTT(30), <2>1, <2>4, <2>6, <3>2 DEF Good, Canceled
    <3> QED
      BY SMTT(30), <1>4, <1>6, <2>5, <3>3, <3>4 DEF Canceled
  <2> QED
    BY SMTT(30), <2>4, <2>8, <2>9, <2>10 DEF Good, r, D
<1>8. CASE id \notin p.activeTimers
  <2>1. PICK c \in SUBSET (Addrs \X Nat) :
          /\ r = [p EXCEPT !.cancelingTimers = c]
          /\ p.cancelingTimers \subseteq c
          /\ p.calling => id \in c
    <3>1. CASE p.calling
      <4>1. r = [p EXCEPT !.cancelingTimers = p.cancelingTimers \cup {id}]
        BY <1>8, <3>1 DEF cancelInLoop
      <4>2. p.cancelingTimers \cup {id} \in SUBSET (Addrs \X Nat)
        BY <1>1
      <4> QED
        BY Zenon, <4>1, <4>2
    <3>2. CASE ~p.calling
      <4>1. r = p /\ p = [p EXCEPT !.cancelingTimers = p.cancelingTimers]
        BY <1>1, <1>8, <3>2 DEF cancelInLoop, Queues
      <4> QED
        BY SMTT(30), <1>1, <3>2, <4>1
    <3> QED
      BY <3>1, <3>2
  <2> HIDE DEF D, r
  <2>2. /\ r.timers = p.timers /\ r.activeTimers = p.activeTimers /\ r.heap = p.heap
        /\ r.cancelingTimers = c /\ r.calling = p.calling
        /\ r.armed = p.armed /\ r \in Queues
    BY <1>1, <2>1 DEF Queues
  <2>3. \A a : ActiveTimer(r, a) = ActiveTimer(p, a) /\ (In(r, a) <=> In(p, a))
    BY <2>2 DEF ActiveTimer, In
  <2>4. Agree(r) /\ Owned(r, X, F)
    BY <2>2, <2>3 DEF Good, Agree, Owned
  <2>5. \A a \in Addrs : In(r, a) \/ a \in F => ActiveTimer(r, a) \notin D
    <3> SUFFICES ASSUME NEW a \in Addrs, In(p, a) \/ a \in F, ActiveTimer(p, a) \in D
                 PROVE  FALSE
      BY <2>3
    <3>1. ActiveTimer(p, a) \notin C
      BY DEF Good, Canceled
    <3>2. ActiveTimer(p, a) = id /\ id \in K
      BY <3>1 DEF D
    <3>3. PICK b \in X : id = ActiveTimer(p, b)
      BY <1>8, <3>2
    <3>4. a = b
      BY <3>2, <3>3 DEF ActiveTimer
    <3> QED
      BY <3>3, <3>4 DEF Good, Owned
  <2>6. \A a \in X : ActiveTimer(r, a) \in D => ActiveTimer(r, a) \in r.cancelingTimers
    BY SMTT(30), <2>1, <2>2, <2>3 DEF Good, Canceled, D
  <2> QED
    BY SMTT(30), <1>4, <1>6, <2>2, <2>4, <2>5, <2>6 DEF Good, Canceled, r, D
<1> QED
  BY <1>7, <1>8

\* getExpired moves the expired timers from the queue to the batch.
LEMMA ExpireGood ==
  ASSUME NEW p, NEW F \in SUBSET Addrs, NEW C \in SUBSET (Addrs \X Nat), NEW n \in Nat,
         Good(p, {}, F, C, n), NEW time \in Nat
  PROVE  LET X == ExpiredAt(p, time)
             r == getExpired(p, X, time)
         IN  X \subseteq Addrs /\ Good(r, X, F, C, n) /\ r.calling
<1> DEFINE X == ExpiredAt(p, time)
<1> DEFINE r == getExpired(p, X, time)
<1>1. /\ p \in Queues /\ Agree(p)
      /\ p.timers \subseteq Nat \X Addrs /\ p.activeTimers \subseteq Addrs \X Nat
      /\ p.armed \in Nat
  BY DEF Good, Queues
<1>2. \A a \in X : a \in Addrs /\ In(p, a)
  BY <1>1 DEF ExpiredAt, Agree
<1> HIDE DEF X
<1> DEFINE kept == {e \in p.timers : e[2] \notin X}
           active == {b \in p.activeTimers : b[1] \notin X}
           armed == IF p.armed <= time THEN 0 ELSE p.armed
<1>3. r = [p EXCEPT !.timers = kept, !.activeTimers = active, !.cancelingTimers = {},
                    !.calling = TRUE, !.armed = armed]
  BY DEF getExpired
<1>4. kept \subseteq Nat \X Addrs /\ active \subseteq Addrs \X Nat /\ armed \in Nat
  BY <1>1
<1> HIDE DEF r, kept, active, armed
<1>5. /\ r.timers = kept /\ r.activeTimers = active /\ r.cancelingTimers = {}
      /\ r.calling = TRUE /\ r.heap = p.heap /\ r \in Queues
  BY ZenonT(60), <1>1, <1>3, <1>4 DEF Queues
<1>6. \A a : ActiveTimer(r, a) = ActiveTimer(p, a)
  BY <1>5 DEF ActiveTimer
<1>7. \A a : In(r, a) <=> In(p, a) /\ a \notin X
  BY <1>5, <1>6 DEF In, active, ActiveTimer
<1>8. Agree(r)
  <2>1. \A e \in r.timers : e[1] = r.heap[e[2]].expiration /\ In(r, e[2])
    BY <1>1, <1>5, <1>7 DEF Agree, kept
  <2>2. \A b \in r.activeTimers : b[2] = r.heap[b[1]].sequence
    BY <1>1, <1>5 DEF Agree, active
  <2>3. \A a \in Addrs : In(r, a) => <<r.heap[a].expiration, a>> \in r.timers
    BY <1>1, <1>5, <1>7 DEF Agree, kept
  <2> QED
    BY <2>1, <2>2, <2>3 DEF Agree
<1>9. Owned(r, X, F)
  BY <1>2, <1>5, <1>7 DEF Good, Owned
<1>10. Canceled(r, X, F, C, n)
  <2>1. \A a \in X : ActiveTimer(r, a) \notin C
    BY <1>2, <1>6 DEF Good, Canceled
  <2> QED
    BY <1>5, <1>6, <1>7, <2>1 DEF Good, Canceled
<1> QED
  BY SMTT(30), <1>2, <1>5, <1>8, <1>9, <1>10 DEF Good, r, X

\* Every set of times has a first one.
LEMMA MinOfSet ==
  ASSUME NEW S \in SUBSET Nat, S # {}
  PROVE  Min(S) \in S /\ \A x \in S : Min(S) <= x
<1> DEFINE R == {s \in Nat \X Nat : s[1] < s[2]}
<1>1. IsWellFoundedOn(R, Nat)
  BY Zenon, NatLessThanWellFounded DEF OpToRel
<1> HIDE DEF R
<1>2. PICK x \in S : \A y \in S : ~(<<y, x>> \in R)
  BY Zenon, <1>1, WFMin
<1>3. \A y \in S : x <= y
  <2> TAKE y \in S
  <2>1. x \in Nat /\ y \in Nat
    OBVIOUS
  <2>2. y < x => <<y, x>> \in R
    BY <2>1 DEF R
  <2>3. ~(y < x)
    BY <1>2, <2>2
  <2> QED
    BY <2>1, <2>3
<1>4. \E z \in S : \A y \in S : z <= y
  BY <1>3
<1> QED
  BY Zenon, <1>4 DEF Min

\* reset enters the timers of the batch that repeat and were not canceled, and
\* deletes the others.
LEMMA RescheduleGood ==
  ASSUME NEW p, NEW X \in SUBSET Addrs, NEW F \in SUBSET Addrs, NEW C, NEW n \in Nat,
         Good(p, X, F, C, n), NEW start \in Nat
  PROVE  LET r == Reschedule(p, X, start)
         IN  Good(r, {}, F, C, n) /\ r.calling = FALSE
<1> DEFINE again == {a \in X : /\ p.heap[a].interval > 0
                               /\ ActiveTimer(p, a) \notin p.cancelingTimers}
<1> DEFINE heap == [a \in Addrs |->
                      IF a \in again
                        THEN [p.heap[a] EXCEPT !.expiration = start + p.heap[a].interval]
                      ELSE IF a \in X THEN [p.heap[a] EXCEPT !.live = FALSE]
                      ELSE p.heap[a]]
<1> DEFINE p1 == [p EXCEPT !.calling = FALSE, !.heap = heap]
<1> DEFINE r == Reschedule(p, X, start)
<1>1. /\ p \in Queues /\ Agree(p) /\ p.heap \in [Addrs -> Timers]
      /\ p.timers \subseteq Nat \X Addrs /\ p.activeTimers \subseteq Addrs \X Nat
  BY DEF Good, Queues
<1>2. r = Insert(p1, again)
  BY DEF Reschedule
<1>3. again \subseteq X /\ \A a \in again : ActiveTimer(p, a) \notin p.cancelingTimers
  OBVIOUS
<1> HIDE DEF again
<1>4. \A a \in Addrs :
        /\ heap[a] \in Timers /\ heap[a].sequence = p.heap[a].sequence
        /\ a \notin X => heap[a] = p.heap[a]
        /\ heap[a].live <=> p.heap[a].live /\ (a \in X => a \in again)
  <2> TAKE a \in Addrs
  <2>1. p.heap[a] \in Timers
    BY <1>1
  <2>2. CASE a \in again
    <3>1. heap[a] = [p.heap[a] EXCEPT !.expiration = start + p.heap[a].interval]
      BY <2>2
    <3> HIDE DEF heap
    <3> QED
      BY <1>3, <2>1, <2>2, <3>1 DEF Timers
  <2>3. CASE a \in X /\ a \notin again
    <3>1. heap[a] = [p.heap[a] EXCEPT !.live = FALSE]
      BY <2>3
    <3> HIDE DEF heap
    <3> QED
      BY Zenon, <2>1, <2>3, <3>1 DEF Timers
  <2>4. CASE a \notin X
    BY <1>3, <2>1, <2>4
  <2> QED
    BY <2>2, <2>3, <2>4
<1>5. heap \in [Addrs -> Timers]
  BY <1>4
<1> HIDE DEF heap
<1>6. /\ p1.timers = p.timers /\ p1.activeTimers = p.activeTimers
      /\ p1.cancelingTimers = p.cancelingTimers /\ p1.calling = FALSE
      /\ p1.heap = heap /\ p1 \in Queues
  BY ZenonT(60), <1>1, <1>5 DEF Queues
<1> HIDE DEF p1, r
<1>7. \A a \in Addrs : ActiveTimer(p1, a) = ActiveTimer(p, a) /\ (In(p1, a) <=> In(p, a))
  BY <1>4, <1>6 DEF ActiveTimer, In
<1>8. \A a \in Addrs : In(p, a) => a \notin X
  BY DEF Good, Owned
<1>9. Agree(p1)
  <2>1. \A e \in p1.timers : e[1] = p1.heap[e[2]].expiration /\ In(p1, e[2])
    <3> TAKE e \in p1.timers
    <3>1. e[2] \in Addrs /\ e[1] = p.heap[e[2]].expiration /\ In(p, e[2])
      BY <1>1, <1>6 DEF Agree
    <3> QED
      BY SMTT(30), <1>4, <1>6, <1>7, <1>8, <3>1
  <2>2. \A b \in p1.activeTimers : b[2] = p1.heap[b[1]].sequence
    <3> TAKE b \in p1.activeTimers
    <3>1. b[1] \in Addrs /\ b[2] = p.heap[b[1]].sequence
      BY <1>1, <1>6 DEF Agree
    <3> QED
      BY <1>4, <1>6, <3>1
  <2>3. \A a \in Addrs : In(p1, a) => <<p1.heap[a].expiration, a>> \in p1.timers
    BY SMTT(30), <1>1, <1>4, <1>6, <1>7, <1>8 DEF Agree
  <2> QED
    BY SMTT(30), <2>1, <2>2, <2>3 DEF Agree
<1>10. /\ r \in Queues /\ Agree(r) /\ r.heap = heap
       /\ \A a \in Addrs : In(r, a) <=> In(p, a) \/ a \in again
       /\ r.calling = FALSE
  <2>1. again \in SUBSET Addrs /\ \A a \in again : ~In(p1, a)
    BY SMTT(30), <1>3, <1>7, <1>8
  <2>2. /\ r \in Queues /\ Agree(r) /\ r.heap = p1.heap /\ r.calling = p1.calling
        /\ \A a \in Addrs : In(r, a) <=> In(p1, a) \/ a \in again
    BY SMTT(30), <1>2, <1>6, <1>9, <2>1, InsertGood
  <2> QED
    BY <1>6, <1>7, <2>2
<1>11. Owned(r, {}, F)
  BY SMTT(30), <1>3, <1>4, <1>10 DEF Good, Owned
<1>12. Canceled(r, {}, F, C, n)
  <2>1. \A a \in Addrs : ActiveTimer(r, a) = ActiveTimer(p, a)
    BY <1>4, <1>10 DEF ActiveTimer
  <2>2. \A a \in again : ActiveTimer(p, a) \notin C
    BY <1>3 DEF Good, Canceled
  <2>3. \A a \in Addrs : In(r, a) \/ a \in F => ActiveTimer(r, a) \notin C
    BY <1>10, <2>1, <2>2 DEF Good, Canceled
  <2> QED
    BY SMTT(30), <1>4, <1>10, <2>3 DEF Good, Canceled
<1> QED
  BY <1>10, <1>11, <1>12 DEF Good, r

\* The end of handleRead sets timerfd_ to the first expiration.
LEMMA ResetGood ==
  ASSUME NEW p, NEW X \in SUBSET Addrs, NEW F \in SUBSET Addrs, NEW C, NEW n \in Nat,
         Good(p, X, F, C, n), NEW start \in Nat, NEW time \in Nat
  PROVE  LET r == reset(p, X, start, time)
         IN  Good(r, {}, F, C, n) /\ r.calling = FALSE /\ Arms(r, time)
<1> DEFINE q1 == Reschedule(p, X, start)
<1> DEFINE when == Min(Expirations(q1))
<1> DEFINE r == reset(p, X, start, time)
<1>1. Good(q1, {}, F, C, n) /\ q1.calling = FALSE
  BY ZenonT(60), RescheduleGood
<1>2. r = IF q1.timers = {} THEN q1 ELSE resetTimerfd(q1, when, time)
  BY DEF reset
<1> HIDE DEF q1, r
<1>3. CASE q1.timers = {}
  BY <1>1, <1>2, <1>3 DEF Arms, r
<1>4. CASE q1.timers # {}
  <2>1. q1.timers \subseteq Nat \X Addrs
    BY <1>1 DEF Good, Queues
  <2>2. Expirations(q1) \in SUBSET Nat /\ Expirations(q1) # {}
    BY <1>4, <2>1 DEF Expirations
  <2>3. when \in Nat /\ \A e \in Expirations(q1) : when <= e
    BY <2>2, MinOfSet
  <2>4. \A e \in q1.timers : e[1] \in Nat /\ when <= e[1]
    BY <2>1, <2>3 DEF Expirations
  <2> HIDE DEF when
  <2> DEFINE u == resetTimerfd(q1, when, time)
  <2>5. /\ Good(u, {}, F, C, n) /\ u.timers = q1.timers /\ u.calling = q1.calling
        /\ u.armed \in Nat /\ u.armed # 0 /\ (u.armed = when \/ u.armed = time + 1)
    BY <1>1, <2>3, ResetTimerfdGood
  <2>6. r = u
    BY <1>2, <1>4
  <2> HIDE DEF u
  <2>7. Arms(u, time)
    BY <2>3, <2>4, <2>5 DEF Arms
  <2> QED
    BY <1>1, <2>5, <2>6, <2>7 DEF r
<1> QED
  BY Zenon, <1>3, <1>4

-----------------------------------------------------------------------------
Functors ==
  {User} \cup {AddOf(a) : a \in Addrs} \cup {CancelOf(id) : id \in Addrs \X Nat}

\* The timers that functors s bring to the queue, and that none does so twice.
Adds(s) == {a \in Addrs : \E i \in DOMAIN s : s[i] = AddOf(a)}
Single(s) == \A i, j \in DOMAIN s : \A a \in Addrs : s[i] = AddOf(a) /\ s[j] = AddOf(a) => i = j

\* What the kind of a functor says.
LEMMA Kinds ==
  /\ \A f \in Functors :
       /\ f.kind = "add" => f.timer \in Addrs /\ f = AddOf(f.timer)
       /\ f.kind = "cancel" => f.id \in Addrs \X Nat
  /\ \A a, b : AddOf(a) = AddOf(b) => a = b
  /\ \A a : AddOf(a).kind = "add" /\ AddOf(a).timer = a
  /\ NoArg.kind = "none" /\ User.kind = "user" /\ User \in Functors
  /\ \A a \in Addrs : AddOf(a) \in Functors
  /\ \A id : CancelOf(id).kind = "cancel"
  /\ \A id \in Addrs \X Nat : CancelOf(id) \in Functors
<1>1. /\ \A a : AddOf(a).kind = "add" /\ AddOf(a).timer = a
      /\ \A id : CancelOf(id).kind = "cancel" /\ CancelOf(id).id = id
      /\ NoArg.kind = "none" /\ User.kind = "user"
  BY DEF AddOf, CancelOf, NoArg, User
<1>2. /\ User \in Functors /\ \A a \in Addrs : AddOf(a) \in Functors
      /\ \A id \in Addrs \X Nat : CancelOf(id) \in Functors
  BY Zenon DEF Functors
<1>3. \A f \in Functors : \/ f = User \/ \E a \in Addrs : f = AddOf(a)
                          \/ \E id \in Addrs \X Nat : f = CancelOf(id)
  BY Zenon DEF Functors
<1>4. ASSUME NEW f \in Functors, f.kind = "add"
      PROVE  f.timer \in Addrs /\ f = AddOf(f.timer)
  BY <1>1, <1>3, <1>4
<1>5. ASSUME NEW f \in Functors, f.kind = "cancel"
      PROVE  f.id \in Addrs \X Nat
  BY <1>1, <1>3, <1>5
<1>6. \A a, b : AddOf(a) = AddOf(b) => a = b
  BY <1>1
<1> QED
  BY SMTT(30), <1>1, <1>2, <1>4, <1>5, <1>6

\* A functor is queued.
LEMMA AppendAdds ==
  ASSUME NEW s \in Seq(Functors), NEW f \in Functors
  PROVE  /\ Append(s, f) \in Seq(Functors) /\ Append(s, f) # <<>>
         /\ Adds(Append(s, f)) = Adds(s) \cup {a \in Addrs : f = AddOf(a)}
         /\ Single(s) /\ (\A a \in Adds(s) : f # AddOf(a)) => Single(Append(s, f))
<1> DEFINE n == Len(s)
<1> DEFINE r == Append(s, f)
<1>1. /\ n \in Nat /\ DOMAIN s = 1 .. n /\ r \in Seq(Functors)
      /\ DOMAIN r = 1 .. n + 1 /\ r # <<>> /\ r[n + 1] = f
      /\ \A i \in 1 .. n : r[i] = s[i]
  BY AppendProperties
<1> HIDE DEF n, r
<1>2. ASSUME NEW a \in Addrs
      PROVE  a \in Adds(r) <=> a \in Adds(s) \/ f = AddOf(a)
  <2>1. (\E i \in 1 .. n + 1 : r[i] = AddOf(a)) <=>
          (\E i \in 1 .. n : s[i] = AddOf(a)) \/ f = AddOf(a)
    BY <1>1
  <2> QED
    BY <1>1, <2>1 DEF Adds
<1>3. Adds(r) \subseteq Addrs /\ Adds(s) \subseteq Addrs
  BY DEF Adds
<1>4. ASSUME Single(s), \A a \in Adds(s) : f # AddOf(a)
      PROVE  Single(r)
  <2> SUFFICES ASSUME NEW i \in 1 .. n + 1, NEW j \in 1 .. n + 1, NEW a \in Addrs,
                      r[i] = AddOf(a), r[j] = AddOf(a)
               PROVE  i = j
    BY <1>1 DEF Single
  <2>1. CASE i \in 1 .. n /\ j \in 1 .. n
    BY <1>1, <1>4, <2>1 DEF Single
  <2>2. \A k \in 1 .. n : r[k] = AddOf(a) => a \in Adds(s)
    BY <1>1 DEF Adds
  <2>3. CASE f = AddOf(a)
    BY <1>1, <1>4, <2>2, <2>3
  <2>4. CASE f # AddOf(a)
    BY <1>1, <2>1, <2>4
  <2> QED
    BY <2>3, <2>4
<1> QED
  BY SMTT(30), <1>1, <1>2, <1>3, <1>4 DEF r

\* A functor is taken out.
LEMMA TailAdds ==
  ASSUME NEW s \in Seq(Functors), s # <<>>
  PROVE  /\ Head(s) \in Functors /\ Tail(s) \in Seq(Functors)
         /\ Adds(s) = Adds(Tail(s)) \cup {a \in Addrs : Head(s) = AddOf(a)}
         /\ Single(s) => Single(Tail(s)) /\ \A a \in Adds(Tail(s)) : Head(s) # AddOf(a)
<1> DEFINE n == Len(s)
<1> DEFINE r == Tail(s)
<1>1. /\ n \in Nat /\ n >= 1 /\ DOMAIN s = 1 .. n /\ r \in Seq(Functors)
      /\ DOMAIN r = 1 .. n - 1 /\ Head(s) = s[1] /\ s[1] \in Functors
      /\ \A i \in 1 .. n - 1 : r[i] = s[i + 1]
  BY HeadTailProperties, EmptySeq
<1> HIDE DEF n, r
<1>2. ASSUME NEW a \in Addrs
      PROVE  a \in Adds(s) <=> a \in Adds(r) \/ s[1] = AddOf(a)
  <2>1. (\E i \in 1 .. n : s[i] = AddOf(a)) <=>
          (\E i \in 1 .. n - 1 : s[i + 1] = AddOf(a)) \/ s[1] = AddOf(a)
    <3>1. ASSUME NEW i \in 1 .. n, i # 1
          PROVE  i - 1 \in 1 .. n - 1 /\ (i - 1) + 1 = i
      BY SMTT(30), <1>1, <3>1
    <3>2. \A i \in 1 .. n - 1 : i + 1 \in 1 .. n
      BY <1>1
    <3>3. 1 \in 1 .. n
      BY <1>1
    <3> QED
      BY <3>1, <3>2, <3>3
  <2> QED
    BY Zenon, <1>1, <2>1 DEF Adds
<1>3. Adds(r) \subseteq Addrs /\ Adds(s) \subseteq Addrs
  BY DEF Adds
<1>4. ASSUME Single(s)
      PROVE  Single(r) /\ \A a \in Adds(r) : s[1] # AddOf(a)
  <2>1. \A i \in 1 .. n - 1 : i + 1 \in 1 .. n /\ i + 1 # 1
    BY <1>1
  <2>2. ASSUME NEW i \in 1 .. n - 1, NEW j \in 1 .. n - 1, NEW a \in Addrs,
               r[i] = AddOf(a), r[j] = AddOf(a)
        PROVE  i = j
    <3>1. s[i + 1] = AddOf(a) /\ s[j + 1] = AddOf(a)
      BY SMTT(30), <1>1, <2>2
    <3>2. i + 1 = j + 1
      BY SMTT(30), <1>1, <1>4, <2>1, <3>1 DEF Single
    <3> QED
      BY SMTT(30), <1>1, <3>2
  <2>3. ASSUME NEW a \in Adds(r)
        PROVE  s[1] # AddOf(a)
    <3>1. PICK i \in 1 .. n - 1 : r[i] = AddOf(a)
      BY <1>1 DEF Adds
    <3>2. s[i + 1] = AddOf(a) /\ 1 \in 1 .. n /\ a \in Addrs
      BY <1>1, <1>3, <3>1
    <3> QED
      BY SMTT(30), <1>1, <1>4, <2>1, <3>2 DEF Single
  <2> QED
    BY <1>1, <2>2, <2>3 DEF Single
<1> QED
  BY <1>1, <1>2, <1>3, <1>4 DEF r

-----------------------------------------------------------------------------
Types ==
  /\ pendingFunctors \in Seq(Functors) /\ functors \in Seq(Functors)
  /\ expired \subseteq Addrs /\ now \in Nat /\ clock \in Nat /\ numCreated \in Nat
  /\ pc \in [Threads -> {"idle", "queue", "wakeup", "return"}]
  /\ arg \in [Threads -> Functors \cup {NoArg}]
  /\ \A t \in Threads : /\ pc[t] = "queue" => arg[t] \in Functors
                        /\ pc[t] = "return" => arg[t].kind = "add"
  /\ ids \subseteq Addrs \X Nat /\ canceled \subseteq Addrs \X Nat
  /\ q \in Queues

\* Thread t has made the timer at a and is yet to hand it over.
Handed(t, a) == pc[t] = "queue" /\ arg[t] = AddOf(a)

ThreadAdds == {a \in Addrs : \E t \in Threads : Handed(t, a)}

\* The timers on their way to the queue ...
Flight == Adds(pendingFunctors) \cup Adds(functors) \cup ThreadAdds

\* ... each on one way only.
Once ==
  /\ Single(pendingFunctors) /\ Single(functors)
  /\ Adds(pendingFunctors) \cap Adds(functors) = {}
  /\ \A t \in Threads, a \in Addrs :
       Handed(t, a) => /\ a \notin Adds(pendingFunctors) /\ a \notin Adds(functors)
                       /\ \A u \in Threads : Handed(u, a) => u = t

\* The callbacks of expired timers are called in handleRead, those of functors
\* in doPendingFunctors, and nowhere else.
Phases ==
  /\ loop # "expired" => expired = {}
  /\ loop = "expired" => q.calling
  /\ loop # "run" => functors = <<>>
  /\ loop = "run" => callingPendingFunctors

\* The loop has been told to look, or is about to be.
Told == wakeupFd \/ \E t \in Threads : pc[t] = "wakeup"

\* Functors that are waiting while the loop goes to sleep, and a quit that
\* comes after the loop looked for it, have their wake-up.
Woken ==
  /\ loop \in {"start", "while", "poll", "run"} /\ pendingFunctors # <<>> /\ ~early => Told
  /\ loop = "poll" /\ quit_ => Told

\* What timerfd_ is set to outside handleRead.
Set == loop # "expired" => Arms(q, clock)

IInv ==
  /\ Types /\ Once /\ Phases /\ Woken /\ Set
  /\ Good(q, expired, Flight, canceled, numCreated)

-----------------------------------------------------------------------------
\* Steps that move no timer.
LEMMA FlightSame ==
  ASSUME Once, Adds(pendingFunctors') = Adds(pendingFunctors), Single(pendingFunctors'),
         Adds(functors') = Adds(functors), Single(functors'),
         \A t \in Threads, a \in Addrs : Handed(t, a)' <=> Handed(t, a)
  PROVE  Once' /\ Flight' = Flight
<1>1. ThreadAdds' = ThreadAdds
  BY DEF ThreadAdds
<1> QED
  BY <1>1 DEF Once, Flight

\* A thread makes a timer.
LEMMA FlightNew ==
  ASSUME Once, Types, NEW t \in Threads, NEW a \in Addrs, a \notin Flight, pc[t] # "queue",
         pc' = [pc EXCEPT ![t] = "queue"], arg' = [arg EXCEPT ![t] = AddOf(a)],
         UNCHANGED <<pendingFunctors, functors>>
  PROVE  Once' /\ Flight' = Flight \cup {a}
<1>1. \A u \in Threads, b \in Addrs :
        Handed(u, b)' <=> Handed(u, b) \/ (u = t /\ b = a)
  BY Kinds DEF Handed, Types
<1>2. ThreadAdds' = ThreadAdds \cup {a}
  BY <1>1 DEF ThreadAdds
<1>3. /\ a \notin Adds(pendingFunctors) /\ a \notin Adds(functors)
      /\ \A u \in Threads : ~Handed(u, a)
  BY DEF Flight, ThreadAdds
<1>4. Flight' = Flight \cup {a}
  BY <1>2 DEF Flight
<1>5. ~(\E b : Handed(t, b))
  BY DEF Handed
<1>6. Once'
  BY <1>1, <1>3, <1>5 DEF Once
<1> QED
  BY SMTT(30), <1>4, <1>6

\* A thread hands a functor over.
LEMMA FlightQueue ==
  ASSUME Once, Types, NEW t \in Threads, QueueInLoop(t)
  PROVE  Once' /\ Flight' = Flight
<1>1. /\ pc[t] = "queue" /\ arg[t] \in Functors /\ arg' = arg /\ functors' = functors
      /\ pendingFunctors' = Append(pendingFunctors, arg[t])
      /\ pc' = [pc EXCEPT ![t] = "wakeup"] /\ pendingFunctors \in Seq(Functors)
  BY DEF QueueInLoop, Types
<1>2. \A u \in Threads, b \in Addrs : Handed(u, b)' <=> Handed(u, b) /\ u # t
  BY <1>1 DEF Handed, Types
<1>3. \A b \in Addrs : Handed(t, b) <=> arg[t] = AddOf(b)
  BY <1>1 DEF Handed
<1>4. \A a \in Adds(pendingFunctors) : arg[t] # AddOf(a)
  BY <1>3 DEF Once, Adds
<1>5. /\ Adds(pendingFunctors') = Adds(pendingFunctors) \cup {a \in Addrs : Handed(t, a)}
      /\ Single(pendingFunctors')
  BY <1>1, <1>3, <1>4, AppendAdds DEF Once
<1>6. Flight' = Flight
  <2>1. ASSUME NEW a \in Addrs
        PROVE  a \in Flight' <=> a \in Flight
    BY SMTT(30), <1>1, <1>2, <1>5 DEF Flight, ThreadAdds
  <2>2. Flight' \subseteq Addrs /\ Flight \subseteq Addrs
    BY DEF Flight, ThreadAdds, Adds
  <2> QED
    BY <2>1, <2>2
<1>7. Once'
  BY SMTT(30), <1>1, <1>2, <1>5 DEF Once
<1> QED
  BY <1>6, <1>7

\* The loop takes all functors.
LEMMA FlightSwap ==
  ASSUME Once, Types, functors = <<>>, functors' = pendingFunctors, pendingFunctors' = <<>>,
         UNCHANGED <<pc, arg>>
  PROVE  Once' /\ Flight' = Flight
<1>1. Adds(<<>>) = {} /\ Single(<<>>)
  BY DEF Adds, Single
<1>2. \A t, a : Handed(t, a)' <=> Handed(t, a)
  BY DEF Handed
<1>3. ThreadAdds' = ThreadAdds
  BY <1>2 DEF ThreadAdds
<1>4. Adds(functors') = Adds(pendingFunctors) /\ Adds(pendingFunctors') = {}
      /\ Single(functors') /\ Single(pendingFunctors') /\ Adds(functors) = {}
  BY SMTT(30), <1>1 DEF Once
<1> QED
  BY <1>2, <1>3, <1>4 DEF Once, Flight

\* The loop runs a functor.
LEMMA FlightRun ==
  ASSUME Once, Types, functors # <<>>, functors' = Tail(functors),
         Adds(pendingFunctors') = Adds(pendingFunctors), Single(pendingFunctors'),
         UNCHANGED <<pc, arg>>
  PROVE  /\ Once' /\ Flight' = Flight \ {a \in Addrs : Head(functors) = AddOf(a)}
         /\ \A a \in Addrs : Head(functors) = AddOf(a) => a \in Flight
<1>1. /\ Adds(functors) = Adds(functors') \cup {a \in Addrs : Head(functors) = AddOf(a)}
      /\ Single(functors') /\ \A a \in Adds(functors') : Head(functors) # AddOf(a)
  BY SMTT(30), TailAdds DEF Once, Types
<1>2. \A t, a : Handed(t, a)' <=> Handed(t, a)
  BY DEF Handed
<1>3. ThreadAdds' = ThreadAdds
  BY <1>2 DEF ThreadAdds
<1>4. \A a \in Adds(functors) : a \notin Adds(pendingFunctors) /\ a \notin ThreadAdds
  BY DEF Once, ThreadAdds
<1>5. Flight' = Flight \ {a \in Addrs : Head(functors) = AddOf(a)}
  <2>1. ASSUME NEW a \in Addrs
        PROVE  a \in Flight' <=> a \in Flight /\ Head(functors) # AddOf(a)
    BY SMTT(30), <1>1, <1>3, <1>4 DEF Flight
  <2>2. Flight' \subseteq Addrs /\ Flight \subseteq Addrs
    BY DEF Flight, ThreadAdds, Adds
  <2> QED
    BY <2>1, <2>2
<1>6. Once'
  BY SMTT(30), <1>1, <1>2 DEF Once
<1> QED
  BY SMTT(30), <1>1, <1>5, <1>6 DEF Flight

-----------------------------------------------------------------------------
\* A call in the loop thread keeps the invariant, and a functor that brings no
\* timer may have been taken out before.
LEMMA CallbackStep ==
  ASSUME IInv, Callback,
         UNCHANGED <<loop, callingPendingFunctors, expired, now, clock, pc, arg>>,
         loop \in {"start", "events", "expired", "run"},
         functors' \in Seq(Functors), Adds(functors') = Adds(functors), Single(functors'),
         loop # "run" => functors' = <<>>
  PROVE  IInv'
<1> DEFINE Rest == <<pendingFunctors, wakeupFd, quit_, early>>
<1>0. /\ Types /\ Once /\ Phases /\ Woken /\ Set
      /\ Good(q, expired, Flight, canceled, numCreated)
      /\ Flight \subseteq Addrs /\ expired \subseteq Addrs /\ canceled \subseteq Addrs \X Nat
      /\ numCreated \in Nat /\ clock \in Nat /\ q \in Queues
  BY DEF IInv, Types, Flight, ThreadAdds, Adds
<1>1. \A t \in Threads, a \in Addrs : Handed(t, a)' <=> Handed(t, a)
  BY DEF Handed
<1>2. ASSUME UNCHANGED Rest
      PROVE  Once' /\ Flight' = Flight /\ Woken'
  <2>1. Once' /\ Flight' = Flight
    BY SMTT(30), <1>0, <1>1, <1>2, FlightSame DEF Once
  <2>2. Told' = Told
    BY <1>2 DEF Told
  <2>3. Woken'
    BY SMTT(30), <1>0, <1>2, <2>2 DEF Woken
  <2> QED
    BY SMTT(30), <2>1, <2>3
<1>3. ASSUME UNCHANGED <<pendingFunctors, wakeupFd, quit_, q, numCreated, ids, calls, canceled, early>>
      PROVE  IInv'
  <2>1. Types' /\ Phases' /\ Set'
    BY <1>0, <1>3 DEF Types, Phases, Set
  <2> QED
    BY SMTT(30), <1>0, <1>2, <1>3, <2>1 DEF IInv
<1>4. ASSUME pendingFunctors' = Append(pendingFunctors, User),
             wakeupFd' = (wakeupFd \/ callingPendingFunctors),
             early' = (early \/ loop = "start"),
             UNCHANGED <<quit_, q, numCreated, ids, canceled>>
      PROVE  IInv'
  <2>1. /\ pendingFunctors' \in Seq(Functors)
        /\ Adds(pendingFunctors') = Adds(pendingFunctors) /\ Single(pendingFunctors')
    <3>1. User \in Functors /\ \A a : User # AddOf(a)
      BY Kinds
    <3>2. pendingFunctors \in Seq(Functors) /\ Single(pendingFunctors)
      BY <1>0 DEF Types, Once
    <3>3. {a \in Addrs : User = AddOf(a)} = {}
      BY <3>1
    <3>4. /\ pendingFunctors' \in Seq(Functors)
          /\ Adds(pendingFunctors') =
               Adds(pendingFunctors) \cup {a \in Addrs : User = AddOf(a)}
          /\ Single(pendingFunctors')
      BY SMTT(30), <1>4, <3>1, <3>2, AppendAdds
    <3> QED
      BY <3>3, <3>4
  <2>2. Once' /\ Flight' = Flight
    BY SMTT(30), <1>0, <1>1, <2>1, FlightSame
  <2>3. Types' /\ Phases' /\ Set'
    BY SMTT(30), <1>0, <1>4, <2>1 DEF Types, Phases, Set
  <2>4. Woken'
    BY ZenonT(60), <1>0, <1>4 DEF Woken, Told, Phases
  <2> QED
    BY SMTT(30), <1>0, <1>4, <2>2, <2>3, <2>4 DEF IInv
<1>5. ASSUME NEW a \in Addrs, NEW when \in {clock, clock + 1}, NEW every \in {0, 1},
             ~q.heap[a].live,
             q' = addTimerInLoop([q EXCEPT !.heap[a] = NewTimer(numCreated + 1, when, every)],
                                 a, clock),
             ids' = ids \cup {<<a, numCreated + 1>>}, numCreated' = numCreated + 1,
             UNCHANGED Rest, canceled' = canceled
      PROVE  IInv'
  <2> DEFINE p == Made(q, a, numCreated, when, every)
  <2> DEFINE G == Flight \cup {a}
  <2>1. when \in Nat /\ every \in Nat /\ numCreated + 1 \in Nat
    BY SMTT(30), <1>0
  <2>2. /\ Good(p, expired, G, canceled, numCreated + 1)
        /\ p.timers = q.timers /\ p.armed = q.armed /\ p.calling = q.calling
    <3>1. Free(q, expired, Flight, canceled, numCreated, a, when, every)
      BY <1>0, <1>5, <2>1 DEF Free
    <3> QED
      BY ONLY <3>1, NewGood
  <2>3. a \in G /\ G \subseteq Addrs /\ q' = addTimerInLoop(p, a, clock) /\ G \ {a} = Flight
    <3>1. a \notin Flight
      BY <1>0, <1>5 DEF Good, Owned
    <3> QED
      BY <1>0, <1>5, <3>1 DEF Made
  <2> HIDE DEF p, G
  <2>4. /\ Good(q', expired, Flight, canceled, numCreated + 1) /\ q'.calling = p.calling
        /\ Arms(p, clock) => Arms(q', clock)
    <3>1. /\ expired \in SUBSET Addrs /\ G \in SUBSET Addrs /\ a \in G /\ clock \in Nat
          /\ Good(p, expired, G, canceled, numCreated + 1)
      BY SMTT(30), <1>0, <2>2, <2>3
    <3>2. LET r == addTimerInLoop(p, a, clock)
          IN  /\ Good(r, expired, G \ {a}, canceled, numCreated + 1)
              /\ r.calling = p.calling
              /\ Arms(p, clock) => Arms(r, clock)
      BY ONLY <2>1, <3>1, AddGood
    <3> QED
      BY ONLY ZenonT(60), <2>3, <3>2
  <2>5. q' \in Queues
    BY SMTT(30), <2>4 DEF Good
  <2>6. Arms(q, clock) => Arms(q', clock)
    BY <2>2, <2>4 DEF Arms, Expirations
  <2>7. Types' /\ Phases' /\ Set'
    BY SMTT(30), <1>0, <1>5, <2>1, <2>2, <2>4, <2>5, <2>6 DEF Types, Phases, Set
  <2> QED
    BY SMTT(30), <1>2, <1>5, <2>4, <2>7 DEF IInv
<1>6. ASSUME NEW id \in ids, DoCancel(id), UNCHANGED <<Rest, numCreated, ids>>
      PROVE  IInv'
  <2>1. q' = cancelInLoop(q, id) /\ canceled' = canceled \cup ({id} \cap Known)
        /\ id \in Addrs \X Nat /\ (expired # {} => q.calling)
    BY SMTT(30), <1>0, <1>6 DEF DoCancel, Types, Phases
  <2>2. /\ Good(q', expired, Flight, canceled', numCreated)
        /\ q'.calling = q.calling /\ q'.timers \subseteq q.timers /\ q'.armed = q.armed
    BY ZenonT(60), <1>0, <2>1, CancelGood DEF Known
  <2>3. Arms(q, clock) => Arms(q', clock)
    BY SMTT(30), <2>2 DEF Arms, Expirations
  <2>4. Types' /\ Phases' /\ Set'
    <3>1. q' \in Queues /\ canceled' \subseteq Addrs \X Nat
      BY SMTT(30), <1>0, <2>1, <2>2 DEF Good
    <3> QED
      BY SMTT(30), <1>0, <1>6, <2>2, <2>3, <3>1 DEF Types, Phases, Set
  <2> QED
    BY SMTT(30), <1>2, <1>6, <2>2, <2>4 DEF IInv
<1>7. ASSUME quit_' = TRUE,
             UNCHANGED <<pendingFunctors, wakeupFd, q, numCreated, ids, canceled, early>>
      PROVE  IInv'
  <2>1. Once' /\ Flight' = Flight
    BY SMTT(30), <1>0, <1>1, <1>7, FlightSame DEF Once
  <2>2. Types' /\ Phases' /\ Set'
    BY <1>0, <1>7 DEF Types, Phases, Set
  <2>3. Told' = Told
    BY <1>7 DEF Told
  <2>4. Woken'
    BY <1>0, <1>7, <2>3 DEF Woken
  <2> QED
    BY SMTT(30), <1>0, <1>7, <2>1, <2>2, <2>4 DEF IInv
<1> QED
  BY ZenonT(60), <1>3, <1>4, <1>5, <1>6, <1>7 DEF Callback

\* The steps of the other threads keep the invariant.
LEMMA ThreadStep ==
  ASSUME IInv, NEW t \in Threads, Thread(t)
  PROVE  IInv'
<1>0. /\ Types /\ Once /\ Phases /\ Woken /\ Set
      /\ Good(q, expired, Flight, canceled, numCreated)
      /\ Flight \subseteq Addrs /\ expired \subseteq Addrs /\ canceled \subseteq Addrs \X Nat
      /\ numCreated \in Nat /\ clock \in Nat /\ q \in Queues
      /\ pc \in [Threads -> {"idle", "queue", "wakeup", "return"}]
      /\ arg \in [Threads -> Functors \cup {NoArg}]
  BY DEF IInv, Types, Flight, ThreadAdds, Adds
<1>1. ASSUME AddTimer(t)
      PROVE  IInv'
  <2>1. PICK a \in Addrs, when \in {clock, clock + 1}, every \in {0, 1} :
          /\ ~q.heap[a].live
          /\ q' = [q EXCEPT !.heap[a] = NewTimer(numCreated + 1, when, every)]
          /\ arg' = [arg EXCEPT ![t] = AddOf(a)]
    BY ZenonT(60), <1>1 DEF AddTimer
  <2>2. /\ pc[t] = "idle" /\ numCreated' = numCreated + 1
        /\ pc' = [pc EXCEPT ![t] = "queue"]
        /\ UNCHANGED <<loop, quit_, queueVars, wakeupFd, handleVars, clock, ids,
                       canceled, early>>
    BY <1>1 DEF AddTimer
  <2>3. when \in Nat /\ every \in Nat /\ numCreated + 1 \in Nat
    BY <1>0
  <2>4. /\ Good(q', expired, Flight \cup {a}, canceled, numCreated + 1)
        /\ q'.timers = q.timers /\ q'.armed = q.armed /\ q'.calling = q.calling
    <3>1. Free(q, expired, Flight, canceled, numCreated, a, when, every)
      BY SMTT(30), <1>0, <2>1, <2>3 DEF Free
    <3> DEFINE p == Made(q, a, numCreated, when, every)
    <3>2. /\ Good(p, expired, Flight \cup {a}, canceled, numCreated + 1)
          /\ p.timers = q.timers /\ p.armed = q.armed /\ p.calling = q.calling
      BY ONLY <3>1, NewGood
    <3>3. q' = p
      BY <2>1 DEF Made
    <3> QED
      BY ONLY <3>2, <3>3
  <2>5. Once' /\ Flight' = Flight \cup {a}
    <3>1. a \notin Flight
      BY <1>0, <2>1 DEF Good, Owned
    <3> QED
      BY ZenonT(60), <1>0, <2>1, <2>2, <3>1, FlightNew DEF queueVars
  <2>6. Types'
    <3>1. q' \in Queues
      BY <2>4 DEF Good
    <3>2. AddOf(a) \in Functors
      BY SMTT(30), Kinds
    <3> QED
      BY SMTT(30), <1>0, <2>1, <2>2, <2>3, <3>1, <3>2 DEF Types, queueVars, handleVars
  <2>7. Phases' /\ Set'
    BY SMTT(30), <1>0, <2>2, <2>4 DEF Phases, Set, Arms, queueVars, handleVars
  <2>8. Told => Told'
    BY <1>0, <2>2 DEF Told
  <2>9. Woken'
    BY SMTT(30), <1>0, <2>2, <2>8 DEF Woken, queueVars
  <2> QED
    BY SMTT(30), <2>2, <2>4, <2>5, <2>6, <2>7, <2>9 DEF IInv, handleVars
<1>2. ASSUME UNCHANGED <<loop, callingPendingFunctors, functors, q, handleVars, clock,
                         numCreated, canceled>>,
             Once', Flight' = Flight, Types', Woken'
      PROVE  IInv'
  <2>1. Phases' /\ Set'
    BY <1>0, <1>2 DEF Phases, Set, handleVars
  <2> QED
    BY SMTT(30), <1>0, <1>2, <2>1 DEF IInv, handleVars
<1>3. ASSUME Cancel(t)
      PROVE  IInv'
  <2>1. PICK f \in {User} \cup {CancelOf(id) : id \in ids} : arg' = [arg EXCEPT ![t] = f]
    BY ZenonT(60), <1>3 DEF Cancel
  <2>2. /\ pc[t] = "idle" /\ pc' = [pc EXCEPT ![t] = "queue"]
        /\ UNCHANGED <<loop, quit_, queueVars, wakeupFd, q, handleVars, clock,
                       numCreated, ids, canceled, early>>
    BY <1>3 DEF Cancel
  <2>3. f \in Functors /\ f.kind # "add"
    <3>1. ids \subseteq Addrs \X Nat
      BY <1>0 DEF Types
    <3> QED
      BY <3>1, Kinds
  <2>4. \A u \in Threads, a \in Addrs : Handed(u, a)' <=> Handed(u, a)
    BY SMTT(30), <1>0, <2>1, <2>2, <2>3, Kinds DEF Handed
  <2>5. Once' /\ Flight' = Flight
    BY SMTT(30), <1>0, <2>2, <2>4, FlightSame DEF Once, queueVars
  <2>6. Types'
    BY SMTT(30), <1>0, <2>1, <2>2, <2>3 DEF Types, queueVars, handleVars
  <2>7. Told => Told'
    BY SMTT(30), <1>0, <2>2 DEF Told
  <2>8. Woken'
    BY SMTT(30), <1>0, <2>2, <2>7 DEF Woken, queueVars
  <2> QED
    BY SMTT(30), <1>2, <2>2, <2>5, <2>6, <2>8 DEF queueVars
<1>4. ASSUME QueueInLoop(t)
      PROVE  IInv'
  <2>1. Once' /\ Flight' = Flight
    BY SMTT(30), <1>0, <1>4, FlightQueue
  <2>2. pendingFunctors' \in Seq(Functors) /\ pc' = [pc EXCEPT ![t] = "wakeup"]
    <3>1. pendingFunctors \in Seq(Functors) /\ arg[t] \in Functors
      BY SMTT(30), <1>0, <1>4 DEF Types, QueueInLoop
    <3> QED
      BY SMTT(30), <1>4, <3>1, AppendAdds DEF QueueInLoop
  <2>3. Types'
    BY <1>0, <1>4, <2>2 DEF Types, QueueInLoop, handleVars
  <2>4. Told'
    BY <1>0, <2>2 DEF Told
  <2> QED
    BY SMTT(30), <1>2, <1>4, <2>1, <2>3, <2>4 DEF QueueInLoop, Woken
<1>5. ASSUME Quit(t)
      PROVE  IInv'
  <2>1. pc[t] = "idle" /\ pc' = [pc EXCEPT ![t] = "wakeup"] /\ arg' = arg
    BY <1>5 DEF Quit
  <2>2. \A u \in Threads, a \in Addrs : Handed(u, a)' <=> Handed(u, a)
    BY SMTT(30), <1>0, <2>1 DEF Handed
  <2>3. Once' /\ Flight' = Flight
    BY SMTT(30), <1>0, <1>5, <2>2, FlightSame DEF Once, Quit, queueVars
  <2>4. Types'
    BY <1>0, <1>5, <2>1 DEF Types, Quit, queueVars, handleVars
  <2>5. Told'
    BY <1>0, <2>1 DEF Told
  <2> QED
    BY SMTT(30), <1>2, <1>5, <2>3, <2>4, <2>5 DEF Quit, queueVars, Woken
<1>6. ASSUME Wakeup(t)
      PROVE  IInv'
  <2>1. /\ pc[t] = "wakeup"
        /\ pc' = [pc EXCEPT ![t] = IF arg[t].kind = "add" THEN "return" ELSE "idle"]
        /\ arg' = [arg EXCEPT ![t] = IF arg[t].kind = "add" THEN arg[t] ELSE NoArg]
    BY <1>6 DEF Wakeup
  <2>2. \A u \in Threads, a \in Addrs : Handed(u, a)' <=> Handed(u, a)
    BY SMTT(30), <1>0, <2>1 DEF Handed
  <2>3. Once' /\ Flight' = Flight
    BY SMTT(30), <1>0, <1>6, <2>2, FlightSame DEF Once, Wakeup, queueVars
  <2>4. Types'
    <3>1. /\ pc' \in [Threads -> {"idle", "queue", "wakeup", "return"}]
          /\ arg' \in [Threads -> Functors \cup {NoArg}]
      BY SMTT(30), <1>0, <2>1
    <3>2. \A u \in Threads : /\ pc'[u] = "queue" => arg'[u] \in Functors
                             /\ pc'[u] = "return" => arg'[u].kind = "add"
      BY <1>0, <2>1 DEF Types
    <3> QED
      BY SMTT(30), <1>0, <1>6, <3>1, <3>2 DEF Types, Wakeup, queueVars, handleVars
  <2>5. Told'
    BY SMTT(30), <1>6 DEF Told, Wakeup
  <2> QED
    BY SMTT(30), <1>2, <1>6, <2>3, <2>4, <2>5 DEF Wakeup, queueVars, Woken
<1>7. ASSUME ReturnId(t)
      PROVE  IInv'
  <2>1. /\ pc[t] = "return" /\ pc' = [pc EXCEPT ![t] = "idle"]
        /\ arg' = [arg EXCEPT ![t] = NoArg] /\ arg[t].kind = "add"
        /\ arg[t] \in Functors
    BY SMTT(30), <1>0, <1>7, Kinds DEF ReturnId, Types
  <2>2. \A u \in Threads, a \in Addrs : Handed(u, a)' <=> Handed(u, a)
    BY SMTT(30), <1>0, <2>1 DEF Handed
  <2>3. Once' /\ Flight' = Flight
    BY ZenonT(60), <1>0, <1>7, <2>2, FlightSame DEF Once, ReturnId, queueVars
  <2>4. ids' \subseteq Addrs \X Nat
    <3> DEFINE a == arg[t].timer
    <3>1. a \in Addrs
      BY <2>1, Kinds
    <3>2. q.heap[a].sequence \in Nat
      BY SMTT(30), <1>0, <3>1 DEF Queues, Timers
    <3>3. \A seq \in (IF q.heap[a].live THEN {q.heap[a].sequence} ELSE 1 .. numCreated) :
            seq \in Nat
      BY SMTT(30), <1>0, <3>2
    <3>4. PICK seq \in (IF q.heap[a].live THEN {q.heap[a].sequence} ELSE 1 .. numCreated) :
            ids' = ids \cup {<<a, seq>>}
      BY SMTT(30), <1>7 DEF ReturnId
    <3> HIDE DEF a
    <3> QED
      BY SMTT(30), <1>0, <3>1, <3>3, <3>4 DEF Types
  <2>5. Types'
    BY SMTT(30), <1>0, <1>7, <2>1, <2>4 DEF Types, ReturnId, queueVars, handleVars
  <2>6. Told => Told'
    BY ZenonT(60), <1>0, <1>7, <2>1 DEF Told, ReturnId
  <2>7. Woken'
    BY <1>0, <1>7, <2>6 DEF Woken, ReturnId, queueVars
  <2> QED
    BY SMTT(30), <1>2, <1>7, <2>3, <2>5, <2>7 DEF ReturnId, queueVars
<1> QED
  BY SMTT(30), <1>1, <1>3, <1>4, <1>5, <1>6, <1>7 DEF Thread

\* The steps of the loop thread, and the clock's, keep the invariant.
LEMMA LoopStep ==
  ASSUME IInv, Tick \/ Loop
  PROVE  IInv'
<1>0. /\ Types /\ Once /\ Phases /\ Woken /\ Set
      /\ Good(q, expired, Flight, canceled, numCreated)
      /\ Flight \subseteq Addrs /\ expired \subseteq Addrs /\ canceled \subseteq Addrs \X Nat
      /\ numCreated \in Nat /\ clock \in Nat /\ now \in Nat /\ q \in Queues
      /\ pendingFunctors \in Seq(Functors) /\ functors \in Seq(Functors)
  BY ZenonT(60) DEF IInv, Types, Flight, ThreadAdds, Adds
\* The steps that move no timer and run nothing.
<1>1. ASSUME UNCHANGED <<pendingFunctors, functors, threadVars>>
      PROVE  Once' /\ Flight' = Flight
  <2>1. \A t \in Threads, a \in Addrs : Handed(t, a)' <=> Handed(t, a)
    BY <1>1 DEF Handed, threadVars
  <2> QED
    BY SMTT(30), <1>0, <1>1, <2>1, FlightSame DEF Once
<1>2. ASSUME UNCHANGED <<pendingFunctors, functors, threadVars, q, handleVars,
                         numCreated, ids, canceled>>,
             clock' = clock \/ clock' = clock + 1, Phases', Woken',
             loop' # "expired" => loop # "expired"
      PROVE  IInv'
  <2>1. Types'
    BY SMTT(30), <1>0, <1>2 DEF Types, handleVars, threadVars
  <2>2. Set'
    <3>1. ASSUME NEW e \in q.timers, q.armed # 0, q.armed <= e[1] \/ q.armed <= clock + 1
          PROVE  q.armed <= e[1] \/ q.armed <= clock' + 1
      <4>1. q.armed \in Nat
        BY <1>0 DEF Queues
      <4> QED
        BY SMTT(30), <1>0, <1>2, <3>1, <4>1
    <3> QED
      BY SMTT(30), <1>0, <1>2, <3>1 DEF Set, Arms
  <2> QED
    BY SMTT(30), <1>0, <1>1, <1>2, <2>1, <2>2 DEF IInv, handleVars
<1>3. ASSUME Tick
      PROVE  IInv'
  <2>1. Told' = Told
    BY <1>3 DEF Told, Tick, threadVars
  <2>2. Phases' /\ Woken'
    BY SMTT(30), <1>0, <1>3, <2>1 DEF Phases, Woken, Tick, queueVars, handleVars
  <2> QED
    BY SMTT(30), <1>2, <1>3, <2>2 DEF Tick, queueVars
<1>4. ASSUME Start \/ While \/ Poll \/ HandleWakeup \/ EndFunctors
      PROVE  IInv'
  <2>1. Phases'
    BY <1>0, <1>4 DEF Phases, Start, While, Poll, HandleWakeup, EndFunctors, queueVars,
                      handleVars
  <2>2. Woken'
    <3>1. CASE Poll \/ HandleWakeup
      BY <3>1 DEF Woken, Poll, HandleWakeup
    <3>2. CASE Start \/ While \/ EndFunctors
      <4>1. Told' = Told
        BY <3>2 DEF Told, Start, While, EndFunctors, threadVars
      <4> QED
        BY SMTT(30), <1>0, <3>2, <4>1 DEF Woken, Start, While, EndFunctors, queueVars
    <3> QED
      BY SMTT(30), <1>4, <3>1, <3>2
  <2> QED
    BY SMTT(30), <1>2, <1>4, <2>1, <2>2 DEF Start, While, Poll, HandleWakeup, EndFunctors, queueVars
<1>5. ASSUME BeforeLoop \/ HandleIO \/ RunTimer
      PROVE  IInv'
  <2>1. /\ UNCHANGED <<loop, callingPendingFunctors, expired, now, clock, pc, arg, functors>>
        /\ Callback /\ loop \in {"start", "events", "expired"}
    BY <1>5 DEF BeforeLoop, HandleIO, RunTimer, handleVars, threadVars
  <2>2. functors = <<>> /\ Single(functors)
    BY SMTT(30), <1>0, <2>1 DEF Phases, Once
  <2> QED
    BY SMTT(30), <1>0, <2>1, <2>2, CallbackStep
<1>6. ASSUME HandleTimer
      PROVE  IInv'
  <2>1. /\ expired = {} /\ functors = <<>> /\ now' = clock
        /\ expired' = ExpiredAt(q, clock) /\ q' = getExpired(q, expired', clock)
        /\ loop' = "expired"
        /\ UNCHANGED <<queueVars, clock, numCreated, threadVars, ids, canceled>>
    BY <1>0, <1>6 DEF HandleTimer, Phases
  <2>2. expired' \subseteq Addrs /\ Good(q', expired', Flight, canceled, numCreated) /\ q'.calling
    <3>1. /\ Flight \in SUBSET Addrs /\ canceled \in SUBSET (Addrs \X Nat)
          /\ Good(q, {}, Flight, canceled, numCreated)
      BY SMTT(30), <1>0, <2>1
    <3>2. LET X == ExpiredAt(q, clock)
              r == getExpired(q, X, clock)
          IN  X \subseteq Addrs /\ Good(r, X, Flight, canceled, numCreated) /\ r.calling
      BY ONLY ZenonT(60), <1>0, <3>1, ExpireGood
    <3> QED
      BY ONLY <2>1, <3>2
  <2>3. q' \in Queues
    BY SMTT(30), <2>2 DEF Good
  <2>4. Types' /\ Phases' /\ Woken' /\ Set'
    BY SMTT(30), <1>0, <2>1, <2>2, <2>3 DEF Types, Phases, Woken, Set, queueVars, threadVars
  <2> QED
    BY SMTT(30), <1>1, <2>1, <2>2, <2>4 DEF IInv, queueVars
<1>7. ASSUME Reset
      PROVE  IInv'
  <2>1. /\ q' = reset(q, expired, now, clock) /\ expired' = {} /\ now' = 0
        /\ functors = <<>> /\ loop' = "events"
        /\ UNCHANGED <<queueVars, clock, numCreated, threadVars, ids, canceled>>
    BY <1>0, <1>7 DEF Reset, Phases
  <2>2. Good(q', {}, Flight, canceled, numCreated) /\ q'.calling = FALSE /\ Arms(q', clock)
    <3>1. expired \in SUBSET Addrs /\ Flight \in SUBSET Addrs
      BY SMTT(30), <1>0
    <3>2. LET r == reset(q, expired, now, clock)
          IN  Good(r, {}, Flight, canceled, numCreated) /\ r.calling = FALSE /\ Arms(r, clock)
      BY ONLY ZenonT(60), <1>0, <3>1, ResetGood
    <3> QED
      BY ONLY <2>1, <3>2
  <2>3. q' \in Queues
    BY SMTT(30), <2>2 DEF Good
  <2>4. Types' /\ Phases' /\ Woken' /\ Set'
    BY SMTT(30), <1>0, <2>1, <2>2, <2>3 DEF Types, Phases, Woken, Set, queueVars, threadVars
  <2> QED
    BY SMTT(30), <1>1, <2>1, <2>2, <2>4 DEF IInv, queueVars
<1>8. ASSUME Swap
      PROVE  IInv'
  <2>1. /\ callingPendingFunctors' = TRUE /\ functors' = pendingFunctors
        /\ pendingFunctors' = <<>> /\ loop' = "run" /\ loop = "events" /\ functors = <<>>
        /\ UNCHANGED <<q, handleVars, clock, numCreated, threadVars, ids, canceled>>
    BY <1>0, <1>8 DEF Swap, Phases
  <2>2. Once' /\ Flight' = Flight
    BY SMTT(30), <1>0, <2>1, FlightSwap DEF threadVars
  <2>3. Types' /\ Phases' /\ Woken' /\ Set'
    BY SMTT(30), <1>0, <2>1 DEF Types, Phases, Woken, Set, handleVars, threadVars
  <2> QED
    BY SMTT(30), <1>0, <2>1, <2>2, <2>3 DEF IInv, handleVars
<1>9. ASSUME RunFunctor
      PROVE  IInv'
  <2> DEFINE f == Head(functors)
  <2>1. /\ loop = "run" /\ functors # <<>> /\ functors' = Tail(functors)
        /\ UNCHANGED <<loop, callingPendingFunctors, handleVars, clock, threadVars>>
        /\ f \in Functors /\ functors' \in Seq(Functors) /\ callingPendingFunctors
    BY SMTT(30), <1>0, <1>9, TailAdds DEF RunFunctor, Phases
  <2>2. ASSUME f.kind = "user", Callback
        PROVE  IInv'
    <3>1. {a \in Addrs : f = AddOf(a)} = {}
      BY SMTT(30), <2>2, Kinds
    <3>2. /\ Adds(functors) = Adds(functors') \cup {a \in Addrs : f = AddOf(a)}
          /\ Single(functors')
      BY SMTT(30), <1>0, <2>1, TailAdds DEF Once
    <3>3. Adds(functors) = Adds(functors')
      BY SMTT(30), <3>1, <3>2
    <3> QED
      BY SMTT(30), <2>1, <2>2, <3>2, <3>3, CallbackStep DEF handleVars, threadVars
  <2>3. ASSUME UNCHANGED <<pendingFunctors, wakeupFd, quit_, numCreated, ids, early>>
        PROVE  /\ Once' /\ Woken' /\ Flight' = Flight \ {a \in Addrs : f = AddOf(a)}
               /\ \A a \in Addrs : f = AddOf(a) => a \in Flight
    <3>1. /\ Once' /\ Flight' = Flight \ {a \in Addrs : f = AddOf(a)}
          /\ \A a \in Addrs : f = AddOf(a) => a \in Flight
      BY SMTT(30), <1>0, <2>1, <2>3, FlightRun DEF Once, threadVars
    <3>2. Told' = Told
      BY SMTT(30), <2>1, <2>3 DEF Told, threadVars
    <3> QED
      BY SMTT(30), <1>0, <2>1, <2>3, <3>1, <3>2 DEF Woken
  <2>4. ASSUME f.kind = "add", q' = addTimerInLoop(q, f.timer, clock),
               UNCHANGED <<pendingFunctors, wakeupFd, quit_, numCreated, ids, calls, canceled,
                           early>>
        PROVE  IInv'
    <3> DEFINE a == f.timer
    <3>1. a \in Addrs /\ f = AddOf(a) /\ \A b : f = AddOf(b) <=> b = a
      BY SMTT(30), <2>1, <2>4, Kinds
    <3>2. Once' /\ Woken' /\ Flight' = Flight \ {a} /\ a \in Flight
      <4>1. {b \in Addrs : f = AddOf(b)} = {a}
        BY <3>1
      <4> QED
        BY SMTT(30), <2>3, <2>4, <3>1, <4>1
    <3> HIDE DEF a
    <3>3. /\ Good(q', expired, Flight \ {a}, canceled, numCreated) /\ q'.calling = q.calling
          /\ (Arms(q, clock) => Arms(q', clock))
      <4>1. /\ expired \in SUBSET Addrs /\ Flight \in SUBSET Addrs /\ a \in Flight
            /\ Good(q, expired, Flight, canceled, numCreated)
            /\ numCreated \in Nat /\ clock \in Nat
        BY SMTT(30), <1>0, <3>2
      <4>2. q' = addTimerInLoop(q, a, clock)
        BY <2>4 DEF a
      <4>3. LET r == addTimerInLoop(q, a, clock)
            IN  /\ Good(r, expired, Flight \ {a}, canceled, numCreated)
                /\ r.calling = q.calling
                /\ Arms(q, clock) => Arms(r, clock)
        BY ONLY <4>1, AddGood
      <4> QED
        BY ONLY <4>2, <4>3
    <3>4. q' \in Queues
      BY SMTT(30), <3>3 DEF Good
    <3>5. Types' /\ Phases' /\ Set'
      BY SMTT(30), <1>0, <2>1, <2>4, <3>3, <3>4 DEF Types, Phases, Set, handleVars, threadVars
    <3> QED
      BY SMTT(30), <2>1, <2>4, <3>2, <3>3, <3>5 DEF IInv, handleVars
  <2>5. ASSUME f.kind = "cancel", DoCancel(f.id),
               UNCHANGED <<pendingFunctors, wakeupFd, quit_, numCreated, ids, calls, early>>
        PROVE  IInv'
    <3>1. /\ q' = cancelInLoop(q, f.id) /\ canceled' = canceled \cup ({f.id} \cap Known)
          /\ f.id \in Addrs \X Nat /\ expired = {}
      BY SMTT(30), <1>0, <2>1, <2>5, Kinds DEF DoCancel, Phases
    <3>2. Once' /\ Woken' /\ Flight' = Flight
      <4>1. {b \in Addrs : f = AddOf(b)} = {}
        BY <2>5, Kinds
      <4> QED
        BY ZenonT(60), <2>3, <2>5, <4>1
    <3>3. /\ Good(q', expired, Flight, canceled', numCreated)
          /\ q'.calling = q.calling /\ q'.timers \subseteq q.timers /\ q'.armed = q.armed
      BY ZenonT(60), <1>0, <3>1, CancelGood DEF Known
    <3>4. Arms(q, clock) => Arms(q', clock)
      BY SMTT(30), <3>3 DEF Arms
    <3>5. Types' /\ Phases' /\ Set'
      <4>1. q' \in Queues /\ canceled' \subseteq Addrs \X Nat
        BY <1>0, <3>1, <3>3 DEF Good
      <4> QED
        BY SMTT(30), <1>0, <2>1, <2>5, <3>3, <3>4, <4>1 DEF Types, Phases, Set, handleVars, threadVars
    <3> QED
      BY SMTT(30), <2>1, <2>5, <3>2, <3>3, <3>5 DEF IInv, handleVars
  <2> QED
    BY SMTT(30), <1>9, <2>2, <2>4, <2>5 DEF RunFunctor
<1> QED
  BY SMTT(30), <1>3, <1>4, <1>5, <1>6, <1>7, <1>8, <1>9 DEF Loop

-----------------------------------------------------------------------------
\* Every reachable state of the loop, its threads and its timers satisfies the
\* inductive invariant.
THEOREM Invariance == Spec => []IInv
<1>1. Init => IInv
  <2> SUFFICES ASSUME Init PROVE IInv
    OBVIOUS
  <2>1. /\ loop = "start" /\ quit_ = FALSE /\ pendingFunctors = <<>> /\ functors = <<>>
        /\ q = EmptyQueue /\ expired = {} /\ now = 0 /\ clock = 1 /\ numCreated = 0
        /\ pc = [t \in Threads |-> "idle"] /\ arg = [t \in Threads |-> NoArg]
        /\ ids = {} /\ canceled = {}
    BY SMTT(30) DEF Init
  <2>2. /\ EmptyQueue.timers = {} /\ EmptyQueue.activeTimers = {}
        /\ EmptyQueue.heap = [a \in Addrs |-> NoTimer]
        /\ EmptyQueue \in Queues /\ \A a \in Addrs : ~q.heap[a].live /\ q.heap[a].sequence = 0
    BY ZenonT(60), <2>1 DEF EmptyQueue, Queues, NoTimer, Timers
  <2>3. Types
    BY <2>1, <2>2 DEF Types
  <2>4. Adds(<<>>) = {} /\ Single(<<>>)
    BY DEF Adds, Single
  <2>5. \A t \in Threads : \A a : ~Handed(t, a)
    BY <2>1 DEF Handed
  <2>6. Once /\ Flight = {}
    BY SMTT(30), <2>1, <2>4, <2>5 DEF Once, Flight, ThreadAdds
  <2>7. Phases /\ Woken /\ Set
    BY SMTT(30), <2>1, <2>2 DEF Phases, Woken, Set, Arms
  <2>8. Good(q, {}, {}, {}, 0)
    BY <2>1, <2>2 DEF Good, Agree, Owned, Canceled, In, ActiveTimer
  <2> QED
    BY SMTT(30), <2>1, <2>3, <2>6, <2>7, <2>8 DEF IInv
<1>2. IInv /\ [Next]_vars => IInv'
  <2> SUFFICES ASSUME IInv, [Next]_vars PROVE IInv'
    OBVIOUS
  <2>1. ASSUME UNCHANGED vars PROVE IInv'
    <3>1. UNCHANGED <<loop, quit_, pendingFunctors, functors, callingPendingFunctors,
                      wakeupFd, q, expired, now, clock, numCreated, pc, arg, ids,
                      canceled, early>>
      BY SMTT(30), <2>1 DEF vars, queueVars, handleVars, threadVars
    <3>2. Types' /\ Phases' /\ Set' /\ Told' = Told
      BY <3>1 DEF IInv, Types, Phases, Set, Told
    <3>3. Woken'
      BY SMTT(30), <3>1, <3>2 DEF IInv, Woken
    <3>4. \A t \in Threads, a \in Addrs : Handed(t, a)' <=> Handed(t, a)
      BY SMTT(30), <3>1 DEF Handed
    <3>5. Once' /\ Flight' = Flight
      BY <3>1, <3>4, FlightSame DEF IInv, Once
    <3> QED
      BY SMTT(30), <3>1, <3>2, <3>3, <3>5 DEF IInv
  <2> QED
    BY <2>1, LoopStep, ThreadStep DEF Next
<1> QED
  BY <1>1, <1>2, PTL DEF Spec

\* No wake-up is lost: the loop does not go to sleep on functors or on quit
\* without having been told, or a thread being about to tell it.
THEOREM NoSleeping == Spec => []NoLostWakeup
<1>1. IInv => NoLostWakeup
  BY SMTT(30) DEF IInv, Woken, Told, NoLostWakeup
<1> QED
  BY <1>1, Invariance, PTL

\* timers_ and activeTimers_ have the same timers, none of them deleted, so that
\* the asserts of TimerQueue hold.
THEOREM TimersAgree == Spec => []SameTimers
<1>1. IInv => SameTimers
  <2> SUFFICES ASSUME IInv PROVE SameTimers
    OBVIOUS
  <2> DEFINE queued == {e[2] : e \in q.timers}
  <2>1. /\ q.timers \subseteq Nat \X Addrs /\ q.activeTimers \subseteq Addrs \X Nat
        /\ expired \subseteq Addrs /\ Agree(q) /\ Owned(q, expired, Flight)
    BY SMTT(30) DEF IInv, Types, Queues, Good
  <2>2. \A e \in q.timers : /\ e[2] \in Addrs /\ In(q, e[2])
                            /\ e = <<q.heap[e[2]].expiration, e[2]>>
    BY <2>1 DEF Agree
  <2>3. \A b \in q.activeTimers : b[1] \in Addrs /\ b = ActiveTimer(q, b[1]) /\ In(q, b[1])
    BY SMTT(30), <2>1 DEF Agree, ActiveTimer, In
  <2>4. \A a \in Addrs : In(q, a) => /\ <<q.heap[a].expiration, a>> \in q.timers
                                     /\ a \in queued
    <3>1. ASSUME NEW a \in Addrs, In(q, a)
          PROVE  a \in queued
      <4>1. <<q.heap[a].expiration, a>> \in q.timers
        BY <2>1, <3>1 DEF Agree
      <4>2. <<q.heap[a].expiration, a>>[2] = a
        OBVIOUS
      <4> QED
        BY SMTT(30), <4>1, <4>2
    <3> QED
      BY SMTT(30), <2>1, <3>1 DEF Agree
  <2>5. \A a \in queued : a \in Addrs /\ In(q, a)
    BY SMTT(30), <2>2
  <2> HIDE DEF queued
  <2>6. \A a \in queued \cup expired : q.heap[a].live
    BY SMTT(30), <2>1, <2>5 DEF Owned
  <2>7. queued \cap expired = {}
    BY SMTT(30), <2>1, <2>5 DEF Owned
  <2>8. q.timers = {<<q.heap[a].expiration, a>> : a \in queued}
    <3>1. \A e \in q.timers : e[2] \in queued
      BY SMTT(30), <2>2, <2>4
    <3>2. \A a \in queued : <<q.heap[a].expiration, a>> \in q.timers
      BY SMTT(30), <2>4, <2>5
    <3> QED
      BY SMTT(30), <2>2, <3>1, <3>2
  <2>9. q.activeTimers = {ActiveTimer(q, a) : a \in queued}
    <3>1. \A b \in q.activeTimers : b[1] \in queued
      BY ZenonT(60), <2>3, <2>4
    <3>2. \A a \in queued : ActiveTimer(q, a) \in q.activeTimers
      BY SMTT(30), <2>5 DEF In
    <3> QED
      BY SMTT(30), <2>3, <3>1, <3>2
  <2> QED
    BY SMTT(30), <2>6, <2>7, <2>8, <2>9 DEF SameTimers, queued
<1> QED
  BY <1>1, Invariance, PTL

\* A timer that was canceled while the queue had it is not in the queue again.
THEOREM CanceledForGood == Spec => []CancelSticks
<1>1. IInv => CancelSticks
  <2> SUFFICES ASSUME IInv PROVE CancelSticks
    OBVIOUS
  <2>1. ASSUME NEW b \in q.activeTimers
        PROVE  b \notin canceled
    <3>1. b \in Addrs \X Nat /\ b[2] = q.heap[b[1]].sequence
      BY SMTT(30) DEF IInv, Types, Queues, Good, Agree
    <3>2. b[1] \in Addrs /\ b = ActiveTimer(q, b[1])
      BY SMTT(30), <3>1 DEF ActiveTimer
    <3> QED
      BY SMTT(30), <3>2 DEF IInv, Good, Canceled, In
  <2> QED
    BY SMTT(30), <2>1 DEF CancelSticks
<1> QED
  BY <1>1, Invariance, PTL

\* No timer object leaks.
THEOREM NoneLeaks == Spec => []NoLeak
<1>1. IInv => NoLeak
  <2> SUFFICES ASSUME IInv, NEW a \in Addrs, q.heap[a].live
               PROVE  \/ ActiveTimer(q, a) \in Known
                      \/ AddOf(a) \in ToSet(pendingFunctors) \cup ToSet(functors)
                      \/ \E t \in Threads : pc[t] = "queue" /\ arg[t] = AddOf(a)
    BY DEF NoLeak
  <2>1. In(q, a) \/ a \in expired \/ a \in Flight
    BY DEF IInv, Good, Owned
  <2>2. In(q, a) \/ a \in expired => ActiveTimer(q, a) \in Known
    BY DEF In, Known
  <2>3. \A s : a \in Adds(s) => AddOf(a) \in ToSet(s)
    BY DEF Adds, ToSet
  <2>4. a \in ThreadAdds => \E t \in Threads : pc[t] = "queue" /\ arg[t] = AddOf(a)
    BY SMTT(30) DEF ThreadAdds, Handed
  <2> QED
    BY SMTT(30), <2>1, <2>2, <2>3, <2>4 DEF Flight
<1> QED
  BY <1>1, Invariance, PTL

\* timerfd_ is set to the first expiration at the latest, or as soon as it can
\* be: no timer is forgotten.
THEOREM AlwaysArmed == Spec => []Armed
<1>1. IInv => Armed
  <2> SUFFICES ASSUME IInv, loop # "expired", q.timers # {}
               PROVE  q.armed # 0 /\ q.armed <= Max({Min(Expirations(q)), clock + 1})
    BY DEF Armed
  <2> DEFINE S == Expirations(q)
  <2>1. q.timers \subseteq Nat \X Addrs /\ q.armed \in Nat /\ clock + 1 \in Nat
    BY DEF IInv, Types, Queues
  <2>2. S \in SUBSET Nat /\ S # {} /\ \A x \in S : \E e \in q.timers : x = e[1]
    BY <2>1 DEF Expirations
  <2> HIDE DEF S
  <2>3. Min(S) \in S /\ Min(S) \in Nat
    BY ZenonT(60), <2>2, MinOfSet
  <2> DEFINE m == Min(S)
  <2>4. PICK e \in q.timers : m = e[1]
    BY SMTT(30), <2>2, <2>3
  <2>5. q.armed # 0 /\ (q.armed <= m \/ q.armed <= clock + 1)
    BY <2>4 DEF IInv, Set, Arms
  <2> HIDE DEF m
  <2>6. m \in Nat
    BY <2>3 DEF m
  <2>7. Max({m, clock + 1}) \in {m, clock + 1}
        /\ m <= Max({m, clock + 1}) /\ clock + 1 <= Max({m, clock + 1})
    BY SMTT(30), <2>1, <2>6, MaxOfTwo
  <2> DEFINE M == Max({m, clock + 1})
  <2>8. M \in Nat /\ m <= M /\ clock + 1 <= M
    BY SMTT(30), <2>1, <2>6, <2>7
  <2> HIDE DEF M
  <2>9. q.armed <= M
    BY <2>1, <2>5, <2>6, <2>8
  <2> QED
    BY SMTT(30), <2>5, <2>9 DEF M, m, S
<1> QED
  BY <1>1, Invariance, PTL
=============================================================================
