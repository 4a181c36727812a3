--------------------------- MODULE SemaphoreProofs ---------------------------
(***************************************************************************)
(* Proofs about Semaphore, for any number of sessions, any size and any    *)
(* weights: the type invariant, the capacity, that waiters are granted in  *)
(* order, that no token is lost or made, and, when no caller passes weight *)
(* 0, that no wake-up is lost.                                             *)
(***************************************************************************)
EXTENDS Semaphore, SequenceTheorems, FiniteSums

(* RemoveAt takes one element out and keeps the order of the others. *)
LEMMA RemoveAtProperties ==
  ASSUME NEW S, NEW s \in Seq(S), NEW i \in 1 .. Len(s)
  PROVE  /\ RemoveAt(s, i) \in Seq(S)
         /\ Len(RemoveAt(s, i)) = Len(s) - 1
         /\ \A j \in 1 .. Len(s) - 1 :
              RemoveAt(s, i)[j] = IF j < i THEN s[j] ELSE s[j + 1]
<1> DEFINE a == SubSeq(s, 1, i - 1)
           b == SubSeq(s, i + 1, Len(s))
<1>1. Len(s) \in Nat /\ \A j \in 1 .. Len(s) : s[j] \in S
  BY LenProperties, ElementOfSeq
<1>2. /\ a \in Seq(S)
      /\ Len(a) = i - 1
      /\ \A j \in 1 .. i - 1 : a[j] = s[j]
  BY <1>1, SubSeqProperties
<1>3. /\ b \in Seq(S)
      /\ Len(b) = Len(s) - i
      /\ \A j \in 1 .. Len(s) - i : b[j] = s[i + j]
  BY <1>1, SubSeqProperties
<1> DEFINE c == a \o b
<1> HIDE DEF a, b
<1>4. /\ c \in Seq(S)
      /\ Len(c) = Len(a) + Len(b)
      /\ \A j \in 1 .. Len(a) + Len(b) :
           c[j] = IF j <= Len(a) THEN a[j] ELSE b[j - Len(a)]
  BY Zenon, <1>2, <1>3, ConcatProperties
<1> HIDE DEF c
<1>5. Len(c) = Len(s) - 1
  BY <1>1, <1>2, <1>3, <1>4
<1>6. ASSUME NEW j \in 1 .. Len(s) - 1
      PROVE  c[j] = IF j < i THEN s[j] ELSE s[j + 1]
  <2>1. ASSUME j < i PROVE c[j] = s[j]
    <3>1. j \in 1 .. Len(a) + Len(b) /\ j <= Len(a) /\ j \in 1 .. i - 1
      BY <1>1, <1>2, <1>3, <2>1
    <3>2. c[j] = a[j]
      BY <1>4, <3>1
    <3> QED
      BY <1>2, <3>1, <3>2
  <2>2. ASSUME ~(j < i) PROVE c[j] = s[j + 1]
    <3>1. j - (i - 1) \in 1 .. Len(s) - i /\ i + (j - (i - 1)) = j + 1
      BY <1>1, <2>2
    <3>2. j \in 1 .. Len(a) + Len(b) /\ ~(j <= Len(a)) /\ Len(a) = i - 1
      BY <1>1, <1>2, <1>3, <2>2
    <3>3. c[j] = b[j - (i - 1)]
      BY <1>4, <3>2
    <3> QED
      BY <1>3, <3>1, <3>3
  <2> QED
    BY <2>1, <2>2
<1> QED
  BY Zenon, <1>4, <1>5, <1>6 DEF RemoveAt, a, b, c

(* The facts about lists without repetition that the list of waiters needs. *)
LEMMA AppendToList ==
  ASSUME NEW S, NEW s \in Seq(S), NEW x \in S, IsInjective(s), ~Contains(s, x)
  PROVE  /\ IsInjective(Append(s, x))
         /\ \A q : Contains(Append(s, x), q) <=> q = x \/ Contains(s, q)
<1>1. /\ Len(Append(s, x)) = Len(s) + 1
      /\ \A i \in 1 .. Len(s) : Append(s, x)[i] = s[i]
      /\ Append(s, x)[Len(s) + 1] = x
      /\ DOMAIN Append(s, x) = 1 .. Len(s) + 1
      /\ Len(s) \in Nat /\ DOMAIN s = 1 .. Len(s)
  BY AppendProperties, LenProperties
<1> QED
  BY <1>1 DEF IsInjective, Contains

LEMMA RemoveFromList ==
  ASSUME NEW S, NEW s \in Seq(S), NEW i \in 1 .. Len(s), IsInjective(s)
  PROVE  /\ IsInjective(RemoveAt(s, i))
         /\ \A q : Contains(RemoveAt(s, i), q) <=> q # s[i] /\ Contains(s, q)
<1> DEFINE r == RemoveAt(s, i)
<1>1. /\ r \in Seq(S) /\ Len(r) = Len(s) - 1
      /\ \A j \in 1 .. Len(s) - 1 : r[j] = IF j < i THEN s[j] ELSE s[j + 1]
  BY RemoveAtProperties
<1>2. /\ DOMAIN r = 1 .. Len(s) - 1
      /\ Len(s) \in Nat /\ DOMAIN s = 1 .. Len(s)
  BY <1>1, LenProperties
<1> HIDE DEF r
<1>3. \A j, k \in 1 .. Len(s) : s[j] = s[k] => j = k
  BY <1>2 DEF IsInjective
<1>4. IsInjective(r)
  <2> SUFFICES ASSUME NEW j \in 1 .. Len(s) - 1, NEW k \in 1 .. Len(s) - 1, r[j] = r[k]
               PROVE  j = k
    BY <1>2 DEF IsInjective
  <2>1. PICK j1 \in 1 .. Len(s) : r[j] = s[j1] /\ j1 = IF j < i THEN j ELSE j + 1
    BY <1>1, <1>2
  <2>2. PICK k1 \in 1 .. Len(s) : r[k] = s[k1] /\ k1 = IF k < i THEN k ELSE k + 1
    BY <1>1, <1>2
  <2>3. j1 = k1
    BY Zenon, <1>3, <2>1, <2>2
  <2> QED
    BY <1>2, <2>1, <2>2, <2>3
<1>5. ASSUME NEW q PROVE Contains(r, q) <=> q # s[i] /\ Contains(s, q)
  <2>1. ASSUME NEW j \in 1 .. Len(r), r[j] = q
        PROVE  q # s[i] /\ \E k \in 1 .. Len(s) : s[k] = q
    <3>1. PICK k \in 1 .. Len(s) : r[j] = s[k] /\ k # i
      BY <1>1, <1>2
    <3> QED
      BY <1>3, <2>1, <3>1
  <2>2. ASSUME NEW j \in 1 .. Len(s), s[j] = q, q # s[i]
        PROVE  \E k \in 1 .. Len(r) : r[k] = q
    <3>1. CASE j < i
      <4>1. j \in 1 .. Len(r) /\ r[j] = q
        BY <1>1, <1>2, <2>2, <3>1
      <4> QED
        BY <4>1
    <3>2. CASE j > i
      <4>1. j - 1 \in 1 .. Len(r) /\ r[j - 1] = s[(j - 1) + 1] /\ (j - 1) + 1 = j
        BY <1>1, <1>2, <2>2, <3>2
      <4> QED
        BY <2>2, <4>1
    <3> QED
      BY <1>2, <2>2, <3>1, <3>2
  <2> QED
    BY <2>1, <2>2 DEF Contains
<1> QED
  BY <1>4, <1>5 DEF r

LEMMA TailOfList ==
  ASSUME NEW S, NEW s \in Seq(S), s # <<>>, IsInjective(s)
  PROVE  /\ IsInjective(Tail(s))
         /\ \A q : Contains(Tail(s), q) <=> q # Head(s) /\ Contains(s, q)
<1>1. /\ Tail(s) \in Seq(S)
      /\ Len(Tail(s)) = Len(s) - 1
      /\ \A i \in 1 .. Len(s) - 1 : Tail(s)[i] = s[i + 1]
      /\ DOMAIN Tail(s) = 1 .. Len(s) - 1
      /\ Len(s) \in Nat /\ DOMAIN s = 1 .. Len(s)
  BY HeadTailProperties, LenProperties
<1>2. Head(s) = s[1] /\ 1 \in 1 .. Len(s)
  BY <1>1, EmptySeq
<1>3. \A j, k \in 1 .. Len(s) : s[j] = s[k] => j = k
  BY <1>1 DEF IsInjective
<1>4. IsInjective(Tail(s))
  BY <1>1, <1>3 DEF IsInjective
<1>5. ASSUME NEW q PROVE Contains(Tail(s), q) <=> q # Head(s) /\ Contains(s, q)
  <2>1. ASSUME NEW j \in 1 .. Len(Tail(s)), Tail(s)[j] = q
        PROVE  q # Head(s) /\ \E k \in 1 .. Len(s) : s[k] = q
    <3>1. j + 1 \in 1 .. Len(s) /\ s[j + 1] = q /\ j + 1 # 1
      BY <1>1, <2>1
    <3> QED
      BY <1>2, <1>3, <3>1
  <2>2. ASSUME NEW j \in 1 .. Len(s), s[j] = q, q # Head(s)
        PROVE  \E k \in 1 .. Len(Tail(s)) : Tail(s)[k] = q
    <3>1. j - 1 \in 1 .. Len(s) - 1 /\ Tail(s)[j - 1] = s[(j - 1) + 1] /\ (j - 1) + 1 = j
      BY <1>1, <1>2, <2>2
    <3> QED
      BY <1>1, <2>2, <3>1
  <2> QED
    BY <2>1, <2>2 DEF Contains
<1> QED
  BY <1>4, <1>5

-----------------------------------------------------------------------------
(* Every variable keeps its type; in particular s.cur never goes below 0   *)
(* when callers release only what they hold.                               *)
THEOREM TypeCorrect == Spec => []TypeOK
<1>1. Init => TypeOK
  BY SizeAssumption DEF Init, TypeOK, PCs
<1>2. TypeOK /\ [Next]_vars => TypeOK'
  <2> SUFFICES ASSUME TypeOK, [Next]_vars PROVE TypeOK'
    OBVIOUS
  <2> USE SizeAssumption, WeightsAssumption, MisuseAssumption DEF TypeOK, PCs
  <2>1. CASE UNCHANGED vars
    BY <2>1 DEF vars
  <2>2. ASSUME NEW p \in Procs, NEW n \in Weights,
               AcquireNow(p, n) \/ TryAcquire(p, n)
        PROVE  TypeOK'
    <3>1. n \in Nat /\ cur + n \in Int /\ (~Misuse => cur + n >= 0)
      OBVIOUS
    <3> QED
      BY ZenonT(60), <2>2, <3>1 DEF AcquireNow, TryAcquire
  <2>3. ASSUME NEW p \in Procs, NEW n \in Weights, NEW d \in BOOLEAN,
               AcquireDoomed(p, n, d)
        PROVE  TypeOK'
    BY <2>3 DEF AcquireDoomed
  <2>4. ASSUME NEW p \in Procs, NEW n \in Weights, NEW d \in BOOLEAN,
               AcquireEnqueue(p, n, d)
        PROVE  TypeOK'
    BY <2>4 DEF AcquireEnqueue
  <2>5. ASSUME NEW p \in Procs, CtxDone(p) PROVE TypeOK'
    BY <2>5 DEF CtxDone
  <2>6. ASSUME NEW p \in Procs, DoomedReturn(p) PROVE TypeOK'
    BY <2>6 DEF DoomedReturn, Forget
  <2>7. ASSUME NEW p \in Procs, SelectReady(p) \/ CancelTooLate(p) PROVE TypeOK'
    <3>1. req[p] \in Nat
      OBVIOUS
    <3>2. /\ held' = [held EXCEPT ![p] = req[p]]
          /\ pc' = [pc EXCEPT ![p] = "held"]
          /\ Forget(p) /\ UNCHANGED <<cur, waiters, mu>>
      BY <2>7 DEF SelectReady, CancelTooLate
    <3> QED
      BY <3>1, <3>2 DEF Forget
  <2>8. ASSUME NEW p \in Procs, SelectDone(p) PROVE TypeOK'
    BY <2>8 DEF SelectDone
  <2>9. ASSUME NEW p \in Procs, CancelRemove(p) PROVE TypeOK'
    <3>1. waiters' \in Seq(Procs)
      BY <2>9, RemoveAtProperties DEF CancelRemove
    <3> QED
      BY SMTT(30), <2>9, <3>1 DEF CancelRemove, Forget
  <2>10. ASSUME NEW p \in Procs, NEW n \in 0 .. held[p], Release(p, n)
         PROVE  TypeOK'
    <3>1. n \in Nat /\ held[p] - n \in Nat /\ cur - n \in Nat
      BY <2>10 DEF Release
    <3> QED
      BY <2>10, <3>1 DEF Release
  <2>11. ASSUME NEW p \in Procs, NEW n \in Weights, ReleasePanic(p, n)
         PROVE  TypeOK'
    BY <2>11 DEF ReleasePanic
  <2>12. ASSUME NEW p \in Procs, NotifyGrant(p) PROVE TypeOK'
    <3>1. Head(waiters) \in Procs /\ Tail(waiters) \in Seq(Procs)
      BY <2>12, HeadTailProperties DEF NotifyGrant
    <3> QED
      BY SMTT(30), <2>12, <3>1 DEF NotifyGrant
  <2>13. ASSUME NEW p \in Procs, NotifyBreak(p) PROVE TypeOK'
    BY <2>13 DEF NotifyBreak
  <2> QED
    BY SMTT(30), <2>1, <2>2, <2>3, <2>4, <2>5, <2>6, <2>7, <2>8, <2>9, <2>10, <2>11,
       <2>12, <2>13 DEF Next, Acquire, Running
<1> QED
  BY <1>1, <1>2, PTL DEF Spec

-----------------------------------------------------------------------------
(* At most s.size tokens are out in every reachable state, also after a    *)
(* Release that panicked.                                                  *)
THEOREM CapacityHolds == Spec => []Capacity
<1>1. Init => Capacity
  BY SizeAssumption DEF Init, Capacity
<1>2. TypeOK /\ Capacity /\ [Next]_vars => Capacity'
  <2> SUFFICES ASSUME TypeOK, Capacity, [Next]_vars PROVE Capacity'
    OBVIOUS
  <2> USE SizeAssumption, WeightsAssumption DEF TypeOK, Capacity
  <2>1. ASSUME NEW p \in Procs, NEW n \in Weights,
               AcquireNow(p, n) \/ TryAcquire(p, n)
        PROVE  Capacity'
    BY <2>1 DEF AcquireNow, TryAcquire, CanTake
  <2>2. ASSUME NEW p \in Procs, NEW n \in 0 .. held[p], Release(p, n)
        PROVE  Capacity'
    BY <2>2 DEF Release
  <2>3. ASSUME NEW p \in Procs, NEW n \in Weights, ReleasePanic(p, n)
        PROVE  Capacity'
    BY <2>3 DEF ReleasePanic
  <2>4. ASSUME NEW p \in Procs, NotifyGrant(p) PROVE Capacity'
    <3>1. req[Head(waiters)] \in Nat
      BY <2>4, HeadTailProperties DEF NotifyGrant
    <3> QED
      BY SMTT(30), <2>4, <3>1 DEF NotifyGrant
  <2>5. ASSUME UNCHANGED cur PROVE Capacity'
    BY <2>5
  <2> QED
    BY <2>1, <2>2, <2>3, <2>4, <2>5
    DEF Next, Acquire, Running, AcquireDoomed, AcquireEnqueue, CtxDone,
        DoomedReturn, SelectReady, SelectDone, CancelTooLate, CancelRemove,
        NotifyBreak, vars
<1> QED
  BY <1>1, <1>2, TypeCorrect, PTL DEF Spec

-----------------------------------------------------------------------------
(* The program counters agree with the mutex and the requested weights in  *)
(* every reachable state.                                                  *)
THEOREM CallInvHolds == Spec => []CallInv
<1>1. Init => CallInv
  BY NoProcAssumption DEF Init, CallInv
<1>2. TypeOK /\ CallInv /\ [Next]_vars => CallInv'
  <2> SUFFICES ASSUME TypeOK, CallInv, [Next]_vars PROVE CallInv'
    OBVIOUS
  <2> USE NoProcAssumption DEF TypeOK, CallInv, PCs
  <2>1. CASE UNCHANGED vars
    BY <2>1 DEF vars
  <2>2. ASSUME NEW p \in Procs, Acquire(p) PROVE CallInv'
    BY ZenonT(60), <2>2 DEF Acquire, AcquireNow, AcquireDoomed, AcquireEnqueue
  <2>3. ASSUME NEW p \in Procs, CtxDone(p) PROVE CallInv'
    BY <2>3 DEF CtxDone
  <2>4. ASSUME NEW p \in Procs,
               DoomedReturn(p) \/ SelectReady(p) \/ SelectDone(p) \/ CancelTooLate(p)
        PROVE  CallInv'
    BY ZenonT(60), <2>4 DEF DoomedReturn, SelectReady, SelectDone, CancelTooLate, Forget
  <2>5. ASSUME NEW p \in Procs, CancelRemove(p) PROVE CallInv'
    BY <2>5 DEF CancelRemove, Forget
  <2>6. ASSUME NEW p \in Procs, NotifyGrant(p) PROVE CallInv'
    BY <2>6 DEF NotifyGrant
  <2>7. ASSUME NEW p \in Procs, NotifyBreak(p) PROVE CallInv'
    BY <2>7 DEF NotifyBreak
  <2>8. ASSUME NEW p \in Procs, NEW n \in Weights,
               TryAcquire(p, n) \/ ReleasePanic(p, n)
        PROVE  CallInv'
    BY <2>8 DEF TryAcquire, ReleasePanic
  <2>9. ASSUME NEW p \in Procs, NEW n \in 0 .. held[p], Release(p, n)
        PROVE  CallInv'
    BY <2>9 DEF Release
  <2> QED
    BY SMTT(30), <2>1, <2>2, <2>3, <2>4, <2>5, <2>6, <2>7, <2>8, <2>9 DEF Next, Running
<1> QED
  BY <1>1, <1>2, TypeCorrect, PTL DEF Spec

-----------------------------------------------------------------------------
(* The list holds each session that still waits, once, and nobody else:    *)
(* grants and cancelations that race never leave a stale entry behind.     *)
THEOREM ListedOnceHolds == Spec => []ListedOnce
<1>1. Init => ListedOnce
  BY DEF Init, ListedOnce, IsInjective, Contains
<1>2. TypeOK /\ CallInv /\ ListedOnce /\ [Next]_vars => ListedOnce'
  <2> SUFFICES ASSUME TypeOK, CallInv, ListedOnce, [Next]_vars PROVE ListedOnce'
    OBVIOUS
  <2> USE DEF TypeOK, ListedOnce, PCs
  <2>1. CASE UNCHANGED vars
    BY <2>1 DEF vars
  <2>2. ASSUME NEW p \in Procs, NEW n \in Weights, NEW d \in BOOLEAN,
               AcquireNow(p, n) \/ TryAcquire(p, n) \/ AcquireDoomed(p, n, d)
               \/ ReleasePanic(p, n)
        PROVE  ListedOnce'
    BY <2>2 DEF AcquireNow, TryAcquire, AcquireDoomed, ReleasePanic
  <2>3. ASSUME NEW p \in Procs, NEW n \in Weights, NEW d \in BOOLEAN,
               AcquireEnqueue(p, n, d)
        PROVE  ListedOnce'
    <3>1. ~Contains(waiters, p)
      BY Zenon, <2>3 DEF AcquireEnqueue
    <3>2. /\ IsInjective(waiters')
          /\ \A q : Contains(waiters', q) <=> q = p \/ Contains(waiters, q)
      BY <2>3, <3>1, AppendToList DEF AcquireEnqueue
    <3> QED
      BY <2>3, <3>1, <3>2 DEF AcquireEnqueue
  <2>4. ASSUME NEW p \in Procs,
               CtxDone(p) \/ DoomedReturn(p) \/ SelectReady(p) \/ SelectDone(p)
               \/ CancelTooLate(p)
        PROVE  ListedOnce'
    BY SMTT(30), <2>4 DEF CtxDone, DoomedReturn, SelectReady, SelectDone, CancelTooLate, Forget
  <2>5. ASSUME NEW p \in Procs, CancelRemove(p) PROVE ListedOnce'
    <3>1. PICK i \in 1 .. Len(waiters) :
            waiters[i] = p /\ waiters' = RemoveAt(waiters, i)
      BY <2>5 DEF CancelRemove
    <3>2. /\ IsInjective(waiters')
          /\ \A q : Contains(waiters', q) <=> q # p /\ Contains(waiters, q)
      BY <3>1, RemoveFromList
    <3> QED
      BY SMTT(30), <2>5, <3>2 DEF CancelRemove, Forget
  <2>6. ASSUME NEW p \in Procs, NotifyGrant(p) PROVE ListedOnce'
    <3>1. /\ Head(waiters) \in Procs
          /\ IsInjective(waiters')
          /\ \A q : Contains(waiters', q) <=> q # Head(waiters) /\ Contains(waiters, q)
      BY <2>6, TailOfList, HeadTailProperties DEF NotifyGrant
    <3> QED
      BY SMTT(30), <2>6, <3>1 DEF NotifyGrant
  <2>7. ASSUME NEW p \in Procs, NotifyBreak(p) PROVE ListedOnce'
    BY <2>7 DEF NotifyBreak, CallInv
  <2>8. ASSUME NEW p \in Procs, NEW n \in 0 .. held[p], Release(p, n)
        PROVE  ListedOnce'
    BY <2>8 DEF Release
  <2> QED
    BY SMTT(30), <2>1, <2>2, <2>3, <2>4, <2>5, <2>6, <2>7, <2>8 DEF Next, Acquire, Running
<1> QED
  BY <1>1, <1>2, TypeCorrect, CallInvHolds, PTL DEF Spec

-----------------------------------------------------------------------------
(* A session that panicked stays so. *)
LEMMA PanicStays ==
  ASSUME TypeOK, CallInv, [Next]_vars, NoPanic' PROVE NoPanic
<1> SUFFICES ASSUME NEW q \in Procs, pc[q] = "panicked" PROVE pc'[q] = "panicked"
  BY DEF NoPanic
<1> USE DEF TypeOK
<1>1. CASE UNCHANGED vars
  BY <1>1 DEF vars
<1>2. ASSUME NEW p \in Procs, Acquire(p) PROVE pc'[q] = "panicked"
  BY <1>2 DEF Acquire, AcquireNow, AcquireDoomed, AcquireEnqueue
<1>3. ASSUME NEW p \in Procs, CtxDone(p) \/ Running(p) PROVE pc'[q] = "panicked"
  BY <1>3 DEF CtxDone, Running, DoomedReturn, SelectReady, SelectDone,
    CancelTooLate, CancelRemove, NotifyGrant, NotifyBreak, CallInv
<1>4. ASSUME NEW p \in Procs, NEW n \in Weights, TryAcquire(p, n) \/ ReleasePanic(p, n)
      PROVE  pc'[q] = "panicked"
  BY <1>4 DEF TryAcquire, ReleasePanic
<1>5. ASSUME NEW p \in Procs, NEW n \in 0 .. held[p], Release(p, n)
      PROVE  pc'[q] = "panicked"
  BY <1>5 DEF Release
<1> QED
  BY <1>1, <1>2, <1>3, <1>4, <1>5 DEF Next

(* No lost wake-up, for any weights but 0: whenever the mutex is free, the *)
(* waiter at the front does not fit.  (For weight 0 it is false: a         *)
(* canceled front waiter of a full semaphore notifies nobody.)             *)
THEOREM NoLostWakeup ==
  ASSUME 0 \notin Weights
  PROVE  Spec => []FrontBlocked
<1>1. Init => FrontBlocked
  BY DEF Init, FrontBlocked
<1>2. TypeOK /\ CallInv /\ ListedOnce /\ FrontBlocked /\ [Next]_vars => FrontBlocked'
  <2> SUFFICES ASSUME TypeOK, CallInv, ListedOnce, FrontBlocked, [Next]_vars,
                      mu' = NoProc, waiters' # <<>>, NoPanic'
               PROVE  Size - cur' < req'[Head(waiters')]
    BY DEF FrontBlocked
  <2> DEFINE h == Head(waiters)
  <2> USE SizeAssumption, WeightsAssumption, NoProcAssumption
  <2>1. ASSUME waiters # <<>>
        PROVE  h \in Procs /\ Contains(waiters, h) /\ pc[h] \in {"waiting", "canceled"}
               /\ req[h] \in Weights
    <3>1. h \in Procs /\ h = waiters[1] /\ 1 \in 1 .. Len(waiters)
      BY <2>1, HeadTailProperties, LenProperties, EmptySeq DEF TypeOK
    <3>2. Contains(waiters, h)
      BY <3>1 DEF Contains
    <3> QED
      BY <3>1, <3>2 DEF ListedOnce, CallInv
  <2>2. NoPanic
    BY PanicStays
  <2>3. ASSUME UNCHANGED <<cur, waiters, mu, req>> PROVE Size - cur' < req'[Head(waiters')]
    BY <2>2, <2>3 DEF FrontBlocked
  <2> HIDE DEF h
  <2>4. ASSUME NEW p \in Procs, NEW n \in Weights,
               AcquireNow(p, n) \/ TryAcquire(p, n)
        PROVE  FALSE
    BY <2>4 DEF AcquireNow, TryAcquire, CanTake
  <2>5. ASSUME NEW p \in Procs, NEW n \in Weights, NEW d \in BOOLEAN,
               AcquireDoomed(p, n, d)
        PROVE  Size - cur' < req'[Head(waiters')]
    <3>1. waiters # <<>> /\ h # p /\ req'[h] = req[h]
      BY <2>1, <2>5 DEF AcquireDoomed, TypeOK
    <3> QED
      BY <2>2, <2>5, <3>1 DEF AcquireDoomed, FrontBlocked, h
  <2>6. ASSUME NEW p \in Procs, NEW n \in Weights, NEW d \in BOOLEAN,
               AcquireEnqueue(p, n, d)
        PROVE  Size - cur' < req'[Head(waiters')]
    <3>1. CASE waiters = <<>>
      <4>1. Head(waiters') = p /\ req'[p] = n
        BY <2>6, <3>1 DEF AcquireEnqueue, TypeOK
      <4> QED
        BY <2>6, <3>1, <4>1 DEF AcquireEnqueue, CanTake, TypeOK
    <3>2. CASE waiters # <<>>
      <4>1. Head(waiters') = h
        BY <2>6, <3>2, AppendProperties, EmptySeq, LenProperties, HeadTailAppend
        DEF AcquireEnqueue, TypeOK, h
      <4>2. h # p /\ req'[h] = req[h]
        BY <2>1, <2>6, <3>2 DEF AcquireEnqueue, TypeOK
      <4> QED
        BY SMTT(30), <2>2, <2>6, <3>2, <4>1, <4>2 DEF AcquireEnqueue, FrontBlocked, h
    <3> QED
      BY <3>1, <3>2
  <2>7. ASSUME NEW p \in Procs, CancelRemove(p)
        PROVE  Size - cur' < req'[Head(waiters')]
    <3>1. PICK i \in 1 .. Len(waiters) :
            /\ waiters[i] = p
            /\ waiters' = RemoveAt(waiters, i)
            /\ ~(i = 1 /\ Size > cur)
      BY <2>7 DEF CancelRemove
    <3>2. /\ waiters \in Seq(Procs) /\ Len(waiters) \in Nat
          /\ waiters' \in Seq(Procs) /\ Len(waiters') = Len(waiters) - 1
          /\ waiters'[1] = IF 1 < i THEN waiters[1] ELSE waiters[2]
          /\ waiters # <<>>
      <4>1. waiters \in Seq(Procs) /\ Len(waiters) \in Nat
        BY LenProperties DEF TypeOK
      <4>2. /\ waiters' \in Seq(Procs) /\ Len(waiters') = Len(waiters) - 1
            /\ \A j \in 1 .. Len(waiters) - 1 :
                 waiters'[j] = IF j < i THEN waiters[j] ELSE waiters[j + 1]
        BY Zenon, <3>1, <4>1, RemoveAtProperties
      <4>3. 1 \in 1 .. Len(waiters) - 1
        BY <4>1, <4>2, EmptySeq
      <4> QED
        BY <4>1, <4>2, <4>3
    <3>3. Head(waiters') = waiters'[1] /\ Head(waiters') \in Procs
      BY <3>2, HeadTailProperties
    <3> DEFINE g == Head(waiters')
    <3>4. g # p
      <4>1. ~Contains(waiters', p)
        BY <3>1, RemoveFromList DEF ListedOnce, TypeOK
      <4>2. Contains(waiters', g)
        BY <3>2, <3>3, EmptySeq DEF Contains
      <4> QED
        BY <4>1, <4>2
    <3>5. req'[g] = req[g] /\ cur' = cur
      BY <2>7, <3>3, <3>4 DEF CancelRemove, Forget, TypeOK
    <3> HIDE DEF g
    <3>6. CASE i # 1
      <4>1. Head(waiters') = h
        BY <3>1, <3>2, <3>3, <3>6 DEF h
      <4> QED
        BY <2>2, <2>7, <3>2, <3>5, <4>1 DEF CancelRemove, FrontBlocked, g, h
    <3>7. CASE i = 1
      <4>1. 2 \in 1 .. Len(waiters) /\ Head(waiters') = waiters[2]
        BY <3>2, <3>3, <3>7, EmptySeq
      <4>2. Contains(waiters, Head(waiters'))
        BY <4>1 DEF Contains
      <4>3. req[Head(waiters')] \in Weights
        BY <3>3, <4>2 DEF ListedOnce, CallInv
      <4>4. req[Head(waiters')] \in Nat \ {0}
        BY Zenon, <4>3
      <4>5. cur \in Int /\ cur >= Size
        BY <3>1, <3>7 DEF TypeOK
      <4> QED
        BY <3>5, <4>4, <4>5 DEF g
    <3> QED
      BY <3>6, <3>7
  <2>8. ASSUME NEW p \in Procs, NotifyGrant(p) PROVE FALSE
    BY <2>8 DEF NotifyGrant
  <2>9. ASSUME NEW p \in Procs, NotifyBreak(p)
        PROVE  Size - cur' < req'[Head(waiters')]
    BY <2>9 DEF NotifyBreak
  <2>10. ASSUME NEW p \in Procs, NEW n \in 0 .. held[p], Release(p, n) PROVE FALSE
    BY <2>10 DEF Release
  <2>11. ASSUME NEW p \in Procs, NEW n \in Weights, ReleasePanic(p, n) PROVE FALSE
    BY <2>11 DEF ReleasePanic, NoPanic, TypeOK
  <2>12. ASSUME NEW p \in Procs, DoomedReturn(p) \/ SelectReady(p) \/ CancelTooLate(p)
         PROVE  Size - cur' < req'[Head(waiters')]
    <3>1. waiters' = waiters /\ cur' = cur /\ mu = NoProc
      BY <2>12 DEF DoomedReturn, SelectReady, CancelTooLate
    <3>2. h # p /\ req'[h] = req[h]
      BY <2>1, <2>12, <3>1 DEF DoomedReturn, SelectReady, CancelTooLate, Forget, ListedOnce, TypeOK
    <3> QED
      BY <2>2, <3>1, <3>2 DEF FrontBlocked, h
  <2> QED
    BY SMTT(30), <2>3, <2>4, <2>5, <2>6, <2>7, <2>8, <2>9, <2>10, <2>11, <2>12
    DEF Next, Acquire, Running, CtxDone, SelectDone, vars
<1> QED
  BY <1>1, <1>2, TypeCorrect, CallInvHolds, ListedOnceHolds, PTL DEF Spec
-----------------------------------------------------------------------------
(* First come, first served, for any sessions and weights: listed sessions *)
(* are not granted, a grant goes to the front, and the fast paths need an  *)
(* empty list.                                                             *)
THEOREM FirstComeFirstServed == Spec => NoOvertaking
<1> DEFINE A == /\ \A i \in 1 .. Len(waiters) :
                     ready'[waiters[i]] => \A j \in 1 .. i - 1 : ready'[waiters[j]]
                /\ waiters # <<>> =>
                     \A p \in Procs : pc[p] = "idle" => pc'[p] # "held"
<1>1. TypeOK /\ CallInv /\ ListedOnce /\ [Next]_vars => [A]_vars
  <2> SUFFICES ASSUME TypeOK, CallInv, ListedOnce, Next PROVE A
    OBVIOUS
  <2>1. ASSUME NEW i \in 1 .. Len(waiters) PROVE waiters[i] \in Procs /\ ~ready[waiters[i]]
    <3>1. waiters[i] \in Procs /\ Contains(waiters, waiters[i])
      BY ElementOfSeq DEF TypeOK, Contains
    <3> QED
      BY <3>1 DEF ListedOnce
  <2>2. ASSUME \A i \in 1 .. Len(waiters) : ready'[waiters[i]] => i = 1,
               waiters # <<>> => \A p \in Procs : pc[p] = "idle" => pc'[p] # "held"
        PROVE  A
    <3>1. \A i \in 1 .. Len(waiters) : \A j \in 1 .. i - 1 : i # 1
      OBVIOUS
    <3> QED
      BY Zenon, <2>2, <3>1
  <2> HIDE DEF A
  \* Nobody is granted: ready is unchanged, or is reset.
  <2>3. ASSUME \A q \in Procs : ready'[q] => ready[q],
               waiters # <<>> => \A p \in Procs : pc[p] = "idle" => pc'[p] # "held"
        PROVE  A
    BY <2>1, <2>2, <2>3
  <2> USE DEF TypeOK
  <2>4. ASSUME NEW p \in Procs, NEW n \in Weights, AcquireNow(p, n) \/ TryAcquire(p, n)
        PROVE  A
    BY <2>3, <2>4 DEF AcquireNow, TryAcquire, CanTake
  <2>5. ASSUME NEW p \in Procs, NEW n \in Weights, NEW d \in BOOLEAN,
               AcquireDoomed(p, n, d) \/ AcquireEnqueue(p, n, d) \/ ReleasePanic(p, n)
        PROVE  A
    BY Zenon, <2>3, <2>5 DEF AcquireDoomed, AcquireEnqueue, ReleasePanic
  <2>6. ASSUME NEW p \in Procs, CtxDone(p) \/ SelectDone(p) \/ DoomedReturn(p) PROVE A
    BY Zenon, <2>3, <2>6 DEF CtxDone, SelectDone, DoomedReturn, Forget
  <2>7. ASSUME NEW p \in Procs, SelectReady(p) \/ CancelTooLate(p) PROVE A
    BY Zenon, <2>3, <2>7 DEF SelectReady, CancelTooLate, Forget
  <2>8. ASSUME NEW p \in Procs, CancelRemove(p) PROVE A
    BY <2>3, <2>8 DEF CancelRemove, Forget
  <2>9. ASSUME NEW p \in Procs, NEW n \in 0 .. held[p], Release(p, n) PROVE A
    BY <2>3, <2>9 DEF Release
  <2>10. ASSUME NEW p \in Procs, NotifyBreak(p) PROVE A
    BY <2>3, <2>10 DEF NotifyBreak, CallInv
  <2>11. ASSUME NEW p \in Procs, NotifyGrant(p) PROVE A
    <3>1. /\ waiters # <<>> /\ Head(waiters) = waiters[1] /\ pc' = pc
          /\ ready' = [ready EXCEPT ![Head(waiters)] = TRUE]
      BY <2>11 DEF NotifyGrant
    <3>2. Len(waiters) \in Nat /\ 1 \in 1 .. Len(waiters)
      BY <3>1, LenProperties, EmptySeq
    <3>3. ASSUME NEW i \in 1 .. Len(waiters), i # 1 PROVE ~ready'[waiters[i]]
      <4>1. waiters[i] # waiters[1]
        BY <3>2, <3>3, LenProperties DEF ListedOnce, IsInjective
      <4> QED
        BY <2>1, <3>1, <4>1
    <3> QED
      BY <2>2, <3>1, <3>3
  <2> QED
    BY SMTT(30), <2>4, <2>5, <2>6, <2>7, <2>8, <2>9, <2>10, <2>11 DEF Next, Acquire, Running
<1> QED
  BY <1>1, TypeCorrect, CallInvHolds, ListedOnceHolds, PTL DEF Spec, NoOvertaking

-----------------------------------------------------------------------------
(* Only a session whose Acquire succeeded holds tokens. *)
HeldInv == \A p \in Procs : pc[p] \notin {"held", "notifyRel", "panicked"} => held[p] = 0

LEMMA HeldInvHolds == Spec => []HeldInv
<1>1. Init => HeldInv
  BY DEF Init, HeldInv
<1>2. TypeOK /\ CallInv /\ HeldInv /\ [Next]_vars => HeldInv'
  <2> SUFFICES ASSUME TypeOK, CallInv, HeldInv, [Next]_vars PROVE HeldInv'
    OBVIOUS
  <2> USE DEF TypeOK, HeldInv
  <2>1. CASE UNCHANGED vars
    BY <2>1 DEF vars
  <2>2. ASSUME NEW p \in Procs, Acquire(p) PROVE HeldInv'
    BY Zenon, <2>2 DEF Acquire, AcquireNow, AcquireDoomed, AcquireEnqueue
  <2>3. ASSUME NEW p \in Procs, CtxDone(p) \/ DoomedReturn(p) \/ SelectDone(p)
        PROVE  HeldInv'
    BY Zenon, <2>3 DEF CtxDone, DoomedReturn, SelectDone
  <2>4. ASSUME NEW p \in Procs, SelectReady(p) \/ CancelTooLate(p) PROVE HeldInv'
    BY <2>4 DEF SelectReady, CancelTooLate
  <2>5. ASSUME NEW p \in Procs, CancelRemove(p) PROVE HeldInv'
    BY <2>5 DEF CancelRemove
  <2>6. ASSUME NEW p \in Procs, NotifyGrant(p) \/ NotifyBreak(p) PROVE HeldInv'
    BY <2>6 DEF NotifyGrant, NotifyBreak, CallInv
  <2>7. ASSUME NEW p \in Procs, NEW n \in Weights, TryAcquire(p, n) \/ ReleasePanic(p, n)
        PROVE  HeldInv'
    BY Zenon, <2>7 DEF TryAcquire, ReleasePanic
  <2>8. ASSUME NEW p \in Procs, NEW n \in 0 .. held[p], Release(p, n) PROVE HeldInv'
    BY <2>8 DEF Release
  <2> QED
    BY SMTT(30), <2>1, <2>2, <2>3, <2>4, <2>5, <2>6, <2>7, <2>8 DEF Next, Running
<1> QED
  BY <1>1, <1>2, TypeCorrect, CallInvHolds, PTL DEF Spec

(* A step that changes the charge of one session changes s.cur by as much. *)
LEMMA ChargeStep ==
  ASSUME IsFiniteSet(Procs), TypeOK, Charged' \in [Procs -> Nat],
         NEW x \in Procs, \A y \in Procs \ {x} : Charged'[y] = Charged[y],
         cur' = cur + (Charged'[x] - Charged[x]),
         cur = SumFunction(Charged)
  PROVE  cur' = SumFunction(Charged')
<1> DEFINE f == Charged
           f2 == Charged'
<1>1. f \in [Procs -> Int] /\ f2 \in [Procs -> Int]
  BY DEF TypeOK, Charged
<1>2. \A y \in Procs \ {x} : f2[y] = f[y]
  OBVIOUS
<1> HIDE DEF f, f2
<1>3. SumFunction(f2) = SumFunction(f) + (f2[x] - f[x])
  BY <1>1, <1>2, SumChange
<1> QED
  BY <1>3 DEF f, f2

(* For finitely many sessions and any weights, s.cur is exactly what the   *)
(* sessions have been granted and not yet released, until a caller         *)
(* releases more than is held.                                             *)
THEOREM TokensConserved ==
  ASSUME IsFiniteSet(Procs)
  PROVE  Spec => []Conservation
<1>1. Init => Conservation
  <2>1. Init => Charged = [p \in Procs |-> 0] /\ cur = 0
    BY DEF Init, Charged
  <2> QED
    BY <2>1, SumZero DEF Conservation
<1>2. /\ TypeOK /\ TypeOK' /\ CallInv /\ ListedOnce /\ HeldInv /\ Conservation
      /\ [Next]_vars
      => Conservation'
  <2> SUFFICES ASSUME TypeOK, TypeOK', CallInv, ListedOnce, HeldInv, Conservation,
                      [Next]_vars, NoPanic'
               PROVE  cur' = SumFunction(Charged')
    BY DEF Conservation
  <2>1. NoPanic /\ cur = SumFunction(Charged)
    BY PanicStays DEF Conservation
  <2>2. Charged' \in [Procs -> Nat]
    BY DEF TypeOK, Charged
  <2>3. ASSUME UNCHANGED cur, Charged' = Charged PROVE cur' = SumFunction(Charged')
    BY <2>1, <2>3
  <2>4. ASSUME NEW x \in Procs, \A y \in Procs \ {x} : Charged'[y] = Charged[y],
               cur' = cur + (Charged'[x] - Charged[x])
        PROVE  cur' = SumFunction(Charged')
    BY SMTT(30), <2>1, <2>2, <2>4, ChargeStep
  <2> USE WeightsAssumption DEF TypeOK
  <2>5. CASE UNCHANGED vars
    BY <2>3, <2>5 DEF vars, Charged
  <2>6. ASSUME NEW p \in Procs, NEW n \in Weights, AcquireNow(p, n) \/ TryAcquire(p, n)
        PROVE  cur' = SumFunction(Charged')
    <3>1. \A y \in Procs \ {p} : Charged'[y] = Charged[y]
      BY <2>6 DEF AcquireNow, TryAcquire, Charged
    <3>2. Charged'[p] = n /\ Charged[p] = 0 /\ cur' = cur + n
      BY ZenonT(60), <2>6 DEF AcquireNow, TryAcquire, Charged, HeldInv
    <3>3. cur \in Int /\ n \in Int
      OBVIOUS
    <3>4. cur' = cur + (Charged'[p] - Charged[p])
      BY ONLY SMT, <3>2, <3>3
    <3> QED
      BY <2>4, <3>1, <3>4
  <2>7. ASSUME NEW p \in Procs, NEW n \in Weights, NEW d \in BOOLEAN,
               AcquireDoomed(p, n, d) \/ AcquireEnqueue(p, n, d)
        PROVE  cur' = SumFunction(Charged')
    <3>1. \A y \in Procs : Charged'[y] = Charged[y]
      BY <2>7 DEF AcquireDoomed, AcquireEnqueue, Charged
    <3> QED
      BY <2>3, <2>7, <3>1 DEF AcquireDoomed, AcquireEnqueue, Charged
  <2>8. ASSUME NEW p \in Procs, CtxDone(p) \/ DoomedReturn(p) \/ SelectDone(p)
        PROVE  cur' = SumFunction(Charged')
    <3>1. \A y \in Procs : Charged'[y] = Charged[y]
      BY <2>8 DEF CtxDone, DoomedReturn, SelectDone, Forget, Charged
    <3> QED
      BY <2>3, <2>8, <3>1 DEF CtxDone, DoomedReturn, SelectDone, Charged
  <2>9. ASSUME NEW p \in Procs, SelectReady(p) \/ CancelTooLate(p)
        PROVE  cur' = SumFunction(Charged')
    <3>1. \A y \in Procs : Charged'[y] = Charged[y]
      BY <2>9 DEF SelectReady, CancelTooLate, Forget, Charged
    <3> QED
      BY <2>3, <2>9, <3>1 DEF SelectReady, CancelTooLate, Charged
  <2>10. ASSUME NEW p \in Procs, CancelRemove(p) PROVE cur' = SumFunction(Charged')
    <3>1. \A y \in Procs : Charged'[y] = Charged[y]
      BY <2>10 DEF CancelRemove, Forget, Charged
    <3> QED
      BY SMTT(30), <2>3, <2>10, <3>1 DEF CancelRemove, Charged
  <2>11. ASSUME NEW p \in Procs, NotifyBreak(p) PROVE cur' = SumFunction(Charged')
    <3>1. \A y \in Procs : Charged'[y] = Charged[y]
      BY <2>11 DEF NotifyBreak, Charged, CallInv
    <3> QED
      BY <2>3, <2>11, <3>1 DEF NotifyBreak, Charged
  <2>12. ASSUME NEW p \in Procs, NotifyGrant(p) PROVE cur' = SumFunction(Charged')
    <3> DEFINE w == Head(waiters)
    <3>1. /\ w \in Procs /\ cur' = cur + req[w] /\ ready' = [ready EXCEPT ![w] = TRUE]
          /\ UNCHANGED <<pc, req, held>>
      BY <2>12, HeadTailProperties DEF NotifyGrant
    <3>2. pc[w] \in {"waiting", "canceled"} /\ ~ready[w]
      <4>1. 1 \in 1 .. Len(waiters) /\ w = waiters[1]
        BY <2>12, LenProperties, EmptySeq DEF NotifyGrant
      <4>2. Contains(waiters, w)
        BY Zenon, <4>1 DEF Contains
      <4> QED
        BY <3>1, <4>2 DEF ListedOnce
    <3> HIDE DEF w
    <3>3. \A y \in Procs \ {w} : Charged'[y] = Charged[y]
      BY <3>1 DEF Charged
    <3>4. Charged'[w] = req[w] /\ Charged[w] = 0
      BY ZenonT(60), <3>1, <3>2 DEF Charged, HeldInv
    <3>5. cur' = cur + (Charged'[w] - Charged[w])
      BY <3>1, <3>4
    <3> QED
      BY SMTT(30), <2>4, <3>1, <3>3, <3>5
  <2>13. ASSUME NEW p \in Procs, NEW n \in 0 .. held[p], Release(p, n)
         PROVE  cur' = SumFunction(Charged')
    <3>1. \A y \in Procs \ {p} : Charged'[y] = Charged[y]
      BY <2>13 DEF Release, Charged
    <3>2. Charged'[p] = held[p] - n /\ Charged[p] = held[p] /\ cur' = cur - n
      BY <2>13 DEF Release, Charged
    <3>3. cur \in Int /\ n \in Int /\ held[p] \in Int
      OBVIOUS
    <3>4. cur' = cur + (Charged'[p] - Charged[p])
      BY ONLY SMT, <3>2, <3>3
    <3> QED
      BY <2>4, <3>1, <3>4
  <2>14. ASSUME NEW p \in Procs, NEW n \in Weights, ReleasePanic(p, n) PROVE FALSE
    BY <2>14 DEF ReleasePanic, NoPanic
  <2> QED
    BY SMTT(30), <2>5, <2>6, <2>7, <2>8, <2>9, <2>10, <2>11, <2>12, <2>13, <2>14
    DEF Next, Acquire, Running
<1> QED
  BY <1>1, <1>2, TypeCorrect, CallInvHolds, ListedOnceHolds, HeldInvHolds, PTL DEF Spec
=============================================================================
