--------------------------- MODULE CoroutineProofs ---------------------------
(***************************************************************************)
(* Proofs about Coroutine, for any stack size, capacity and number of      *)
(* coroutines.                                                             *)
(***************************************************************************)
EXTENDS Coroutine, FiniteSetTheorems, SequenceTheorems, TLAPS

LEMMA FreshCoroutine ==
  /\ _co_new \in Coroutines
  /\ _co_new.status = "READY"
  /\ _co_new # NULL
<1>1. _co_new \in Coroutines /\ _co_new.status = "READY"
  BY EmptySeq DEF _co_new, Coroutines
<1> QED
  BY <1>1, NULLAssumption

-----------------------------------------------------------------------------
(* A coroutine that has started has the frame of mainfunc, with its own    *)
(* id, at the bottom of its stack.                                         *)
BottomFrame ==
  \A i \in Live :
    co[i].status \in {"RUNNING", "SUSPEND"} =>
      Len(frames[i]) \in 1 .. STACK_SIZE /\ frames[i][1] = i

Inv == TypeOK /\ RunningExact /\ NcoExact /\ StackIntact /\ BottomFrame

LEMMA InvInit == Init => Inv
<1> SUFFICES ASSUME Init PROVE Inv
  OBVIOUS
<1> USE CapAssumption, StackAssumption
<1>1. TypeOK
  BY EmptySeq DEF Init, TypeOK, Cells
<1>2. Live = {}
  BY DEF Init, Live
<1>3. RunningExact
  BY DEF Init, RunningExact
<1>4. NcoExact
  BY <1>2, FS_EmptySet DEF Init, NcoExact
<1>5. StackIntact /\ BottomFrame
  BY <1>2 DEF Init, StackIntact, BottomFrame
<1> QED
  BY <1>1, <1>3, <1>4, <1>5 DEF Inv

LEMMA LiveFinite ==
  ASSUME TypeOK
  PROVE  /\ IsFiniteSet(Live) /\ Cardinality(Live) \in Nat
         /\ Live \subseteq 0 .. cap - 1
         /\ IsFiniteSet(0 .. cap - 1) /\ Cardinality(0 .. cap - 1) = cap
<1>1. /\ IsFiniteSet(0 .. cap - 1)
      /\ Cardinality(0 .. cap - 1) = cap
  BY FS_Interval DEF TypeOK
<1> QED
  BY <1>1, FS_Subset, FS_CardinalityType DEF Live

LEMMA SlotModulo ==
  ASSUME NEW c \in Nat \ {0}, NEW k \in 0 .. c - 1
  PROVE  k % c = k /\ (k + c) % c = k
<1>1. k % c = k
  OBVIOUS
<1>2. (k + c) % c = k
  OBVIOUS
<1> QED
  BY <1>1, <1>2

(* While the count is right, a scheduler that is not full has a free slot. *)
LEMMA FreeSlot ==
  ASSUME TypeOK, NcoExact, nco < cap
  PROVE  \E i \in 0 .. cap - 1 : co[ScanSlot(i)] = NULL
<1>1. PICK k \in 0 .. cap - 1 : co[k] = NULL
  <2> SUFFICES ASSUME \A k \in 0 .. cap - 1 : co[k] # NULL PROVE FALSE
    OBVIOUS
  <2>1. Live = 0 .. cap - 1
    BY DEF Live
  <2> QED
    BY <2>1, LiveFinite DEF NcoExact, TypeOK
<1> DEFINE i == IF k >= nco THEN k - nco ELSE k - nco + cap
<1>2. i \in 0 .. cap - 1 /\ (i + nco = k \/ i + nco = k + cap)
  BY DEF TypeOK
<1>3. k % cap = k /\ (k + cap) % cap = k
  BY Zenon, SlotModulo DEF TypeOK
<1>4. ScanSlot(i) = k
  BY <1>2, <1>3 DEF ScanSlot
<1> QED
  BY <1>1, <1>2, <1>4

-----------------------------------------------------------------------------
(* The bookkeeping of ids.  coroutine_new adds one slot to the live ones,  *)
(* mainfunc removes one, the other calls keep them.                        *)

LEMMA AddLive ==
  ASSUME TypeOK, NcoExact, NEW k \in Nat, k \notin Live,
         Live' = Live \cup {k}, nco' = nco + 1
  PROVE  NcoExact'
<1>1. Cardinality(Live \cup {k}) = Cardinality(Live) + 1
  BY Zenon, LiveFinite, FS_AddElement
<1> QED
  BY <1>1 DEF NcoExact

LEMMA RemoveLive ==
  ASSUME TypeOK, NcoExact, NEW k \in Live,
         Live' = Live \ {k}, nco' = nco - 1
  PROVE  NcoExact' /\ nco' \in Nat
<1>1. Cardinality(Live \ {k}) = Cardinality(Live) - 1
  BY Zenon, LiveFinite, FS_RemoveElement
<1>2. IsFiniteSet(Live \ {k}) /\ Cardinality(Live \ {k}) \in Nat
  BY LiveFinite, FS_RemoveElement, FS_CardinalityType
<1> QED
  BY <1>1, <1>2 DEF NcoExact

LEMMA InvNewGrow ==
  ASSUME Inv, NewGrow PROVE Inv'
<1> USE DEF Inv
<1>a. /\ cap' = cap * 2 /\ cap \in Nat \ {0} /\ nco = cap
      /\ running' = running /\ stack' = stack /\ depth' = depth
      /\ nco' = nco + 1
  BY DEF NewGrow, TypeOK
<1>b. \A i \in 0 .. cap' - 1 :
        /\ i < cap => co'[i] = co[i] /\ frames'[i] = frames[i]
        /\ i = cap => co'[i] = _co_new
        /\ i > cap => co'[i] = NULL
  BY <1>a DEF NewGrow
<1>1. TypeOK'
  <2>1. co' \in [0 .. cap' - 1 -> Coroutines \cup {NULL}]
    BY <1>a, FreshCoroutine DEF NewGrow, TypeOK
  <2>2. frames' \in [0 .. cap' - 1 -> Seq(Cells)]
    BY <1>a, EmptySeq DEF NewGrow, TypeOK
  <2> QED
    BY <1>a, <2>1, <2>2 DEF TypeOK
<1>2. Live' = Live \cup {cap} /\ cap \notin Live
  BY <1>a, <1>b, FreshCoroutine DEF Live
<1>3. NcoExact'
  BY <1>a, <1>2, AddLive
<1>4. RunningExact'
  BY <1>a, <1>b, FreshCoroutine DEF RunningExact, TypeOK
<1>5. \A i \in Live : co'[i] = co[i] /\ frames'[i] = frames[i]
  <2>1. \A i \in 0 .. cap - 1 : i \in 0 .. cap' - 1 /\ i < cap
    BY <1>a
  <2> QED
    BY <2>1, <1>b DEF Live
<1>6. co'[cap] = _co_new
  BY <1>a, <1>b
<1>7. running # -1 => frames'[running] = frames[running]
  BY <1>a, <1>b DEF TypeOK
<1>8. StackIntact'
  BY <1>a, <1>2, <1>5, <1>6, <1>7, FreshCoroutine DEF StackIntact
<1>9. BottomFrame'
  BY <1>a, <1>2, <1>5, <1>6, FreshCoroutine DEF BottomFrame
<1> QED
  BY <1>1, <1>3, <1>4, <1>8, <1>9

LEMMA InvNewReuse ==
  ASSUME Inv, NewReuse PROVE Inv'
<1> USE DEF Inv
<1>a. PICK i \in 0 .. cap - 1 :
        /\ co[ScanSlot(i)] = NULL
        /\ co' = Put(co, ScanSlot(i), _co_new)
        /\ frames' = Put(frames, ScanSlot(i), <<>>)
  BY DEF NewReuse
<1> DEFINE k == ScanSlot(i)
<1>b. k \in 0 .. cap - 1
  BY DEF ScanSlot, TypeOK
<1>c. /\ cap' = cap /\ cap \in Nat \ {0} /\ nco < cap /\ nco' = nco + 1
      /\ running' = running /\ stack' = stack /\ depth' = depth
  BY DEF NewReuse, TypeOK
<1>d. co[k] = NULL /\ co' = [co EXCEPT ![k] = _co_new]
      /\ frames' = [frames EXCEPT ![k] = <<>>]
  BY <1>a DEF Put
<1> HIDE DEF k
<1>e. /\ co'[k] = _co_new
      /\ \A j \in 0 .. cap - 1 :
           j # k => co'[j] = co[j] /\ frames'[j] = frames[j]
  BY <1>b, <1>d DEF TypeOK
<1>1. TypeOK'
  BY <1>b, <1>c, <1>d, FreshCoroutine, EmptySeq DEF TypeOK
<1>2. Live' = Live \cup {k} /\ k \notin Live
  BY <1>b, <1>c, <1>d, <1>e, FreshCoroutine DEF Live
<1>3. NcoExact'
  BY <1>b, <1>c, <1>2, AddLive
<1>4. RunningExact'
  BY <1>b, <1>c, <1>d, <1>e, FreshCoroutine DEF RunningExact
<1>5. \A j \in Live : co'[j] = co[j] /\ frames'[j] = frames[j]
  BY <1>e, <1>2 DEF Live
<1>6. running # -1 => frames'[running] = frames[running]
  BY <1>b, <1>d, <1>e DEF TypeOK, RunningExact
<1>7. StackIntact'
  BY <1>c, <1>2, <1>5, <1>e, <1>6, FreshCoroutine DEF StackIntact
<1>8. BottomFrame'
  BY <1>2, <1>5, <1>e, FreshCoroutine DEF BottomFrame
<1> QED
  BY <1>1, <1>3, <1>4, <1>7, <1>8

-----------------------------------------------------------------------------
(* Starting, running, suspending and ending a coroutine. *)

LEMMA InvResumeReady ==
  ASSUME Inv, NEW id \in 0 .. cap - 1, ResumeReady(id) PROVE Inv'
<1> USE DEF Inv
<1>a. /\ cap' = cap /\ cap \in Nat \ {0} /\ nco' = nco
      /\ running = -1 /\ running' = id /\ depth' = 1
      /\ co[id] \in Coroutines /\ co[id].status = "READY"
  BY DEF ResumeReady, TypeOK
<1>b. /\ co' = [co EXCEPT ![id] = [co[id] EXCEPT !.status = "RUNNING"]]
      /\ frames' = [frames EXCEPT ![id] = <<id>>]
      /\ stack' = [stack EXCEPT ![1] = id]
  BY DEF ResumeReady, Put
<1>c. /\ [co[id] EXCEPT !.status = "RUNNING"] \in Coroutines
      /\ [co[id] EXCEPT !.status = "RUNNING"].status = "RUNNING"
  BY <1>a DEF Coroutines
<1>d. /\ co'[id] \in Coroutines /\ co'[id].status = "RUNNING" /\ co'[id] # NULL
      /\ \A j \in 0 .. cap - 1 :
           j # id => co'[j] = co[j] /\ frames'[j] = frames[j]
  BY Zenon, <1>b, <1>c, NULLAssumption DEF TypeOK
<1>e. <<id>> \in Seq(Cells) /\ Len(<<id>>) = 1 /\ <<id>>[1] = id
  BY DEF Cells
<1>f. frames'[id] = <<id>>
  BY <1>b DEF TypeOK
<1>g. stack' \in [1 .. STACK_SIZE -> Cells] /\ stack'[1] = id
  BY <1>b, StackAssumption DEF TypeOK, Cells
<1>1. TypeOK'
  <2>1. co' \in [0 .. cap' - 1 -> Coroutines \cup {NULL}]
    BY <1>a, <1>b, <1>c DEF TypeOK
  <2>2. frames' \in [0 .. cap' - 1 -> Seq(Cells)]
    BY <1>a, <1>b, <1>e DEF TypeOK
  <2> QED
    BY <1>a, <1>g, <2>1, <2>2, StackAssumption DEF TypeOK
<1>2. Live' = Live /\ id \in Live
  BY <1>a, <1>d, NULLAssumption DEF Live
<1>3. NcoExact'
  BY <1>a, <1>2 DEF NcoExact
<1>4. RunningExact'
  BY <1>a, <1>d DEF RunningExact
<1>5. StackIntact'
  <2>1. depth' = Len(frames'[running'])
    BY <1>a, <1>e, <1>f
  <2>2. \A k \in 1 .. depth' : stack'[k] = frames'[running'][k]
    BY <1>a, <1>e, <1>f, <1>g
  <2>3. \A i \in Live' : co'[i].status = "SUSPEND" =>
          i # id /\ co'[i] = co[i] /\ frames'[i] = frames[i]
    BY <1>2, <1>d DEF Live
  <2> QED
    BY <1>2, <2>1, <2>2, <2>3 DEF StackIntact
<1>6. BottomFrame'
  <2>1. \A i \in Live : i # id => co'[i] = co[i] /\ frames'[i] = frames[i]
    BY <1>d DEF Live
  <2>2. Len(frames'[id]) \in 1 .. STACK_SIZE /\ frames'[id][1] = id
    BY <1>e, <1>f, StackAssumption
  <2> QED
    BY <1>2, <2>1, <2>2 DEF BottomFrame
<1> QED
  BY <1>1, <1>3, <1>4, <1>5, <1>6

LEMMA InvResumeSuspended ==
  ASSUME Inv, NEW id \in 0 .. cap - 1, ResumeSuspended(id) PROVE Inv'
<1> USE DEF Inv
<1>a. /\ cap' = cap /\ cap \in Nat \ {0} /\ nco' = nco
      /\ running = -1 /\ running' = id /\ depth' = Len(frames[id])
      /\ co[id] \in Coroutines /\ co[id].status = "SUSPEND"
      /\ frames' = frames /\ frames[id] \in Seq(Cells)
  BY DEF ResumeSuspended, TypeOK
<1>b. /\ co' = [co EXCEPT ![id] = [co[id] EXCEPT !.status = "RUNNING"]]
      /\ stack' = [i \in 1 .. STACK_SIZE |->
            IF i <= Len(co[id].stack) THEN co[id].stack[i] ELSE stack[i]]
  BY DEF ResumeSuspended
<1>c. /\ [co[id] EXCEPT !.status = "RUNNING"] \in Coroutines
      /\ [co[id] EXCEPT !.status = "RUNNING"].status = "RUNNING"
  BY <1>a DEF Coroutines
<1>d. /\ co'[id] \in Coroutines /\ co'[id].status = "RUNNING" /\ co'[id] # NULL
      /\ \A j \in 0 .. cap - 1 : j # id => co'[j] = co[j]
  BY Zenon, <1>b, <1>c, NULLAssumption DEF TypeOK
<1>2. Live' = Live /\ id \in Live
  BY <1>a, <1>d, NULLAssumption DEF Live
<1>e. /\ co[id].stack = frames[id]
      /\ Len(frames[id]) \in 1 .. STACK_SIZE /\ frames[id][1] = id
  BY <1>2, <1>a DEF StackIntact, BottomFrame
<1>f. \A i \in 1 .. Len(frames[id]) : stack'[i] = frames[id][i]
  BY <1>b, <1>e, StackAssumption
<1>1. TypeOK'
  <2>1. co' \in [0 .. cap' - 1 -> Coroutines \cup {NULL}]
    BY <1>a, <1>b, <1>c DEF TypeOK
  <2>2. \A i \in 1 .. Len(frames[id]) : frames[id][i] \in Cells
    BY <1>a
  <2>3. stack' \in [1 .. STACK_SIZE -> Cells]
    BY <1>b, <1>e, <2>2, StackAssumption DEF TypeOK
  <2> QED
    BY <1>a, <1>e, <2>1, <2>3, StackAssumption DEF TypeOK
<1>3. NcoExact'
  BY <1>a, <1>2 DEF NcoExact
<1>4. RunningExact'
  BY <1>a, <1>d DEF RunningExact
<1>5. StackIntact'
  <2>1. \A i \in Live' : co'[i].status = "SUSPEND" => i # id /\ co'[i] = co[i]
    BY <1>2, <1>d DEF Live
  <2> QED
    BY <1>a, <1>f, <1>2, <2>1 DEF StackIntact
<1>6. BottomFrame'
  <2>1. \A i \in Live : i # id => co'[i] = co[i]
    BY <1>d DEF Live
  <2> QED
    BY <1>a, <1>2, <1>e, <2>1 DEF BottomFrame
<1> QED
  BY <1>1, <1>3, <1>4, <1>5, <1>6

(* The running coroutine: it is live, started, and the stack is its own. *)
LEMMA Runner ==
  ASSUME Inv, running # -1
  PROVE  /\ running \in 0 .. cap - 1 /\ running \in Live
         /\ co[running] \in Coroutines /\ co[running].status = "RUNNING"
         /\ frames[running] \in Seq(Cells) /\ depth = Len(frames[running])
         /\ depth \in 1 .. STACK_SIZE /\ frames[running][1] = running
         /\ \A k \in 1 .. depth : stack[k] = frames[running][k]
<1> USE DEF Inv
<1>1. running \in 0 .. cap - 1
  BY DEF TypeOK
<1>2. co[running] # NULL /\ co[running].status = "RUNNING"
  BY <1>1 DEF RunningExact
<1>3. running \in Live
  BY <1>1, <1>2 DEF Live
<1>4. co[running] \in Coroutines /\ frames[running] \in Seq(Cells)
  BY <1>1, <1>2 DEF TypeOK
<1>5. /\ depth = Len(frames[running])
      /\ \A k \in 1 .. depth : stack[k] = frames[running][k]
  BY DEF StackIntact
<1>6. Len(frames[running]) \in 1 .. STACK_SIZE /\ frames[running][1] = running
  BY <1>2, <1>3 DEF BottomFrame
<1> QED
  BY <1>1, <1>2, <1>3, <1>4, <1>5, <1>6

(* What Call and Return share: they change only the running coroutine's    *)
(* frames, which stay those on the stack.                                  *)
LEMMA InvFrames ==
  ASSUME Inv, running # -1, NEW s \in Seq(Cells),
         Len(s) \in 1 .. STACK_SIZE, s[1] = running,
         frames' = [frames EXCEPT ![running] = s], depth' = Len(s),
         stack' \in [1 .. STACK_SIZE -> Cells],
         \A k \in 1 .. Len(s) : stack'[k] = s[k],
         UNCHANGED <<nco, cap, running, co>>
  PROVE  Inv'
<1> USE DEF Inv
<1>a. /\ running \in 0 .. cap - 1 /\ running \in Live
      /\ co[running].status = "RUNNING"
  BY Runner
<1>b. /\ frames'[running] = s
      /\ \A j \in 0 .. cap - 1 : j # running => frames'[j] = frames[j]
  BY <1>a DEF TypeOK
<1>1. TypeOK'
  BY <1>a, StackAssumption DEF TypeOK
<1>2. Live' = Live
  BY DEF Live
<1>3. NcoExact' /\ RunningExact'
  BY <1>2 DEF NcoExact, RunningExact
<1>4. \A i \in Live : i # running => frames'[i] = frames[i]
  BY <1>b DEF Live
<1>5. StackIntact'
  BY <1>2, <1>4, <1>a, <1>b DEF StackIntact
<1>6. BottomFrame'
  BY <1>2, <1>4, <1>b DEF BottomFrame
<1> QED
  BY <1>1, <1>3, <1>5, <1>6

LEMMA InvCall ==
  ASSUME Inv, NEW f \in Frames, Call(f) PROVE Inv'
<1>1. running # -1 /\ depth < STACK_SIZE
  BY DEF Call
<1> DEFINE s == Append(frames[running], f)
<1>2. /\ frames[running] \in Seq(Cells) /\ depth = Len(frames[running])
      /\ depth \in 1 .. STACK_SIZE /\ frames[running][1] = running
      /\ \A k \in 1 .. depth : stack[k] = frames[running][k]
  BY <1>1, Runner
<1>3. f \in Cells
  BY DEF Cells
<1>4. /\ s \in Seq(Cells) /\ Len(s) = depth + 1 /\ s[depth + 1] = f
      /\ \A k \in 1 .. depth : s[k] = frames[running][k]
  BY <1>2, <1>3
<1>5. /\ frames' = [frames EXCEPT ![running] = s] /\ depth' = depth + 1
      /\ stack' = [stack EXCEPT ![depth + 1] = f]
      /\ UNCHANGED <<nco, cap, running, co>>
  BY DEF Call, Put
<1> HIDE DEF s
<1>6. /\ stack' \in [1 .. STACK_SIZE -> Cells] /\ stack'[depth + 1] = f
      /\ \A k \in 1 .. depth : stack'[k] = stack[k]
  BY <1>1, <1>2, <1>3, <1>5, StackAssumption DEF Inv, TypeOK
<1>7. \A k \in 1 .. Len(s) : stack'[k] = s[k]
  BY <1>2, <1>4, <1>6, StackAssumption
<1>8. Len(s) \in 1 .. STACK_SIZE /\ s[1] = running /\ depth' = Len(s)
  BY <1>1, <1>2, <1>4, <1>5, StackAssumption
<1> QED
  BY Zenon, <1>1, <1>4, <1>5, <1>6, <1>7, <1>8, InvFrames

LEMMA InvReturn ==
  ASSUME Inv, Return PROVE Inv'
<1>1. running # -1 /\ depth > 1
  BY DEF Return
<1> DEFINE s == SubSeq(frames[running], 1, depth - 1)
<1>2. /\ frames[running] \in Seq(Cells) /\ depth = Len(frames[running])
      /\ depth \in 1 .. STACK_SIZE /\ frames[running][1] = running
      /\ \A k \in 1 .. depth : stack[k] = frames[running][k]
  BY <1>1, Runner
<1>3. /\ s \in Seq(Cells) /\ Len(s) = depth - 1
      /\ \A k \in 1 .. depth - 1 : s[k] = frames[running][k]
  BY <1>1, <1>2
<1>4. /\ frames' = [frames EXCEPT ![running] = s] /\ depth' = depth - 1
      /\ UNCHANGED <<nco, cap, running, co, stack>>
  BY DEF Return, Put
<1> HIDE DEF s
<1>5. \A k \in 1 .. Len(s) : stack'[k] = s[k]
  BY <1>2, <1>3, <1>4, StackAssumption
<1>6. Len(s) \in 1 .. STACK_SIZE /\ s[1] = running /\ depth' = Len(s)
  BY <1>1, <1>2, <1>3, <1>4, StackAssumption
<1>7. stack' \in [1 .. STACK_SIZE -> Cells]
  BY <1>4 DEF Inv, TypeOK
<1> QED
  BY Zenon, <1>1, <1>3, <1>4, <1>5, <1>6, <1>7, InvFrames

(* Copying the used part of a stack that holds the frames f gives f. *)
LEMMA SavedStack ==
  ASSUME NEW C, NEW n \in Nat, NEW st \in [1 .. n -> C],
         NEW f \in Seq(C), Len(f) <= n,
         \A k \in 1 .. Len(f) : st[k] = f[k]
  PROVE  SubSeq(st, 1, Len(f)) = f
<1>1. st \in Seq(C) /\ Len(st) = n
  BY SeqDef, LenProperties
<1>2. /\ SubSeq(st, 1, Len(f)) \in Seq(C)
      /\ Len(SubSeq(st, 1, Len(f))) = Len(f)
      /\ \A k \in 1 .. Len(f) : SubSeq(st, 1, Len(f))[k] = st[k]
  BY <1>1
<1> QED
  BY <1>2, SeqEqual

(* The coroutine coroutine_yield stores, with the saved stack as argument *)
Saved(c, d, s) ==
  [[c EXCEPT !.cap = IF c.cap < d THEN d ELSE c.cap, !.stack = s]
    EXCEPT !.status = "SUSPEND"]

LEMMA SavedCoroutine ==
  ASSUME NEW c \in Coroutines, NEW d \in Nat, NEW s \in Seq(Cells)
  PROVE  /\ Saved(c, d, s) \in Coroutines
         /\ Saved(c, d, s).status = "SUSPEND"
         /\ Saved(c, d, s).stack = s
         /\ d <= Saved(c, d, s).cap
<1> DEFINE n == IF c.cap < d THEN d ELSE c.cap
<1>1. n \in Nat /\ d <= n
  BY DEF Coroutines
<1>2. Saved(c, d, s) = [[c EXCEPT !.cap = n, !.stack = s]
                         EXCEPT !.status = "SUSPEND"]
  BY DEF Saved
<1> HIDE DEF n
<1> QED
  BY Zenon, <1>1, <1>2 DEF Coroutines

LEMMA InvYield ==
  ASSUME Inv, coroutine_yield PROVE Inv'
<1> USE DEF Inv
<1>1. running # -1
  BY DEF coroutine_yield
<1> DEFINE r == running
           C == Saved(co[r], depth, SubSeq(stack, 1, depth))
<1>2. /\ r \in 0 .. cap - 1 /\ r \in Live /\ co[r] \in Coroutines
      /\ frames[r] \in Seq(Cells) /\ depth = Len(frames[r])
      /\ depth \in 1 .. STACK_SIZE
      /\ \A k \in 1 .. depth : stack[k] = frames[r][k]
      /\ frames[r][1] = r
  BY <1>1, Runner
<1>3. SubSeq(stack, 1, depth) = frames[r]
  BY <1>2, SavedStack, StackAssumption DEF TypeOK
<1>4. co' = [co EXCEPT ![r] = C]
  BY DEF coroutine_yield, _save_stack, Saved
<1>5. /\ C \in Coroutines /\ C.status = "SUSPEND" /\ C.stack = frames[r]
      /\ depth <= C.cap
  <2>1. depth \in Nat /\ SubSeq(stack, 1, depth) \in Seq(Cells)
    BY <1>2, <1>3, StackAssumption
  <2>2. /\ C \in Coroutines /\ C.status = "SUSPEND"
        /\ C.stack = SubSeq(stack, 1, depth) /\ depth <= C.cap
    BY Zenon, <1>2, <2>1, SavedCoroutine
  <2> QED
    BY <1>3, <2>2, Zenon
<1>6. /\ cap' = cap /\ nco' = nco /\ running' = -1 /\ depth' = 0
      /\ stack' = stack /\ frames' = frames
  BY DEF coroutine_yield
<1> HIDE DEF C
<1>7. /\ co'[r] = C /\ C # NULL
      /\ \A j \in 0 .. cap - 1 : j # r => co'[j] = co[j]
  BY <1>2, <1>4, <1>5, NULLAssumption DEF TypeOK
<1>8. TypeOK'
  <2>1. co' \in [0 .. cap' - 1 -> Coroutines \cup {NULL}]
    BY Zenon, <1>4, <1>5, <1>6 DEF TypeOK
  <2> QED
    BY <1>6, <2>1, StackAssumption DEF TypeOK
<1>9. Live' = Live
  BY <1>2, <1>6, <1>7 DEF Live
<1>10. NcoExact'
  BY <1>6, <1>9 DEF NcoExact
<1>11. RunningExact'
  BY <1>2, <1>5, <1>6, <1>7 DEF RunningExact
<1>12. \A i \in Live : i # r => co'[i] = co[i]
  BY <1>7 DEF Live
<1>13. StackIntact'
  BY <1>2, <1>5, <1>6, <1>7, <1>9, <1>12 DEF StackIntact
<1>14. BottomFrame'
  BY <1>2, <1>6, <1>9, <1>12 DEF BottomFrame
<1> QED
  BY <1>8, <1>10, <1>11, <1>13, <1>14

LEMMA InvMainfunc ==
  ASSUME Inv, mainfunc PROVE Inv' /\ stack[1] = running
<1> USE DEF Inv
<1>1. running # -1 /\ depth = 1
  BY DEF mainfunc
<1> DEFINE r == running
<1>2. r \in 0 .. cap - 1 /\ r \in Live /\ stack[1] = r
  BY <1>1, Runner
<1>3. /\ co' = [co EXCEPT ![r] = NULL] /\ frames' = [frames EXCEPT ![r] = <<>>]
      /\ cap' = cap /\ nco' = nco - 1 /\ running' = -1 /\ depth' = 0
      /\ stack' = stack
  BY <1>2 DEF mainfunc, Put
<1>4. /\ co'[r] = NULL
      /\ \A j \in 0 .. cap - 1 :
           j # r => co'[j] = co[j] /\ frames'[j] = frames[j]
  BY <1>2, <1>3 DEF TypeOK
<1>5. Live' = Live \ {r}
  BY <1>2, <1>3, <1>4 DEF Live
<1>6. NcoExact' /\ nco' \in Nat
  BY <1>2, <1>3, <1>5, RemoveLive
<1>7. TypeOK'
  <2>1. frames' \in [0 .. cap' - 1 -> Seq(Cells)]
    BY Zenon, <1>3, EmptySeq DEF TypeOK
  <2> QED
    BY <1>3, <1>6, <2>1, StackAssumption DEF TypeOK
<1>8. RunningExact'
  BY <1>2, <1>3, <1>4 DEF RunningExact
<1>9. \A i \in Live' : i \in Live /\ co'[i] = co[i] /\ frames'[i] = frames[i]
  BY <1>4, <1>5 DEF Live
<1>10. StackIntact'
  BY <1>3, <1>9 DEF StackIntact
<1>11. BottomFrame'
  BY <1>9 DEF BottomFrame
<1> QED
  BY <1>2, <1>6, <1>7, <1>8, <1>10, <1>11

LEMMA InvClose ==
  ASSUME coroutine_close PROVE Inv'
<1> USE CapAssumption, StackAssumption
<1>1. TypeOK'
  BY EmptySeq DEF coroutine_close, TypeOK, Cells
<1>2. Live' = {}
  BY DEF coroutine_close, Live
<1>3. RunningExact'
  BY DEF coroutine_close, RunningExact
<1>4. NcoExact'
  BY <1>2, FS_EmptySet DEF coroutine_close, NcoExact
<1>5. StackIntact' /\ BottomFrame'
  BY <1>2 DEF coroutine_close, StackIntact, BottomFrame
<1> QED
  BY <1>1, <1>3, <1>4, <1>5 DEF Inv

-----------------------------------------------------------------------------
LEMMA InvStep == Inv /\ [Next]_vars => Inv'
<1> SUFFICES ASSUME Inv, [Next]_vars PROVE Inv'
  OBVIOUS
<1>1. CASE UNCHANGED vars
  BY <1>1 DEF vars, Inv, TypeOK, RunningExact, NcoExact, StackIntact,
              BottomFrame, Live
<1>2. CASE \E id \in 0 .. cap - 1 : ResumeReady(id) \/ ResumeSuspended(id)
  BY <1>2, InvResumeReady, InvResumeSuspended
<1>3. CASE \E f \in Frames : Call(f)
  BY <1>3, InvCall
<1> QED
  BY <1>1, <1>2, <1>3, InvNewGrow, InvNewReuse, InvReturn, InvYield,
     InvMainfunc, InvClose DEF Next

LEMMA InvHolds == Spec => []Inv
BY InvInit, InvStep, PTL DEF Spec

(* The state of the scheduler keeps its types, its tables their lengths. *)
THEOREM TypeCorrect == Spec => []TypeOK
BY InvHolds, PTL DEF Inv

(* nco is the number of coroutines that are not dead. *)
THEOREM CountExact == Spec => []NcoExact
BY InvHolds, PTL DEF Inv

(* The scheduler and the coroutines agree on who runs. *)
THEOREM OneRuns == Spec => []RunningExact
BY InvHolds, PTL DEF Inv

(* Sharing the stack is transparent to every coroutine, for any number of  *)
(* coroutines, any stack size and any order of resumes, calls and yields.  *)
THEOREM StackTransparent == Spec => []StackIntact
BY InvHolds, PTL DEF Inv

(* coroutine_new always finds the free slot it asserts to exist, and       *)
(* coroutine_resume never meets a coroutine in an unexpected state.        *)
THEOREM AssertsHold == Spec => []NoAssert
<1>1. Inv => NoAssert
  <2> SUFFICES ASSUME Inv PROVE NoAssert
    OBVIOUS
  <2>1. nco < cap => \E i \in 0 .. cap - 1 : co[ScanSlot(i)] = NULL
    BY FreeSlot DEF Inv
  <2>2. ASSUME running = -1, NEW i \in Live
        PROVE  co[i].status \in {"READY", "SUSPEND"}
    <3>1. i \in 0 .. cap - 1 /\ co[i] \in Coroutines
      BY DEF Live, Inv, TypeOK
    <3>2. co[i].status # "RUNNING"
      BY <2>2, <3>1, NULLAssumption DEF Inv, RunningExact
    <3> QED
      BY <3>1, <3>2 DEF Coroutines
  <2> QED
    BY <2>1, <2>2 DEF NoAssert
<1> QED
  BY <1>1, InvHolds, PTL

(* While the scheduler is open, only the coroutine that ran dies. *)
THEOREM OthersSurvive == Spec => OnlyRunnerDies
<1> DEFINE Dies == \A i \in Live : co'[i] = NULL => i = running
<1>1. Inv /\ [Next]_vars => [~coroutine_close => Dies]_vars
  <2> SUFFICES ASSUME Inv, Next, ~coroutine_close, NEW i \in Live, i # running
               PROVE  co'[i] # NULL
    BY DEF Inv
  <2>1. i \in 0 .. cap - 1 /\ co[i] # NULL /\ co[i] \in Coroutines
    BY DEF Live, Inv, TypeOK
  <2>2. CASE NewGrow
    <3>1. i \in 0 .. cap * 2 - 1 /\ i < cap
      BY <2>1 DEF Inv, TypeOK
    <3> QED
      BY <2>1, <2>2, <3>1 DEF NewGrow
  <2>3. CASE NewReuse
    BY <2>1, <2>3, FreshCoroutine DEF NewReuse, Put, Inv, TypeOK
  <2>4. ASSUME NEW id \in 0 .. cap - 1, ResumeReady(id) \/ ResumeSuspended(id)
        PROVE  co'[i] # NULL
    <3>1. co' = [co EXCEPT ![id] = [co[id] EXCEPT !.status = "RUNNING"]]
          /\ co[id] \in Coroutines
      BY <2>4 DEF ResumeReady, ResumeSuspended, Inv, TypeOK
    <3>2. [co[id] EXCEPT !.status = "RUNNING"] \in Coroutines
      BY <3>1 DEF Coroutines
    <3> QED
      BY Zenon, <2>1, <3>1, <3>2, NULLAssumption DEF Inv, TypeOK
  <2>5. CASE Return \/ \E f \in Frames : Call(f)
    BY <2>1, <2>5 DEF Call, Return
  <2>6. CASE coroutine_yield
    BY <2>1, <2>6 DEF coroutine_yield, Inv, TypeOK
  <2>7. CASE mainfunc
    BY <2>1, <2>7, InvMainfunc DEF mainfunc, Put, Inv, TypeOK
  <2> QED
    BY <2>2, <2>3, <2>4, <2>5, <2>6, <2>7 DEF Next
<1> QED
  BY <1>1, InvHolds, PTL DEF Spec, OnlyRunnerDies
=============================================================================
