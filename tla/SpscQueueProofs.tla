--------------------------- MODULE SpscQueueProofs ---------------------------
(***************************************************************************)
(* Proofs about SpscQueue, for every buffer size, element type and range   *)
(* length: type correctness, that the producer and the consumer never      *)
(* touch the same slot, that the objects alive are exactly the queued ones *)
(* and those being copied, and that the queue implements Fifo.             *)
(***************************************************************************)
EXTENDS SpscQueue, SequenceTheorems, TLAPS

(* The unsigned arithmetic of write_available, wrap-around included, gives *)
(* the free slots but one.                                                 *)
LEMMA WriteAvailable ==
  ASSUME NEW w \in Indexes, NEW r \in Indexes
  PROVE  write_available(w, r) = max_size - 1 - read_available(w, r)
<1> USE SizeAssumption DEF Indexes
<1>1. CASE w >= r
  <2>1. (r - w - 1) % SizeMod = r - w - 1 + SizeMod
    BY <1>1
  <2>2. (r - w - 1 + SizeMod + max_size) % SizeMod = r - w - 1 + max_size
    BY <1>1
  <2> QED
    BY <1>1, <2>1, <2>2 DEF write_available, read_available
<1>2. CASE w < r
  <2>1. (r - w - 1) % SizeMod = r - w - 1
    BY <1>2
  <2> QED
    BY <1>2, <2>1 DEF write_available, read_available
<1> QED
  BY <1>1, <1>2

(* The three cases of the stored index are one wrap-around. *)
LEMMA AdvancedIsSlot ==
  ASSUME NEW i \in Indexes, NEW n \in 0 .. max_size - 1
  PROVE  /\ Advanced(i, n) = Slot(i, n)
         /\ Slot(i, n) \in Indexes
         /\ read_available(Slot(i, n), i) = n
         /\ next_index(i) = Slot(i, 1)
BY SizeAssumption DEF Indexes, Advanced, Slot, read_available, next_index

(* Distances around the ring lie below max_size. *)
LEMMA Distance ==
  ASSUME NEW w \in Indexes, NEW r \in Indexes
  PROVE  /\ read_available(w, r) \in 0 .. max_size - 1
         /\ Slot(r, read_available(w, r)) = w
         /\ read_available(w, r) = 0 <=> w = r
BY SizeAssumption DEF Indexes, read_available, Slot

(* The test of push for a full buffer leaves one more slot. *)
LEMMA NotFull ==
  ASSUME NEW w \in Indexes, NEW r \in Indexes, next_index(w) # r
  PROVE  1 + read_available(w, r) < max_size
BY SizeAssumption DEF read_available, next_index, Indexes

(* An old value of read_index only makes the producer more careful. *)
LEMMA OldReadIndex ==
  ASSUME NEW seen \in Indexes, NEW r \in Indexes, NEW w \in Indexes,
         read_available(w, seen) = read_available(r, seen) + read_available(w, r),
         NEW i \in Loads(seen, r)
  PROVE  /\ i \in Indexes
         /\ read_available(w, i) = read_available(r, i) + read_available(w, r)
BY SizeAssumption DEF Indexes, read_available, Loads

(* An old value of write_index only makes the consumer more careful. *)
LEMMA OldWriteIndex ==
  ASSUME NEW seen \in Indexes, NEW r \in Indexes, NEW w \in Indexes,
         read_available(w, r) = read_available(seen, r) + read_available(w, seen),
         NEW i \in Loads(seen, w)
  PROVE  /\ i \in Indexes
         /\ read_available(w, r) = read_available(i, r) + read_available(w, i)
BY SizeAssumption DEF Indexes, read_available, Loads

(* Elements of a range in progress have different slots. *)
LEMMA SlotInjective ==
  ASSUME NEW i \in Indexes, NEW j \in 0 .. max_size - 1, NEW k \in 0 .. max_size - 1,
         Slot(i, j) = Slot(i, k)
  PROVE  j = k
BY SizeAssumption DEF Indexes, Slot

LEMMA SlotSlot ==
  ASSUME NEW i \in Indexes, NEW j \in Nat, NEW k \in Nat, j + k < max_size
  PROVE  Slot(Slot(i, j), k) = Slot(i, j + k)
BY SizeAssumption DEF Indexes, Slot

LEMMA SlotBeyond ==
  ASSUME NEW r \in Indexes, NEW w \in Indexes, NEW k \in Nat,
         read_available(w, r) + k < max_size
  PROVE  Slot(w, k) = Slot(r, read_available(w, r) + k)
BY SizeAssumption DEF Indexes, Slot, read_available

-----------------------------------------------------------------------------
Inv == TypeOK /\ IndexInv /\ LiveVals

(* The order of the indexes around the ring keeps the slots apart. *)
LEMMA InvDisjoint == Inv => SlotsDisjoint
<1> SUFFICES ASSUME Inv,
                    NEW j \in 0 .. Len(input) - 1, NEW k \in 0 .. taking - 1,
                    Slot(write_index, j) = Slot(read_index, k)
             PROVE  FALSE
  BY DEF SlotsDisjoint, PushSlots, PopSlots
<1> DEFINE d == read_available(write_index, read_index)
<1>1. Len(input) \in Nat /\ taking \in Nat
  BY LenProperties DEF Inv, TypeOK
<1>2. write_index \in Indexes /\ read_index \in Indexes /\ r_seen \in Indexes
      /\ w_seen \in Indexes
  BY DEF Inv, TypeOK
<1>3. /\ d \in 0 .. max_size - 1
      /\ read_available(read_index, r_seen) \in 0 .. max_size - 1
      /\ read_available(write_index, w_seen) \in 0 .. max_size - 1
      /\ read_available(w_seen, read_index) \in 0 .. max_size - 1
  BY <1>2, Distance
<1>4. d + j < max_size /\ k < d /\ j \in Nat /\ k \in Nat
  BY SMTT(30), <1>1, <1>3, SizeAssumption DEF Inv, IndexInv
<1>5. Slot(write_index, j) = Slot(read_index, d + j)
  BY <1>2, <1>4, SlotBeyond
<1> HIDE DEF d
<1>6. d + j \in 0 .. max_size - 1 /\ k \in 0 .. max_size - 1
  BY <1>3, <1>4, SizeAssumption
<1>7. d + j = k
  BY Zenon, <1>2, <1>5, <1>6, SlotInjective
<1> QED
  BY <1>3, <1>4, <1>7

-----------------------------------------------------------------------------
(* What every step needs of the invariant, in linear arithmetic. *)
LEMMA InvFacts ==
  ASSUME Inv
  PROVE  /\ write_index \in Indexes /\ read_index \in Indexes
         /\ r_seen \in Indexes /\ w_seen \in Indexes
         /\ Len(input) \in Nat /\ pushed \in 0 .. Len(input)
         /\ Len(taken) \in Nat /\ taking \in Nat /\ Len(taken) <= taking
         /\ read_available(write_index, read_index) \in 0 .. max_size - 1
         /\ Len(input) + read_available(write_index, read_index) < max_size
         /\ taking <= read_available(write_index, read_index)
<1>1. /\ write_index \in Indexes /\ read_index \in Indexes
      /\ r_seen \in Indexes /\ w_seen \in Indexes
      /\ Len(input) \in Nat /\ pushed \in 0 .. Len(input)
      /\ Len(taken) \in Nat /\ taking \in Nat /\ Len(taken) <= taking
  BY LenProperties DEF Inv, TypeOK
<1>2. /\ read_available(write_index, read_index) \in 0 .. max_size - 1
      /\ read_available(read_index, r_seen) \in 0 .. max_size - 1
      /\ read_available(write_index, r_seen) \in 0 .. max_size - 1
      /\ read_available(w_seen, read_index) \in 0 .. max_size - 1
      /\ read_available(write_index, w_seen) \in 0 .. max_size - 1
  BY <1>1, Distance
<1> QED
  BY SMTT(30), <1>1, <1>2, SizeAssumption DEF Inv, IndexInv

LEMMA InvInit == Init => Inv
<1> SUFFICES ASSUME Init PROVE Inv
  OBVIOUS
<1>1. 0 \in Indexes
  BY SizeAssumption DEF Indexes
<1>2. <<>> \in Seq(Vals) /\ Len(<<>>) = 0
  BY EmptySeq
<1>3. TypeOK
  BY <1>1, <1>2 DEF Init, TypeOK
<1>4. read_available(0, 0) = 0
  BY DEF read_available
<1>5. IndexInv
  BY <1>2, <1>4, SizeAssumption DEF Init, IndexInv
<1>6. LiveVals
  BY <1>2, <1>4 DEF Init, LiveVals
<1> QED
  BY <1>3, <1>5, <1>6 DEF Inv

LEMMA InvPushOneBegin ==
  ASSUME Inv, UNCHANGED trivial, NEW t \in Vals, PushOneBegin(t) PROVE Inv'
<1>1. PICK r \in Loads(r_seen, read_index) :
        /\ r_seen' = r
        /\ IF next_index(write_index) = r
           THEN UNCHANGED <<input, pushed, pushing, new_write_index>>
           ELSE /\ input' = <<t>>
                /\ pushed' = 0
                /\ pushing' = TRUE
                /\ new_write_index' = next_index(write_index)
  BY DEF PushOneBegin
<1>2. /\ ~pushing /\ input = <<>>
      /\ UNCHANGED <<write_index, read_index, buffer, w_seen, taking, taken, popping,
                     new_read_index, out>>
  BY DEF PushOneBegin, Inv, IndexInv, consVars
<1>3. /\ r \in Indexes
      /\ read_available(write_index, r)
           = read_available(read_index, r) + read_available(write_index, read_index)
  BY <1>1, InvFacts, OldReadIndex DEF Inv, IndexInv
<1>4. read_available(write_index, r) \in 0 .. max_size - 1
  BY <1>3, InvFacts, Distance
<1>5. CASE next_index(write_index) = r
  <2>1. TypeOK'
    BY <1>1, <1>2, <1>3, <1>5 DEF Inv, TypeOK
  <2>2. IndexInv'
    BY <1>1, <1>2, <1>3, <1>4, <1>5, EmptySeq, SizeAssumption DEF Inv, IndexInv
  <2>3. LiveVals'
    BY <1>1, <1>2, <1>5 DEF Inv, LiveVals
  <2> QED
    BY <2>1, <2>2, <2>3 DEF Inv
<1>6. CASE next_index(write_index) # r
  <2>1. /\ input' \in Seq(Vals) /\ Len(input') = 1
        /\ pushed' = 0 /\ pushing' = TRUE
        /\ new_write_index' = next_index(write_index)
    <3>1. <<t>> \in Seq(Vals) /\ Len(<<t>>) = 1
      OBVIOUS
    <3>2. input' = <<t>> /\ pushed' = 0 /\ pushing' = TRUE
          /\ new_write_index' = next_index(write_index)
      BY <1>1, <1>6, Zenon
    <3> QED
      BY <3>1, <3>2, Zenon
  <2>2. 1 + read_available(write_index, r) < max_size
    BY <1>3, <1>6, InvFacts, NotFull
  <2>3. /\ next_index(write_index) \in Indexes
        /\ next_index(write_index) = Slot(write_index, 1)
    BY <1>4, <2>2, InvFacts, AdvancedIsSlot, SizeAssumption
  <2>4. TypeOK'
    BY <1>1, <1>2, <1>3, <2>1, <2>3 DEF Inv, TypeOK
  <2>5. IndexInv'
    BY <1>1, <1>2, <1>3, <2>1, <2>2, <2>3 DEF Inv, IndexInv
  <2>6. LiveVals'
    <3>1. pushed = 0 /\ pushed' = 0
      BY <1>2, <2>1, InvFacts, EmptySeq
    <3> QED
      BY <1>2, <3>1 DEF Inv, LiveVals
  <2> QED
    BY <2>4, <2>5, <2>6 DEF Inv
<1> QED
  BY <1>5, <1>6

LEMMA InvPushRangeBegin ==
  ASSUME Inv, UNCHANGED trivial, NEW range \in Ranges, PushRangeBegin(range) PROVE Inv'
<1> DEFINE count(r) == Smaller(Len(range), write_available(write_index, r))
<1>1. PICK r \in Loads(r_seen, read_index) :
        /\ r_seen' = r
        /\ IF write_available(write_index, r) = 0
           THEN UNCHANGED <<input, pushed, pushing, new_write_index>>
           ELSE /\ input' = SubSeq(range, 1, count(r))
                /\ pushed' = 0
                /\ pushing' = TRUE
                /\ new_write_index' = Advanced(write_index, count(r))
  BY DEF PushRangeBegin
<1>2. /\ ~pushing /\ input = <<>>
      /\ UNCHANGED <<write_index, read_index, buffer, w_seen, taking, taken, popping,
                     new_read_index, out>>
  BY DEF PushRangeBegin, Inv, IndexInv, consVars
<1>3. /\ r \in Indexes
      /\ read_available(write_index, r)
           = read_available(read_index, r) + read_available(write_index, read_index)
  BY <1>1, InvFacts, OldReadIndex DEF Inv, IndexInv
<1>4. /\ read_available(write_index, r) \in 0 .. max_size - 1
      /\ write_available(write_index, r) = max_size - 1 - read_available(write_index, r)
  BY <1>3, InvFacts, Distance, WriteAvailable
<1>5. CASE write_available(write_index, r) = 0
  <2>1. TypeOK'
    BY <1>1, <1>2, <1>3, <1>5 DEF Inv, TypeOK
  <2>2. IndexInv'
    BY <1>1, <1>2, <1>3, <1>4, <1>5, EmptySeq, SizeAssumption DEF Inv, IndexInv
  <2>3. LiveVals'
    BY <1>1, <1>2, <1>5 DEF Inv, LiveVals
  <2> QED
    BY <2>1, <2>2, <2>3 DEF Inv
<1>6. CASE write_available(write_index, r) # 0
  <2> DEFINE c == count(r)
  <2>1. range \in Seq(Vals) /\ Len(range) \in Nat
    BY BatchAssumption, SeqDef, LenProperties DEF Ranges
  <2>2. c \in Nat /\ c <= Len(range) /\ c <= write_available(write_index, r)
    BY <1>4, <2>1, SizeAssumption DEF Smaller
  <2>3. /\ input' = SubSeq(range, 1, c)
        /\ pushed' = 0 /\ pushing' = TRUE
        /\ new_write_index' = Advanced(write_index, c)
    BY <1>1, <1>6
  <2> HIDE DEF c
  <2>4. input' \in Seq(Vals) /\ Len(input') = c
    <3>1. \A i \in 1 .. c : range[i] \in Vals
      BY <2>1, <2>2, ElementOfSeq
    <3>2. 1 \in Int /\ c \in Int
      BY <2>2
    <3>3. /\ SubSeq(range, 1, c) \in Seq(Vals)
          /\ Len(SubSeq(range, 1, c)) = IF 1 <= c THEN c - 1 + 1 ELSE 0
      BY <3>1, <3>2, SubSeqProperties
    <3> QED
      BY <2>2, <2>3, <3>3
  <2>5. c \in 0 .. max_size - 1
    BY <1>4, <2>2, SizeAssumption
  <2>6. new_write_index' = Slot(write_index, c) /\ new_write_index' \in Indexes
    BY <2>3, <2>5, InvFacts, AdvancedIsSlot
  <2>7. TypeOK'
    BY <1>1, <1>2, <1>3, <2>2, <2>3, <2>4, <2>6 DEF Inv, TypeOK
  <2>8. IndexInv'
    BY <1>1, <1>2, <1>3, <1>4, <2>2, <2>3, <2>4, <2>6, SizeAssumption DEF Inv, IndexInv
  <2>9. LiveVals'
    <3>1. pushed = 0 /\ pushed' = 0
      BY <1>2, <2>3, InvFacts, EmptySeq
    <3> QED
      BY <1>2, <3>1 DEF Inv, LiveVals
  <2> QED
    BY <2>7, <2>8, <2>9 DEF Inv
<1> QED
  BY <1>5, <1>6

LEMMA InvPushCopy ==
  ASSUME Inv, UNCHANGED trivial, PushCopy PROVE Inv'
<1> DEFINE d == read_available(write_index, read_index)
           s == Slot(write_index, pushed)
<1>1. /\ pushing /\ pushed < Len(input)
      /\ buffer' = [buffer EXCEPT ![s] = input[pushed + 1]]
      /\ pushed' = pushed + 1
      /\ UNCHANGED <<write_index, read_index, r_seen, input, pushing, new_write_index,
                     w_seen, taking, taken, popping, new_read_index, out>>
  BY DEF PushCopy, consVars
<1>2. pushed \in Nat /\ pushed + 1 \in 1 .. Len(input) /\ input[pushed + 1] \in Vals
  <2>1. pushed \in Nat /\ pushed + 1 \in 1 .. Len(input)
    BY <1>1, InvFacts
  <2> QED
    BY <2>1, ElementOfSeq DEF Inv, TypeOK
<1>3. d \in 0 .. max_size - 1 /\ d + pushed < max_size
  BY <1>1, <1>2, InvFacts, SizeAssumption
<1>4. s = Slot(read_index, d + pushed)
  BY <1>2, <1>3, InvFacts, SlotBeyond
<1>5. s \in Indexes
  BY <1>2, <1>3, InvFacts, AdvancedIsSlot, SizeAssumption
<1> HIDE DEF s
<1>6. buffer' \in [Indexes -> Vals \cup {Raw}] /\ buffer'[s] \in Vals
      /\ \A i \in Indexes \ {s} : buffer'[i] = buffer[i]
  BY <1>1, <1>2, <1>5 DEF Inv, TypeOK
<1>7. TypeOK'
  BY <1>1, <1>2, <1>6 DEF Inv, TypeOK
<1>8. IndexInv'
  BY <1>1 DEF Inv, IndexInv
<1>9. LiveVals'
  <2> SUFFICES ASSUME NEW k \in Len(taken) .. d + pushed
               PROVE  buffer'[Slot(read_index, k)] \in Vals
    BY <1>1, <1>2, <1>3 DEF LiveVals
  <2>1. k \in 0 .. max_size - 1
    BY <1>2, <1>3, InvFacts, SizeAssumption
  <2>2. CASE k = d + pushed
    BY <1>4, <1>6, <2>2
  <2>3. CASE k < d + pushed
    <3>1. k \in Len(taken) .. d + pushed - 1
      BY <1>2, <1>3, <2>3, InvFacts
    <3>2. buffer[Slot(read_index, k)] \in Vals
      BY <3>1 DEF Inv, LiveVals
    <3>3. Slot(read_index, k) \in Indexes
      BY <2>1, InvFacts, AdvancedIsSlot
    <3> QED
      BY <1>6, <3>2, <3>3
  <2> QED
    BY <1>2, <1>3, <2>2, <2>3, InvFacts
<1> QED
  BY <1>7, <1>8, <1>9 DEF Inv

(* Storing an index moves it over the elements of the operation. *)
LEMMA StoreWrite ==
  ASSUME NEW w \in Indexes, NEW r \in Indexes, NEW n \in Nat,
         read_available(w, r) + n < max_size
  PROVE  /\ Slot(w, n) \in Indexes
         /\ read_available(Slot(w, n), r) = read_available(w, r) + n
BY SizeAssumption DEF Indexes, Slot, read_available

LEMMA StoreRead ==
  ASSUME NEW w \in Indexes, NEW r \in Indexes, NEW n \in Nat,
         n <= read_available(w, r)
  PROVE  /\ Slot(r, n) \in Indexes
         /\ read_available(w, Slot(r, n)) = read_available(w, r) - n
BY SizeAssumption DEF Indexes, Slot, read_available

LEMMA InvPushStore ==
  ASSUME Inv, UNCHANGED trivial, PushStore PROVE Inv'
<1> DEFINE n == Len(input)
           w == write_index
<1>1. /\ pushing /\ pushed = n
      /\ write_index' = Slot(w, n)
      /\ pushing' = FALSE /\ input' = <<>> /\ pushed' = 0
      /\ UNCHANGED <<read_index, buffer, r_seen, new_write_index,
                     w_seen, taking, taken, popping, new_read_index, out>>
  BY DEF PushStore, consVars, Inv, IndexInv
<1>2. n \in Nat /\ Len(input') = 0 /\ input' \in Seq(Vals)
  BY <1>1, InvFacts, EmptySeq
<1>3. /\ read_available(w, r_seen) + n < max_size
      /\ read_available(w, read_index) + n < max_size
      /\ read_available(w, w_seen) + n < max_size
  <2>1. /\ read_available(w, r_seen) \in 0 .. max_size - 1
        /\ read_available(w, read_index) \in 0 .. max_size - 1
        /\ read_available(w, w_seen) \in 0 .. max_size - 1
        /\ read_available(read_index, r_seen) \in 0 .. max_size - 1
        /\ read_available(w_seen, read_index) \in 0 .. max_size - 1
    BY InvFacts, Distance
  <2> QED
    BY <1>2, <2>1, SizeAssumption DEF Inv, IndexInv
<1>4. /\ Slot(w, n) \in Indexes
      /\ read_available(Slot(w, n), r_seen) = read_available(w, r_seen) + n
      /\ read_available(Slot(w, n), read_index) = read_available(w, read_index) + n
      /\ read_available(Slot(w, n), w_seen) = read_available(w, w_seen) + n
  BY <1>2, <1>3, InvFacts, StoreWrite
<1>5. TypeOK'
  <2>1. pushed' \in 0 .. Len(input') /\ write_index' \in Indexes
    BY <1>1, <1>2, <1>4
  <2>2. UNCHANGED <<read_index, buffer, r_seen, new_write_index, w_seen, taking,
                    taken, popping, new_read_index, out>> /\ pushing' \in BOOLEAN
    BY Zenon, <1>1
  <2> QED
    BY <1>2, <2>1, <2>2 DEF Inv, TypeOK
<1>6. IndexInv'
  <2>1. /\ read_available(w, r_seen) \in Int
        /\ read_available(w, read_index) \in Int
        /\ read_available(w, w_seen) \in Int
        /\ read_available(read_index, r_seen) \in Int
        /\ read_available(w_seen, read_index) \in Int
    BY InvFacts, Distance
  <2> QED
    BY SMTT(30), <1>1, <1>2, <1>3, <1>4, <2>1, SizeAssumption DEF Inv, IndexInv
<1>7. LiveVals'
  <2>1. read_available(w, read_index) \in Int
    BY InvFacts
  <2>2. read_available(write_index', read_index') + pushed' - 1
          = read_available(w, read_index) + pushed - 1
    BY <1>1, <1>2, <1>4, <2>1
  <2>3. UNCHANGED <<read_index, buffer, taken>>
    BY <1>1
  <2> QED
    BY <2>2, <2>3 DEF Inv, LiveVals
<1> QED
  BY <1>5, <1>6, <1>7 DEF Inv

(* All ways to begin a pop: count elements, none of them beyond w. *)
LEMMA InvPopBegin ==
  ASSUME Inv, UNCHANGED trivial, ~popping, NEW w \in Loads(w_seen, write_index), w_seen' = w,
         NEW count \in Nat, NEW next,
         \/ UNCHANGED <<taking, taken, popping, new_read_index>>
         \/ /\ PopBegin(count, next)
            /\ count <= read_available(w, read_index)
            /\ next = Slot(read_index, count),
         UNCHANGED <<write_index, read_index, buffer, prodVars, out>>
  PROVE  Inv'
<1>1. UNCHANGED <<write_index, read_index, buffer, r_seen, input, pushed, pushing,
                  new_write_index, out>>
  BY DEF prodVars
<1>2. /\ w \in Indexes
      /\ read_available(write_index, read_index)
           = read_available(w, read_index) + read_available(write_index, w)
  BY InvFacts, OldWriteIndex DEF Inv, IndexInv
<1>3. read_available(w, read_index) \in 0 .. max_size - 1
  BY <1>2, InvFacts, Distance
<1>4. taken = <<>> /\ taking = 0
  BY DEF Inv, IndexInv
<1>5. CASE UNCHANGED <<taking, taken, popping, new_read_index>>
  <2>1. TypeOK'
    BY <1>1, <1>2, <1>5 DEF Inv, TypeOK
  <2>2. IndexInv'
    BY <1>1, <1>2, <1>3, <1>4, <1>5 DEF Inv, IndexInv
  <2>3. LiveVals'
    BY <1>1, <1>5 DEF Inv, LiveVals
  <2> QED
    BY <2>1, <2>2, <2>3 DEF Inv
<1>6. CASE /\ PopBegin(count, next)
           /\ count <= read_available(w, read_index)
           /\ next = Slot(read_index, count)
  <2>1. taking' = count /\ taken' = <<>> /\ popping' = TRUE /\ new_read_index' = next
    BY <1>6 DEF PopBegin
  <2>2. count \in 0 .. max_size - 1
    BY <1>3, <1>6, SizeAssumption
  <2>3. next \in Indexes
    BY <1>6, <2>2, InvFacts, AdvancedIsSlot
  <2>4. <<>> \in Seq(Vals) /\ Len(<<>>) = 0
    BY EmptySeq
  <2>5. TypeOK'
    BY <1>1, <1>2, <2>1, <2>3, <2>4 DEF Inv, TypeOK
  <2>6. IndexInv'
    BY <1>1, <1>2, <1>6, <2>1 DEF Inv, IndexInv
  <2>7. LiveVals'
    BY <1>1, <1>4, <2>1 DEF Inv, LiveVals
  <2> QED
    BY <2>5, <2>6, <2>7 DEF Inv
<1> QED
  BY <1>5, <1>6

LEMMA InvConsumeOneBegin ==
  ASSUME Inv, UNCHANGED trivial, ConsumeOneBegin PROVE Inv'
<1>1. PICK w \in Loads(w_seen, write_index) :
        /\ w_seen' = w
        /\ IF empty(w, read_index)
           THEN UNCHANGED <<taking, taken, popping, new_read_index>>
           ELSE PopBegin(1, next_index(read_index))
  BY DEF ConsumeOneBegin
<1>2. ~popping /\ UNCHANGED <<write_index, read_index, buffer, prodVars, out>>
  BY DEF ConsumeOneBegin
<1>3. w \in Indexes
  BY <1>1 DEF Loads
<1>4. ASSUME ~empty(w, read_index)
      PROVE  /\ 1 <= read_available(w, read_index)
             /\ next_index(read_index) = Slot(read_index, 1)
  <2>1. read_available(w, read_index) \in 0 .. max_size - 1
        /\ read_available(w, read_index) # 0
    BY <1>3, <1>4, InvFacts, Distance DEF empty
  <2>2. 1 \in 0 .. max_size - 1
    BY <2>1, SizeAssumption
  <2> QED
    BY <2>1, <2>2, InvFacts, AdvancedIsSlot
<1>5. \/ UNCHANGED <<taking, taken, popping, new_read_index>>
      \/ /\ PopBegin(1, next_index(read_index))
         /\ 1 <= read_available(w, read_index)
         /\ next_index(read_index) = Slot(read_index, 1)
  BY <1>1, <1>4
<1>6. 1 \in Nat
  OBVIOUS
<1> QED
  BY <1>1, <1>2, <1>5, <1>6, InvPopBegin

LEMMA InvPopRangeBegin ==
  ASSUME Inv, UNCHANGED trivial, NEW n \in Nat, PopRangeBegin(n) PROVE Inv'
<1> DEFINE count(w) == Smaller(n, read_available(w, read_index))
<1>1. PICK w \in Loads(w_seen, write_index) :
        /\ w_seen' = w
        /\ IF read_available(w, read_index) = 0
           THEN UNCHANGED <<taking, taken, popping, new_read_index>>
           ELSE PopBegin(count(w), Advanced(read_index, count(w)))
  BY DEF PopRangeBegin
<1>2. ~popping /\ UNCHANGED <<write_index, read_index, buffer, prodVars, out>>
  BY DEF PopRangeBegin
<1> DEFINE c == count(w)
<1>3. w \in Indexes /\ read_available(w, read_index) \in 0 .. max_size - 1
  BY <1>1, InvFacts, Distance DEF Loads
<1>4. c \in Nat /\ c <= read_available(w, read_index)
  BY <1>3, SizeAssumption DEF Smaller
<1>5. \/ UNCHANGED <<taking, taken, popping, new_read_index>>
      \/ PopBegin(c, Advanced(read_index, c))
  BY <1>1
<1> HIDE DEF c
<1>6. c \in 0 .. max_size - 1
  BY <1>3, <1>4, SizeAssumption
<1>7. Advanced(read_index, c) = Slot(read_index, c)
  BY <1>6, InvFacts, AdvancedIsSlot
<1> QED
  BY <1>1, <1>2, <1>4, <1>5, <1>7, InvPopBegin

LEMMA InvPopCopy ==
  ASSUME Inv, UNCHANGED trivial, PopCopy PROVE Inv'
<1> DEFINE d == read_available(write_index, read_index)
           s == Slot(read_index, Len(taken))
<1>1. /\ popping /\ Len(taken) < taking
      /\ taken' = Append(taken, buffer[s])
      /\ buffer' = IF trivial THEN buffer ELSE [buffer EXCEPT ![s] = Raw]
      /\ UNCHANGED <<write_index, read_index, r_seen, input, pushed, pushing,
                     new_write_index, w_seen, taking, popping, new_read_index, out>>
  BY DEF PopCopy, prodVars
<1>2. /\ d \in 0 .. max_size - 1 /\ Len(taken) \in Nat /\ Len(taken) < d
      /\ pushed \in Nat /\ d + pushed < max_size
  BY <1>1, InvFacts, SizeAssumption
<1>3. s \in Indexes
  BY <1>2, InvFacts, AdvancedIsSlot, SizeAssumption
<1>4. buffer[s] \in Vals
  <2>1. Len(taken) \in Len(taken) .. d + pushed - 1
    BY <1>2
  <2> QED
    BY <2>1 DEF Inv, LiveVals
<1> HIDE DEF s
<1>5. taken' \in Seq(Vals) /\ Len(taken') = Len(taken) + 1
  BY <1>1, <1>4, AppendProperties DEF Inv, TypeOK
<1>6. /\ buffer' \in [Indexes -> Vals \cup {Raw}]
      /\ \A i \in Indexes \ {s} : buffer'[i] = buffer[i]
  BY <1>1, <1>3 DEF Inv, TypeOK
<1>7. TypeOK'
  <2>1. Len(taken') <= taking'
    BY <1>1, <1>5, InvFacts
  <2> QED
    BY <1>1, <1>5, <1>6, <2>1 DEF Inv, TypeOK
<1>8. IndexInv'
  BY <1>1 DEF Inv, IndexInv
<1>9. LiveVals'
  <2> SUFFICES ASSUME NEW k \in Len(taken) + 1 .. d + pushed - 1
               PROVE  buffer'[Slot(read_index, k)] \in Vals
    BY <1>1, <1>5 DEF LiveVals
  <2>1. k \in 0 .. max_size - 1 /\ Len(taken) \in 0 .. max_size - 1 /\ k # Len(taken)
        /\ k \in Len(taken) .. d + pushed - 1
    BY <1>2, SizeAssumption
  <2>2. Slot(read_index, k) \in Indexes
    BY <2>1, InvFacts, AdvancedIsSlot
  <2>3. Slot(read_index, k) # s
    BY <2>1, InvFacts, SlotInjective DEF s
  <2>4. buffer[Slot(read_index, k)] \in Vals
    BY <2>1 DEF Inv, LiveVals
  <2> QED
    BY <1>6, <2>2, <2>3, <2>4
<1> QED
  BY <1>7, <1>8, <1>9 DEF Inv

LEMMA InvPopStore ==
  ASSUME Inv, UNCHANGED trivial, PopStore PROVE Inv'
<1> DEFINE n == taking
           r == read_index
           d == read_available(write_index, read_index)
<1>1. /\ popping /\ Len(taken) = n
      /\ read_index' = Slot(r, n)
      /\ out' = taken
      /\ popping' = FALSE /\ taking' = 0 /\ taken' = <<>>
      /\ UNCHANGED <<write_index, buffer, r_seen, input, pushed, pushing,
                     new_write_index, w_seen, new_read_index>>
  BY DEF PopStore, prodVars, Inv, IndexInv
<1>2. /\ n \in Nat /\ pushed \in Nat
      /\ n <= read_available(w_seen, r) /\ n <= d /\ d + pushed < max_size
      /\ read_available(r, r_seen) \in 0 .. max_size - 1
      /\ d \in 0 .. max_size - 1
      /\ read_available(r, r_seen) + n < max_size
  <2>1. /\ read_available(r, r_seen) \in 0 .. max_size - 1
        /\ read_available(write_index, r_seen) \in 0 .. max_size - 1
    BY InvFacts, Distance
  <2> QED
    BY <2>1, InvFacts, SizeAssumption DEF Inv, IndexInv
<1>3. /\ Slot(r, n) \in Indexes
      /\ read_available(write_index, Slot(r, n)) = d - n
  BY <1>2, InvFacts, StoreRead
<1>4. read_available(w_seen, Slot(r, n)) = read_available(w_seen, r) - n
  BY <1>2, InvFacts, StoreRead
<1>5. read_available(Slot(r, n), r_seen) = read_available(r, r_seen) + n
  BY <1>2, InvFacts, StoreWrite
<1>6. <<>> \in Seq(Vals) /\ Len(<<>>) = 0
  BY EmptySeq
<1>7. TypeOK'
  <2>1. /\ read_index' \in Indexes /\ popping' \in BOOLEAN
        /\ taking' = 0 /\ taken' \in Seq(Vals) /\ Len(taken') = 0
    BY <1>1, <1>3, <1>6, Zenon
  <2>2. out' \in Seq(Vals)
    BY <1>1 DEF Inv, TypeOK
  <2>3. UNCHANGED <<write_index, buffer, r_seen, input, pushed, pushing,
                    new_write_index, w_seen, new_read_index>>
    BY <1>1
  <2> QED
    BY <2>1, <2>2, <2>3 DEF Inv, TypeOK
<1>8. IndexInv'
  <2>1. /\ read_available(w_seen, r) \in Int
        /\ read_available(write_index, w_seen) \in Int
        /\ read_available(write_index, r_seen) \in Int
    BY InvFacts, Distance
  <2> QED
    BY SMTT(30), <1>1, <1>2, <1>3, <1>4, <1>5, <2>1 DEF Inv, IndexInv
<1>9. LiveVals'
  <2> SUFFICES ASSUME NEW k \in 0 .. (d - n) + pushed - 1
               PROVE  buffer[Slot(Slot(r, n), k)] \in Vals
    BY <1>1, <1>3, <1>6 DEF LiveVals
  <2>1. n + k \in Len(taken) .. d + pushed - 1
    BY <1>1, <1>2
  <2>2. Slot(Slot(r, n), k) = Slot(r, n + k)
    <3>1. k \in Nat /\ n + k < max_size
      BY <1>2, SizeAssumption
    <3> QED
      BY <1>2, <3>1, InvFacts, SlotSlot
  <2> QED
    BY <2>1, <2>2 DEF Inv, LiveVals
<1> QED
  BY <1>7, <1>8, <1>9 DEF Inv

LEMMA InvReset ==
  ASSUME Inv, UNCHANGED trivial, reset PROVE Inv'
<1>1. /\ ~pushing /\ ~popping
      /\ write_index' = read_index' /\ write_index' \in Indexes
      /\ r_seen' = read_index' /\ w_seen' = write_index'
      /\ buffer' \in [Indexes -> Vals \cup {Raw}]
      /\ UNCHANGED <<input, pushed, pushing, new_write_index, taking, taken,
                     popping, new_read_index, out>>
  <2>1. 0 \in Indexes
    BY SizeAssumption DEF Indexes
  <2> QED
    BY <2>1 DEF reset, Inv, TypeOK
<1>2. read_available(write_index', write_index') = 0
  BY <1>1, Distance
<1>3. /\ input = <<>> /\ taking = 0 /\ taken = <<>> /\ Len(<<>>) = 0
      /\ pushed = 0
  BY <1>1, EmptySeq DEF Inv, IndexInv, TypeOK
<1>4. TypeOK'
  BY <1>1 DEF Inv, TypeOK
<1>5. IndexInv'
  BY <1>1, <1>2, <1>3, SizeAssumption DEF IndexInv
<1>6. LiveVals'
  BY <1>1, <1>2, <1>3 DEF LiveVals
<1> QED
  BY <1>4, <1>5, <1>6 DEF Inv

LEMMA InvNext == Inv /\ [Next]_vars => Inv'
<1> SUFFICES ASSUME Inv, [Next]_vars PROVE Inv'
  OBVIOUS
<1>1. CASE UNCHANGED vars
  BY <1>1 DEF vars, prodVars, consVars, Inv, TypeOK, IndexInv, LiveVals
<1>2. ASSUME Producer, UNCHANGED trivial PROVE Inv'
  BY <1>2, InvPushOneBegin, InvPushRangeBegin, InvPushCopy, InvPushStore DEF Producer
<1>3. ASSUME Consumer, UNCHANGED trivial PROVE Inv'
  <2>1. ASSUME NEW n \in 0 .. MaxBatch, PopRangeBegin(n) PROVE Inv'
    <3>1. n \in Nat
      BY BatchAssumption
    <3> QED
      BY <1>3, <2>1, <3>1, InvPopRangeBegin
  <2>2. ASSUME ConsumeAllBegin PROVE Inv'
    BY <1>3, <2>2, InvPopRangeBegin, SizeAssumption DEF ConsumeAllBegin
  <2> QED
    BY <1>3, <2>1, <2>2, InvConsumeOneBegin, InvPopCopy, InvPopStore DEF Consumer
<1>4. ASSUME reset, UNCHANGED trivial PROVE Inv'
  BY <1>4, InvReset
<1> QED
  BY <1>1, <1>2, <1>3, <1>4 DEF Next

-----------------------------------------------------------------------------
(* Every variable keeps its type: the indexes stay inside the buffer and   *)
(* the consumer only ever takes out values that were pushed, never raw     *)
(* memory.                                                                 *)
THEOREM TypeCorrect == Spec => []TypeOK
<1>1. Inv => TypeOK
  BY DEF Inv
<1> QED
  BY <1>1, InvInit, InvNext, PTL DEF Spec

(* The indexes and the views of them keep their order around the ring, and *)
(* operations in progress stay between them.                               *)
THEOREM IndexOrder == Spec => []IndexInv
<1>1. Inv => IndexInv
  BY DEF Inv
<1> QED
  BY <1>1, InvInit, InvNext, PTL DEF Spec

(* Race freedom of the ring buffer, for every size, type and range length: *)
(* no slot is written by a push and read by a pop at the same time.        *)
THEOREM RaceFree == Spec => []SlotsDisjoint
BY InvDisjoint, InvInit, InvNext, PTL DEF Spec

(* Between the indexes there are only values that a push has copied.       *)
THEOREM LiveValues == Spec => []LiveVals
<1>1. Inv => LiveVals
  BY DEF Inv
<1> QED
  BY <1>1, InvInit, InvNext, PTL DEF Spec
-----------------------------------------------------------------------------
(* Exactly the slots in use hold objects: a push constructs the next slot, *)
(* a pop destroys the first one, and storing an index changes neither.     *)
LEMMA LiveInit == Init => LiveExactly
BY EmptySeq DEF Init, LiveExactly, read_available

LEMMA LiveSame ==
  ASSUME LiveExactly, UNCHANGED trivial, UNCHANGED <<buffer, read_index, taken>>,
         read_available(write_index', read_index') + pushed' - 1
           = read_available(write_index, read_index) + pushed - 1
  PROVE  LiveExactly'
BY Zenon DEF LiveExactly

LEMMA LivePushCopy ==
  ASSUME Inv, LiveExactly, UNCHANGED trivial, PushCopy PROVE LiveExactly'
<1> DEFINE d == read_available(write_index, read_index)
           s == Slot(write_index, pushed)
<1>1. /\ pushing /\ pushed < Len(input)
      /\ buffer' = [buffer EXCEPT ![s] = input[pushed + 1]]
      /\ pushed' = pushed + 1
      /\ UNCHANGED <<write_index, read_index, taken>>
  BY DEF PushCopy, consVars
<1>2. pushed \in Nat /\ pushed + 1 \in 1 .. Len(input) /\ input[pushed + 1] # Raw
  <2>1. pushed \in Nat /\ pushed + 1 \in 1 .. Len(input)
    BY <1>1, InvFacts
  <2> QED
    BY <2>1, ElementOfSeq, ValsAssumption DEF Inv, TypeOK
<1>3. d \in 0 .. max_size - 1 /\ d + pushed < max_size /\ Len(taken) \in Nat
      /\ Len(taken) <= d
  BY <1>1, <1>2, InvFacts, SizeAssumption
<1>4. s = Slot(read_index, d + pushed)
  BY <1>2, <1>3, InvFacts, SlotBeyond
<1>5. s \in Indexes /\ buffer \in [Indexes -> Vals \cup {Raw}]
  BY <1>2, <1>3, InvFacts, AdvancedIsSlot, SizeAssumption DEF Inv, TypeOK
<1> HIDE DEF s
<1>6. buffer'[s] # Raw /\ \A i \in Indexes \ {s} : buffer'[i] = buffer[i]
  BY <1>1, <1>2, <1>5
<1> SUFFICES ASSUME ~trivial, NEW i \in Indexes
             PROVE  buffer'[i] # Raw <=> \E k \in Len(taken) .. d + pushed : i = Slot(read_index, k)
  BY <1>1, <1>2, <1>3 DEF LiveExactly
<1>7. buffer[i] # Raw <=> \E k \in Len(taken) .. d + pushed - 1 : i = Slot(read_index, k)
  BY DEF LiveExactly
<1>8. CASE i = s
  <2>1. d + pushed \in Len(taken) .. d + pushed
    BY <1>2, <1>3
  <2> QED
    BY <1>4, <1>6, <1>8, <2>1
<1>9. CASE i # s
  <2>1. \A k \in Len(taken) .. d + pushed :
          k \in Len(taken) .. d + pushed - 1 \/ k = d + pushed
    BY <1>2, <1>3
  <2>2. \A k \in Len(taken) .. d + pushed - 1 : k \in Len(taken) .. d + pushed
    BY <1>2, <1>3
  <2> QED
    BY <1>4, <1>6, <1>7, <1>9, <2>1, <2>2
<1> QED
  BY <1>8, <1>9

LEMMA LivePopCopy ==
  ASSUME Inv, LiveExactly, UNCHANGED trivial, PopCopy PROVE LiveExactly'
<1> DEFINE d == read_available(write_index, read_index)
           n == Len(taken)
           s == Slot(read_index, n)
<1>1. /\ popping /\ n < taking
      /\ taken' = Append(taken, buffer[s])
      /\ buffer' = IF trivial THEN buffer ELSE [buffer EXCEPT ![s] = Raw]
      /\ UNCHANGED <<write_index, read_index, pushed>>
  BY DEF PopCopy, prodVars
<1>2. /\ d \in 0 .. max_size - 1 /\ n \in Nat /\ n < d
      /\ pushed \in Nat /\ d + pushed < max_size
  BY <1>1, InvFacts, SizeAssumption
<1>3. s \in Indexes /\ buffer \in [Indexes -> Vals \cup {Raw}]
  BY <1>2, InvFacts, AdvancedIsSlot, SizeAssumption DEF Inv, TypeOK
<1>4. Len(taken') = n + 1
  BY <1>1, AppendProperties DEF Inv, TypeOK
<1>5. \A k \in n + 1 .. d + pushed - 1 : Slot(read_index, k) # s
  <2> SUFFICES ASSUME NEW k \in n + 1 .. d + pushed - 1 PROVE Slot(read_index, k) # s
    OBVIOUS
  <2>1. k \in 0 .. max_size - 1 /\ n \in 0 .. max_size - 1 /\ k # n
    BY <1>2, SizeAssumption
  <2> QED
    BY <2>1, InvFacts, SlotInjective
<1> SUFFICES ASSUME ~trivial, NEW i \in Indexes
             PROVE  buffer'[i] # Raw <=>
                      \E k \in n + 1 .. d + pushed - 1 : i = Slot(read_index, k)
  BY <1>1, <1>4 DEF LiveExactly
<1>6. buffer[i] # Raw <=> \E k \in n .. d + pushed - 1 : i = Slot(read_index, k)
  BY DEF LiveExactly
<1>7. \A k \in n .. d + pushed - 1 : k \in n + 1 .. d + pushed - 1 \/ k = n
  BY <1>2
<1>8. \A k \in n + 1 .. d + pushed - 1 : k \in n .. d + pushed - 1
  BY <1>2
<1> HIDE DEF s, n, d
<1>9. buffer'[i] = IF i = s THEN Raw ELSE buffer[i]
  BY <1>1, <1>3
<1> QED
  BY <1>5, <1>6, <1>7, <1>8, <1>9 DEF s

LEMMA LivePushStore ==
  ASSUME Inv, LiveExactly, UNCHANGED trivial, PushStore PROVE LiveExactly'
<1>1. /\ pushed = Len(input) /\ pushed' = 0
      /\ write_index' = Slot(write_index, Len(input))
      /\ UNCHANGED <<buffer, read_index, taken>>
  BY DEF PushStore, consVars, Inv, IndexInv
<1>2. /\ read_available(write_index, read_index) \in Nat
      /\ read_available(write_index, read_index) + Len(input) < max_size
      /\ Len(input) \in Nat
  BY InvFacts, SizeAssumption
<1>3. read_available(write_index', read_index)
        = read_available(write_index, read_index) + Len(input)
  BY <1>1, <1>2, InvFacts, StoreWrite
<1> QED
  BY <1>1, <1>2, <1>3, LiveSame

LEMMA LivePopStore ==
  ASSUME Inv, LiveExactly, UNCHANGED trivial, PopStore PROVE LiveExactly'
<1> DEFINE n == taking
           r == read_index
           d == read_available(write_index, read_index)
<1>1. /\ Len(taken) = n /\ read_index' = Slot(r, n) /\ taken' = <<>>
      /\ UNCHANGED <<write_index, buffer, pushed>>
  BY DEF PopStore, prodVars, Inv, IndexInv
<1>2. /\ n \in Nat /\ pushed \in Nat /\ d \in Nat /\ n <= d /\ d + pushed < max_size
      /\ r \in Indexes
  BY InvFacts, SizeAssumption
<1>3. read_available(write_index, Slot(r, n)) = d - n
  BY <1>2, InvFacts, StoreRead
<1>4. \A k \in 0 .. (d - n) + pushed - 1 : Slot(Slot(r, n), k) = Slot(r, n + k)
  <2> SUFFICES ASSUME NEW k \in 0 .. (d - n) + pushed - 1
               PROVE  Slot(Slot(r, n), k) = Slot(r, n + k)
    OBVIOUS
  <2>1. k \in Nat /\ n + k < max_size
    BY <1>2, SizeAssumption
  <2> QED
    BY <1>2, <2>1, SlotSlot
<1>5. Len(<<>>) = 0
  BY EmptySeq
<1> SUFFICES ASSUME ~trivial, NEW i \in Indexes
             PROVE  buffer[i] # Raw <=>
                      \E k \in 0 .. (d - n) + pushed - 1 : i = Slot(Slot(r, n), k)
  BY <1>1, <1>3, <1>5 DEF LiveExactly
<1>6. buffer[i] # Raw <=> \E k \in n .. d + pushed - 1 : i = Slot(r, k)
  BY <1>1 DEF LiveExactly
<1> HIDE DEF d, n, r
<1>7. ASSUME NEW k \in n .. d + pushed - 1, i = Slot(r, k)
      PROVE  \E j \in 0 .. (d - n) + pushed - 1 : i = Slot(Slot(r, n), j)
  <2>1. k - n \in 0 .. (d - n) + pushed - 1 /\ n + (k - n) = k
    BY <1>2
  <2> QED
    BY <1>4, <1>7, <2>1
<1>8. ASSUME NEW k \in 0 .. (d - n) + pushed - 1, i = Slot(Slot(r, n), k)
      PROVE  \E j \in n .. d + pushed - 1 : i = Slot(r, j)
  <2>1. n + k \in n .. d + pushed - 1
    BY <1>2
  <2> QED
    BY <1>4, <1>8, <2>1
<1> QED
  BY <1>6, <1>7, <1>8

LEMMA LiveReset ==
  ASSUME Inv, UNCHANGED trivial, reset PROVE LiveExactly'
<1>1. /\ write_index' = read_index' /\ write_index' \in Indexes
      /\ trivial \/ buffer' = [i \in Indexes |-> Raw]
      /\ UNCHANGED <<taken, pushed>> /\ taken = <<>> /\ input = <<>>
  <2>1. 0 \in Indexes
    BY SizeAssumption DEF Indexes
  <2> QED
    BY <2>1 DEF reset, Inv, IndexInv, TypeOK
<1>2. read_available(write_index', read_index') = 0 /\ Len(<<>>) = 0 /\ pushed = 0
  BY <1>1, Distance, InvFacts, EmptySeq
<1> QED
  BY <1>1, <1>2 DEF LiveExactly

LEMMA LiveNext == Inv /\ LiveExactly /\ [Next]_vars => LiveExactly'
<1> SUFFICES ASSUME Inv, LiveExactly, [Next]_vars PROVE LiveExactly'
  OBVIOUS
<1>1. ASSUME UNCHANGED <<write_index, read_index, buffer, taken, pushed, trivial>>
      PROVE  LiveExactly'
  BY <1>1, LiveSame
\* Beginning an operation leaves nothing copied, as it was.
<1>2. ASSUME NEW t \in Vals, PushOneBegin(t), UNCHANGED trivial PROVE LiveExactly'
  <2>1. pushed = 0
    BY <1>2, InvFacts, EmptySeq DEF PushOneBegin, Inv, IndexInv
  <2> QED
    BY <1>1, <1>2, <2>1 DEF PushOneBegin, consVars
<1>3. ASSUME NEW range \in Ranges, PushRangeBegin(range), UNCHANGED trivial
      PROVE  LiveExactly'
  <2>1. pushed = 0
    BY <1>3, InvFacts, EmptySeq DEF PushRangeBegin, Inv, IndexInv
  <2> QED
    BY <1>1, <1>3, <2>1 DEF PushRangeBegin, consVars
<1>4. ASSUME NEW n, ConsumeOneBegin \/ PopRangeBegin(n), UNCHANGED trivial
      PROVE  LiveExactly'
  <2>1. taken = <<>>
    BY <1>4 DEF ConsumeOneBegin, PopRangeBegin, Inv, IndexInv
  <2> QED
    BY <1>1, <1>4, <2>1 DEF ConsumeOneBegin, PopRangeBegin, PopBegin, prodVars
<1> QED
  BY <1>1, <1>2, <1>3, <1>4, LivePushCopy, LivePopCopy, LivePushStore, LivePopStore, LiveReset
  DEF Next, Producer, Consumer, ConsumeAllBegin, vars, prodVars, consVars

(* For a type with a destructor, objects live in the slots in use and      *)
(* nowhere else: none is leaked, destroyed twice or read before it is      *)
(* constructed, whatever the interleaving.                                 *)
THEOREM LiveSlots == Spec => []LiveExactly
BY InvInit, InvNext, LiveInit, LiveNext, PTL DEF Spec
-----------------------------------------------------------------------------
(* The refinement of Fifo.  What a push has copied so far is the beginning *)
(* of its range, because no pop touches its slots.                         *)
Copied == \A k \in 0 .. pushed - 1 : buffer[Slot(write_index, k)] = input[k + 1]

LEMMA CopiedInit == Init => Copied
BY DEF Init, Copied

LEMMA CopiedPushCopy ==
  ASSUME Inv, Copied, PushCopy PROVE Copied'
<1> DEFINE s == Slot(write_index, pushed)
<1>1. /\ pushing /\ pushed < Len(input)
      /\ buffer' = [buffer EXCEPT ![s] = input[pushed + 1]]
      /\ pushed' = pushed + 1
      /\ UNCHANGED <<write_index, input>>
  BY DEF PushCopy
<1>2. pushed \in Nat /\ pushed < max_size /\ write_index \in Indexes
  BY <1>1, InvFacts, SizeAssumption
<1>3. s \in Indexes /\ buffer \in [Indexes -> Vals \cup {Raw}]
  BY <1>2, AdvancedIsSlot, SizeAssumption DEF Inv, TypeOK
<1> SUFFICES ASSUME NEW k \in 0 .. pushed
             PROVE  buffer'[Slot(write_index, k)] = input[k + 1]
  BY <1>1, <1>2 DEF Copied
<1>4. CASE k = pushed
  BY <1>1, <1>3, <1>4
<1>5. CASE k # pushed
  <2>1. k \in 0 .. pushed - 1 /\ k \in 0 .. max_size - 1 /\ pushed \in 0 .. max_size - 1
    BY <1>2, <1>5, SizeAssumption
  <2>2. Slot(write_index, k) # s /\ Slot(write_index, k) \in Indexes
    BY <1>2, <1>5, <2>1, SlotInjective, AdvancedIsSlot
  <2>3. buffer[Slot(write_index, k)] = input[k + 1]
    BY <2>1 DEF Copied
  <2> HIDE DEF s
  <2> QED
    BY <1>1, <1>3, <2>2, <2>3
<1> QED
  BY <1>4, <1>5

LEMMA CopiedPopCopy ==
  ASSUME Inv, Copied, PopCopy PROVE Copied'
<1> DEFINE s == Slot(read_index, Len(taken))
<1>1. /\ Len(taken) < taking
      /\ buffer' = IF trivial THEN buffer ELSE [buffer EXCEPT ![s] = Raw]
      /\ UNCHANGED <<write_index, input, pushed>>
  BY DEF PopCopy, prodVars
<1> SUFFICES ASSUME NEW k \in 0 .. pushed - 1
             PROVE  buffer'[Slot(write_index, k)] = input[k + 1]
  BY <1>1 DEF Copied
<1>2. k \in 0 .. Len(input) - 1 /\ k \in 0 .. max_size - 1 /\ Len(taken) \in 0 .. taking - 1
  BY <1>1, InvFacts, SizeAssumption
<1>3. Slot(write_index, k) # s
  BY <1>2, InvDisjoint DEF SlotsDisjoint, PushSlots, PopSlots
<1>4. Slot(write_index, k) \in Indexes
  BY <1>2, InvFacts, AdvancedIsSlot
<1>5. buffer[Slot(write_index, k)] = input[k + 1] /\ buffer \in [Indexes -> Vals \cup {Raw}]
  BY DEF Copied, Inv, TypeOK
<1> HIDE DEF s
<1> QED
  BY <1>1, <1>3, <1>4, <1>5

LEMMA CopiedNext == Inv /\ Copied /\ [Next]_vars => Copied'
<1> SUFFICES ASSUME Inv, Copied, [Next]_vars PROVE Copied'
  OBVIOUS
<1>1. ASSUME UNCHANGED <<write_index, buffer, pushed, input>> PROVE Copied'
  BY <1>1 DEF Copied
<1>2. ASSUME pushed' = 0 PROVE Copied'
  BY <1>2 DEF Copied
<1>3. ASSUME NEW t \in Vals, PushOneBegin(t) PROVE Copied'
  BY <1>1, <1>2, <1>3 DEF PushOneBegin
<1>4. ASSUME NEW range \in Ranges, PushRangeBegin(range) PROVE Copied'
  BY <1>1, <1>2, <1>4 DEF PushRangeBegin
<1>5. ASSUME reset PROVE Copied'
  <2>1. pushed' = pushed /\ input = <<>>
    BY <1>5 DEF reset, Inv, IndexInv
  <2> QED
    BY <1>2, <2>1, InvFacts, EmptySeq
<1>6. ASSUME NEW n, ConsumeOneBegin \/ PopRangeBegin(n) \/ PopStore PROVE Copied'
  BY <1>1, <1>6 DEF ConsumeOneBegin, PopRangeBegin, PopStore, prodVars
<1>7. ASSUME PushStore PROVE Copied'
  BY <1>2, <1>7 DEF PushStore
<1> QED
  BY <1>1, <1>3, <1>4, <1>5, <1>6, <1>7, CopiedPushCopy, CopiedPopCopy
  DEF Next, Producer, Consumer, ConsumeAllBegin, vars, prodVars, consVars

(* The contents are a sequence of values as long as the distance of the    *)
(* indexes.                                                                *)
LEMMA ContentsSeq ==
  Inv => /\ Contents \in Seq(Vals)
         /\ Len(Contents) = read_available(write_index, read_index)
         /\ \A k \in 1 .. read_available(write_index, read_index) :
              Contents[k] = IF k <= Len(taken) THEN taken[k] ELSE buffer[Slot(read_index, k - 1)]
<1> DEFINE d == read_available(write_index, read_index)
<1> SUFFICES ASSUME Inv
             PROVE  /\ Contents \in Seq(Vals)
                    /\ Len(Contents) = d
                    /\ \A k \in 1 .. d :
                         Contents[k] = IF k <= Len(taken) THEN taken[k]
                                                          ELSE buffer[Slot(read_index, k - 1)]
  OBVIOUS
<1>1. d \in Nat /\ pushed \in Nat /\ Len(taken) \in Nat
  BY InvFacts, SizeAssumption
<1>2. ASSUME NEW k \in 1 .. d
      PROVE  (IF k <= Len(taken) THEN taken[k] ELSE buffer[Slot(read_index, k - 1)]) \in Vals
  <2>1. CASE k <= Len(taken)
    <3>1. k \in 1 .. Len(taken)
      BY <1>1, <2>1
    <3> QED
      BY <2>1, <3>1, ElementOfSeq DEF Inv, TypeOK
  <2>2. CASE ~(k <= Len(taken))
    <3>1. k - 1 \in Len(taken) .. d + pushed - 1
      BY <1>1, <2>2
    <3> QED
      BY <2>2, <3>1 DEF Inv, LiveVals
  <2> QED
    BY <2>1, <2>2
<1>3. /\ Contents \in [1 .. d -> Vals]
      /\ \A k \in 1 .. d :
           Contents[k] = IF k <= Len(taken) THEN taken[k] ELSE buffer[Slot(read_index, k - 1)]
  BY Zenon, <1>2 DEF Contents
<1> HIDE DEF d
<1>4. Contents \in Seq(Vals)
  BY <1>1, <1>3, SeqDef
<1>5. Len(Contents) = d
  BY <1>1, <1>3, <1>4, LenProperties
<1> QED
  BY <1>3, <1>4, <1>5
(* A step that stores no index leaves the contents as they are. *)
LEMMA SameContents ==
  ASSUME Inv, UNCHANGED <<write_index, read_index>>,
         \A k \in 1 .. read_available(write_index, read_index) :
           (IF k <= Len(taken') THEN taken'[k] ELSE buffer'[Slot(read_index, k - 1)])
             = IF k <= Len(taken) THEN taken[k] ELSE buffer[Slot(read_index, k - 1)]
  PROVE  Contents' = Contents
BY Zenon DEF Contents

LEMMA ContentsPushCopy ==
  ASSUME Inv, PushCopy PROVE Contents' = Contents
<1> DEFINE d == read_available(write_index, read_index)
           s == Slot(write_index, pushed)
<1>1. /\ pushing /\ pushed < Len(input)
      /\ buffer' = [buffer EXCEPT ![s] = input[pushed + 1]]
      /\ UNCHANGED <<write_index, read_index, taken>>
  BY DEF PushCopy, consVars
<1>2. /\ pushed \in Nat /\ d \in 0 .. max_size - 1 /\ d + pushed < max_size
      /\ read_index \in Indexes /\ write_index \in Indexes
  BY <1>1, InvFacts, SizeAssumption
<1>3. s = Slot(read_index, d + pushed) /\ d + pushed \in 0 .. max_size - 1
  BY <1>2, SlotBeyond, SizeAssumption
<1>4. ASSUME NEW k \in 1 .. d
      PROVE  buffer'[Slot(read_index, k - 1)] = buffer[Slot(read_index, k - 1)]
  <2>1. k - 1 \in 0 .. max_size - 1 /\ k - 1 # d + pushed
    BY <1>2, SizeAssumption
  <2>2. Slot(read_index, k - 1) # s /\ Slot(read_index, k - 1) \in Indexes
    BY <1>2, <1>3, <2>1, SlotInjective, AdvancedIsSlot
  <2>3. buffer \in [Indexes -> Vals \cup {Raw}]
    BY DEF Inv, TypeOK
  <2> HIDE DEF s
  <2> QED
    BY <1>1, <2>2, <2>3
<1> HIDE DEF s
<1> QED
  BY <1>1, <1>4, SameContents

LEMMA ContentsPopCopy ==
  ASSUME Inv, PopCopy PROVE Contents' = Contents
<1> DEFINE d == read_available(write_index, read_index)
           n == Len(taken)
           s == Slot(read_index, n)
<1>1. /\ popping /\ n < taking
      /\ taken' = Append(taken, buffer[s])
      /\ buffer' = IF trivial THEN buffer ELSE [buffer EXCEPT ![s] = Raw]
      /\ UNCHANGED <<write_index, read_index>>
  BY DEF PopCopy, prodVars
<1>2. /\ n \in Nat /\ d \in 0 .. max_size - 1 /\ n < d /\ read_index \in Indexes
      /\ buffer \in [Indexes -> Vals \cup {Raw}]
  BY <1>1, InvFacts, SizeAssumption DEF Inv, TypeOK
<1>3. /\ Len(taken') = n + 1 /\ taken'[n + 1] = buffer[s]
      /\ \A k \in 1 .. n : taken'[k] = taken[k]
  <2>1. taken \in Seq(Vals)
    BY DEF Inv, TypeOK
  <2> QED
    BY <1>1, <2>1, AppendProperties
<1>4. ASSUME NEW k \in 1 .. d
      PROVE  (IF k <= Len(taken') THEN taken'[k] ELSE buffer'[Slot(read_index, k - 1)])
               = IF k <= n THEN taken[k] ELSE buffer[Slot(read_index, k - 1)]
  <2>1. CASE k <= n
    <3>1. k \in 1 .. n /\ k <= n + 1
      BY <1>2, <2>1
    <3> QED
      BY <1>3, <2>1, <3>1
  <2>2. CASE k = n + 1
    <3>1. ~(k <= n) /\ k <= n + 1 /\ k - 1 = n
      BY <1>2, <2>2
    <3> QED
      BY <1>3, <2>2, <3>1
  <2>3. CASE k > n + 1
    <3>1. ~(k <= n) /\ ~(k <= n + 1)
      BY <1>2, <2>3
    <3>2. k - 1 \in 0 .. max_size - 1 /\ n \in 0 .. max_size - 1 /\ k - 1 # n
      BY <1>2, <2>3, SizeAssumption
    <3>3. Slot(read_index, k - 1) # s /\ Slot(read_index, k - 1) \in Indexes
      BY <1>2, <3>2, SlotInjective, AdvancedIsSlot
    <3> HIDE DEF s
    <3>4. buffer'[Slot(read_index, k - 1)] = buffer[Slot(read_index, k - 1)]
      BY <1>1, <1>2, <3>3
    <3> QED
      BY <1>3, <3>1, <3>4
  <2> QED
    BY <1>2, <2>1, <2>2, <2>3
<1> HIDE DEF s
<1> QED
  BY <1>1, <1>4, SameContents

(* The store of write_index appends the whole range. *)
LEMMA ContentsPushStore ==
  ASSUME Inv, Inv', Copied, PushStore
  PROVE  /\ Contents' = Contents \o input
         /\ Len(Contents) + Len(input) <= max_size - 1
<1> DEFINE d == read_available(write_index, read_index)
           n == Len(input)
<1>1. /\ pushed = n
      /\ write_index' = Slot(write_index, n)
      /\ UNCHANGED <<read_index, buffer, taken>>
  BY DEF PushStore, consVars, Inv, IndexInv
<1>2. /\ n \in Nat /\ d \in Nat /\ d + n < max_size /\ Len(taken) \in Nat /\ Len(taken) <= d
      /\ read_index \in Indexes /\ write_index \in Indexes /\ input \in Seq(Vals)
  BY InvFacts, SizeAssumption DEF Inv, TypeOK
<1>3. read_available(write_index', read_index') = d + n
  BY <1>1, <1>2, StoreWrite
<1>4. /\ Contents \in Seq(Vals) /\ Len(Contents) = d
      /\ \A k \in 1 .. d :
           Contents[k] = IF k <= Len(taken) THEN taken[k] ELSE buffer[Slot(read_index, k - 1)]
  BY ContentsSeq
<1>5. (Inv => /\ Contents \in Seq(Vals)
              /\ Len(Contents) = read_available(write_index, read_index)
              /\ \A k \in 1 .. read_available(write_index, read_index) :
                   Contents[k] = IF k <= Len(taken) THEN taken[k]
                                                    ELSE buffer[Slot(read_index, k - 1)])'
  BY ContentsSeq, PTL
<1>6. /\ Contents' \in Seq(Vals) /\ Len(Contents') = d + n
      /\ \A k \in 1 .. d + n :
           Contents'[k] = IF k <= Len(taken) THEN taken[k] ELSE buffer[Slot(read_index, k - 1)]
  BY <1>1, <1>3, <1>5
<1> DEFINE c == Contents
           e == Contents'
<1> HIDE DEF c, e, d, n
<1>7. /\ c \o input \in Seq(Vals) /\ Len(c \o input) = d + n
      /\ \A k \in 1 .. d + n : (c \o input)[k] = IF k <= d THEN c[k] ELSE input[k - d]
  BY Zenon, <1>2, <1>4, ConcatProperties DEF c, n
<1>8. ASSUME NEW k \in 1 .. d + n PROVE e[k] = (c \o input)[k]
  <2>1. CASE k <= d
    <3>1. k \in 1 .. d
      BY <1>2, <2>1
    <3> QED
      BY SMTT(30), <1>4, <1>6, <1>7, <2>1, <3>1 DEF c, e
  <2>2. CASE k > d
    <3>1. ~(k <= d) /\ ~(k <= Len(taken))
      BY <1>2, <2>2
    <3>2. k - d - 1 \in Nat /\ d + (k - d - 1) = k - 1 /\ d + (k - d - 1) < max_size
          /\ k - d - 1 \in 0 .. n - 1 /\ (k - d - 1) + 1 = k - d
      BY <1>2, <2>2, SizeAssumption
    <3>3. Slot(write_index, k - d - 1) = Slot(read_index, k - 1)
      BY <1>2, <3>2, SlotBeyond DEF d
    <3>4. buffer[Slot(write_index, k - d - 1)] = input[k - d]
      BY <1>1, <3>2 DEF Copied, n
    <3> QED
      BY <1>6, <1>7, <3>1, <3>3, <3>4 DEF e
  <2>3. k <= d \/ k > d
    BY <1>2
  <2> QED
    BY Zenon, <2>1, <2>2, <2>3
<1>9. e = c \o input
  <2>1. e \in Seq(Vals) /\ Len(e) = d + n
    BY <1>6 DEF e
  <2> QED
    BY <1>7, <1>8, <2>1, SeqEqual
<1> QED
  BY <1>2, <1>4, <1>9, SizeAssumption DEF c, e, n

(* The store of read_index takes a prefix off. *)
LEMMA ContentsPopStore ==
  ASSUME Inv, Inv', PopStore
  PROVE  /\ taking \in 0 .. Len(Contents) /\ Len(Contents) <= max_size - 1
         /\ out' = SubSeq(Contents, 1, taking)
         /\ Contents' = SubSeq(Contents, taking + 1, Len(Contents))
<1> DEFINE d == read_available(write_index, read_index)
           n == taking
<1>1. /\ Len(taken) = n /\ taken' = <<>> /\ out' = taken
      /\ read_index' = Slot(read_index, n)
      /\ UNCHANGED <<write_index, buffer>>
  BY DEF PopStore, prodVars, Inv, IndexInv
<1>2. /\ n \in Nat /\ d \in 0 .. max_size - 1 /\ n <= d
      /\ read_index \in Indexes /\ write_index \in Indexes /\ taken \in Seq(Vals)
  BY InvFacts DEF Inv, TypeOK
<1>3. read_available(write_index', read_index') = d - n
  BY <1>1, <1>2, StoreRead
<1>4. /\ Contents \in Seq(Vals) /\ Len(Contents) = d
      /\ \A k \in 1 .. d :
           Contents[k] = IF k <= n THEN taken[k] ELSE buffer[Slot(read_index, k - 1)]
  BY <1>1, ContentsSeq
<1>5. (Inv => /\ Contents \in Seq(Vals)
              /\ Len(Contents) = read_available(write_index, read_index)
              /\ \A k \in 1 .. read_available(write_index, read_index) :
                   Contents[k] = IF k <= Len(taken) THEN taken[k]
                                                    ELSE buffer[Slot(read_index, k - 1)])'
  BY ContentsSeq, PTL
<1>6. /\ Contents' \in Seq(Vals) /\ Len(Contents') = d - n
      /\ \A k \in 1 .. d - n : Contents'[k] = buffer[Slot(Slot(read_index, n), k - 1)]
  <2>1. Len(taken') = 0 /\ \A k \in 1 .. d - n : ~(k <= 0)
    BY <1>1, <1>2, EmptySeq
  <2> QED
    BY <1>1, <1>3, <1>5, <2>1
<1> DEFINE c == Contents
           e == Contents'
<1> HIDE DEF c, e, d, n
<1>7. \A k \in 1 .. d : c[k] \in Vals
  BY <1>4, ElementOfSeq DEF c
<1>8. taken = SubSeq(c, 1, n)
  <2>1. /\ SubSeq(c, 1, n) \in Seq(Vals) /\ Len(SubSeq(c, 1, n)) = n
        /\ \A i \in 1 .. n : SubSeq(c, 1, n)[i] = c[i]
    <3>1. \A i \in 1 .. n : c[i] \in Vals
      BY <1>2, <1>7
    <3>2. /\ SubSeq(c, 1, n) \in Seq(Vals)
          /\ Len(SubSeq(c, 1, n)) = IF 1 <= n THEN n - 1 + 1 ELSE 0
          /\ \A i \in 1 .. n - 1 + 1 : SubSeq(c, 1, n)[i] = c[1 + i - 1]
      BY <1>2, <3>1, SubSeqProperties
    <3> QED
      BY <1>2, <3>2
  <2>2. \A i \in 1 .. n : taken[i] = c[i]
    BY <1>2, <1>4 DEF c
  <2> HIDE DEF c
  <2> QED
    BY <1>1, <1>2, <2>1, <2>2, SeqEqual DEF n
<1>9. e = SubSeq(c, n + 1, d)
  <2>1. /\ SubSeq(c, n + 1, d) \in Seq(Vals) /\ Len(SubSeq(c, n + 1, d)) = d - n
        /\ \A i \in 1 .. d - n : SubSeq(c, n + 1, d)[i] = c[n + i]
    <3>1. \A i \in n + 1 .. d : c[i] \in Vals
      BY <1>2, <1>7
    <3>2. /\ SubSeq(c, n + 1, d) \in Seq(Vals)
          /\ Len(SubSeq(c, n + 1, d)) = IF n + 1 <= d THEN d - (n + 1) + 1 ELSE 0
          /\ \A i \in 1 .. d - (n + 1) + 1 : SubSeq(c, n + 1, d)[i] = c[(n + 1) + i - 1]
      BY <1>2, <3>1, SubSeqProperties
    <3> QED
      BY <1>2, <3>2
  <2>2. ASSUME NEW i \in 1 .. d - n PROVE e[i] = c[n + i]
    <3>1. /\ i - 1 \in Nat /\ n + (i - 1) < max_size /\ (n + i) - 1 = n + (i - 1)
          /\ n + i \in 1 .. d /\ ~(n + i <= n)
      BY <1>2, SizeAssumption
    <3>2. Slot(Slot(read_index, n), i - 1) = Slot(read_index, n + (i - 1))
      BY <1>2, <3>1, SlotSlot
    <3> QED
      BY <1>4, <1>6, <3>1, <3>2 DEF c, e
  <2>3. e \in Seq(Vals) /\ Len(e) = d - n
    BY <1>6 DEF e
  <2> QED
    BY Zenon, <2>1, <2>2, <2>3, SeqEqual
<1> QED
  BY <1>1, <1>2, <1>4, <1>8, <1>9 DEF c, e, n

LEMMA ContentsReset ==
  ASSUME Inv, Inv', reset PROVE Contents' = <<>>
<1>1. write_index' = read_index' /\ write_index' \in Indexes
  <2>1. 0 \in Indexes
    BY SizeAssumption DEF Indexes
  <2> QED
    BY <2>1 DEF reset, Inv, TypeOK
<1>2. read_available(write_index', read_index') = 0
  BY <1>1, Distance
<1> QED
  BY <1>2 DEF Contents

(* Every step is a step of the queue or leaves it alone. *)
LEMMA StepRefines ==
  Inv /\ Inv' /\ Copied /\ [Next]_vars => [F!Next]_(F!vars)
<1> SUFFICES ASSUME Inv, Inv', Copied, [Next]_vars PROVE [F!Next]_(F!vars)
  OBVIOUS
<1>1. ASSUME Contents' = Contents, out' = out PROVE [F!Next]_(F!vars)
  BY <1>1 DEF F!vars
<1>2. ASSUME UNCHANGED <<write_index, read_index, buffer, taken, out>>
      PROVE  [F!Next]_(F!vars)
  BY <1>1, <1>2 DEF Contents
<1>3. ASSUME NEW t \in Vals, PushOneBegin(t) PROVE [F!Next]_(F!vars)
  BY <1>2, <1>3 DEF PushOneBegin, consVars
<1>4. ASSUME NEW range \in Ranges, PushRangeBegin(range) PROVE [F!Next]_(F!vars)
  BY <1>2, <1>4 DEF PushRangeBegin, consVars
<1>5. ASSUME PushCopy PROVE [F!Next]_(F!vars)
  BY <1>1, <1>5, ContentsPushCopy DEF PushCopy
<1>6. ASSUME PushStore PROVE [F!Next]_(F!vars)
  <2>1. Len(input) \in Nat /\ input \in [1 .. Len(input) -> Vals]
    BY LenProperties DEF Inv, TypeOK
  <2>2. /\ Contents' = Contents \o input /\ out' = out
        /\ Len(Contents) + Len(input) <= max_size - 1
    BY Zenon, <1>6, ContentsPushStore DEF PushStore
  <2>3. Len(Contents) \in Nat
    BY ContentsSeq, LenProperties
  <2>4. Len(input) \in 0 .. max_size - 1
    BY <2>1, <2>2, <2>3, SizeAssumption
  <2>5. F!Push(input)
    BY <2>2 DEF F!Push
  <2> QED
    BY <2>1, <2>4, <2>5 DEF F!Next
<1>7. ASSUME NEW n, ConsumeOneBegin \/ PopRangeBegin(n) PROVE [F!Next]_(F!vars)
  <2>1. taken = <<>>
    BY <1>7 DEF ConsumeOneBegin, PopRangeBegin, Inv, IndexInv
  <2> QED
    BY <1>2, <1>7, <2>1 DEF ConsumeOneBegin, PopRangeBegin, PopBegin, prodVars
<1>8. ASSUME PopCopy PROVE [F!Next]_(F!vars)
  BY <1>1, <1>8, ContentsPopCopy DEF PopCopy
<1>9. ASSUME PopStore PROVE [F!Next]_(F!vars)
  <2>1. /\ taking \in 0 .. Len(Contents) /\ Len(Contents) <= max_size - 1
        /\ out' = SubSeq(Contents, 1, taking)
        /\ Contents' = SubSeq(Contents, taking + 1, Len(Contents))
    BY <1>9, ContentsPopStore
  <2>2. Len(Contents) \in Nat
    BY ContentsSeq, LenProperties
  <2>3. taking \in 0 .. max_size - 1 /\ taking <= Len(Contents)
    BY <2>1, <2>2, SizeAssumption
  <2>4. F!Pop(taking)
    BY <2>1, <2>3 DEF F!Pop
  <2> QED
    BY <2>3, <2>4 DEF F!Next
<1>10. ASSUME reset PROVE [F!Next]_(F!vars)
  BY <1>10, ContentsReset DEF F!Next, F!Clear, reset
<1> QED
  BY <1>2, <1>3, <1>4, <1>5, <1>6, <1>7, <1>8, <1>9, <1>10
  DEF Next, Producer, Consumer, ConsumeAllBegin, vars, consVars

LEMMA InitRefines == Init => F!Init
BY DEF Init, F!Init, Contents, read_available

(* The ring buffer is a FIFO queue of max_size - 1 elements for any two    *)
(* threads that use it: a push takes effect as a whole when write_index is *)
(* stored, a pop when read_index is, and nothing else changes the queue.   *)
THEOREM Refinement == Spec => ImplementsFifo
<1>1. Spec => []Inv
  BY InvInit, InvNext, PTL DEF Spec
<1>2. Spec => []Copied
  BY <1>1, CopiedInit, CopiedNext, PTL DEF Spec
<1> QED
  BY <1>1, <1>2, InitRefines, StepRefines, PTL DEF Spec, ImplementsFifo, F!Spec
=============================================================================
