------------------------------ MODULE SpscQueue ------------------------------
(***************************************************************************)
(* The wait-free single-producer/single-consumer ring buffer of            *)
(* boost-lockfree/spsc_queue.hpp: ringbuffer_base, which the compile-time  *)
(* and the run-time sized queue both use with max_size = capacity + 1.     *)
(*                                                                         *)
(* An operation loads the two indexes, copies its elements one by one and  *)
(* then stores its own index.  The index of the other thread is loaded     *)
(* with acquire order from a location stored with release order: the load  *)
(* may return an old value, but never one older than the thread has seen   *)
(* before, and everything stored before the value it returns is visible.   *)
(***************************************************************************)
EXTENDS Integers, Sequences

CONSTANTS
  max_size,   \* slots of the buffer, one more than the capacity
  SizeMod,    \* number of values of size_t
  Vals,       \* the values of type T
  Raw,        \* contents of a slot without a constructed object
  MaxBatch    \* longest range handed to push or pop

ASSUME SizeAssumption == /\ max_size \in Nat \ {0}
                         /\ SizeMod \in Nat
                         /\ SizeMod > 2 * max_size
ASSUME BatchAssumption == MaxBatch \in Nat
ASSUME ValsAssumption == Raw \notin Vals

VARIABLES
  write_index, read_index,   \* write_index_, read_index_
  buffer,                    \* the slots
  r_seen, w_seen,            \* the latest value of the other index the
                             \* producer (r_seen), the consumer (w_seen) loaded
  input,                     \* elements the push in progress will copy
  pushed,                    \* how many of them it has copied
  pushing,                   \* whether a push is in progress
  new_write_index,           \* what it will store
  taking,                    \* how many elements the pop in progress takes
  taken,                     \* those it has taken out
  popping,                   \* whether a pop is in progress
  new_read_index,            \* what it will store
  out,                       \* what the latest completed pop returned
  trivial                    \* has_trivial_destructor<T>, fixed for a queue

prodVars == <<r_seen, input, pushed, pushing, new_write_index>>
consVars == <<w_seen, taking, taken, popping, new_read_index>>
vars == <<write_index, read_index, buffer, prodVars, consVars, out, trivial>>

Indexes == 0 .. max_size - 1

Init ==
  /\ write_index = 0 /\ read_index = 0
  /\ buffer = [i \in Indexes |-> Raw]
  /\ r_seen = 0 /\ w_seen = 0
  /\ input = <<>> /\ pushed = 0 /\ pushing = FALSE /\ new_write_index = 0
  /\ taking = 0 /\ taken = <<>> /\ popping = FALSE /\ new_read_index = 0
  /\ out = <<>>
  /\ trivial \in BOOLEAN

-----------------------------------------------------------------------------
next_index(arg) == IF arg + 1 >= max_size THEN arg + 1 - max_size ELSE arg + 1

read_available(w, r) == IF w >= r THEN w - r ELSE w + max_size - r

(* Mutant: the slot that tells full from empty is given out too. *)
write_available_all(w, r) ==
  LET ret == (r - w) % SizeMod
  IN  IF w >= r THEN (ret + max_size) % SizeMod ELSE ret

(* ret = read_index - write_index - 1 wraps around below zero; adding      *)
(* max_size brings it back.                                                *)
write_available(w, r) ==
  LET ret == (r - w - 1) % SizeMod
  IN  IF w >= r THEN (ret + max_size) % SizeMod ELSE ret

empty(w, r) == w = r

(* The index stored after n elements from index i on: the two sections of  *)
(* a wrapped range, and the range that ends exactly at the last slot.      *)
Advanced(i, n) ==
  IF i + n > max_size THEN i + n - max_size
  ELSE IF i + n = max_size THEN 0 ELSE i + n

(* The slot of the k-th element (from 0) of a range that starts at i. *)
Slot(i, k) == IF i + k >= max_size THEN i + k - max_size ELSE i + k

(* What a load of index cur can return to a thread that has seen `seen`. *)
Loads(seen, cur) ==
  {i \in Indexes : read_available(i, seen) <= read_available(cur, seen)}

Smaller(a, b) == IF a <= b THEN a ELSE b
-----------------------------------------------------------------------------
(* The producer. *)

(* Mutant: push does not test for a full buffer. *)
PushOneUnchecked(t) ==
  /\ ~pushing
  /\ input' = <<t>>
  /\ pushed' = 0
  /\ pushing' = TRUE
  /\ new_write_index' = next_index(write_index)
  /\ UNCHANGED <<write_index, read_index, buffer, r_seen, consVars, out>>

PushOneBegin(t) ==
  /\ ~pushing
  /\ \E r \in Loads(r_seen, read_index) :
       LET next == next_index(write_index)
       IN  /\ r_seen' = r
           /\ IF next = r
              THEN UNCHANGED <<input, pushed, pushing, new_write_index>>
              ELSE /\ input' = <<t>>
                   /\ pushed' = 0
                   /\ pushing' = TRUE
                   /\ new_write_index' = next
  /\ UNCHANGED <<write_index, read_index, buffer, consVars, out>>

PushRangeBegin(range) ==
  /\ ~pushing
  /\ \E r \in Loads(r_seen, read_index) :
       LET avail == write_available(write_index, r)
           input_count == Smaller(Len(range), avail)
       IN  /\ r_seen' = r
           /\ IF avail = 0
              THEN UNCHANGED <<input, pushed, pushing, new_write_index>>
              ELSE /\ input' = SubSeq(range, 1, input_count)
                   /\ pushed' = 0
                   /\ pushing' = TRUE
                   /\ new_write_index' = Advanced(write_index, input_count)
  /\ UNCHANGED <<write_index, read_index, buffer, consVars, out>>

PushCopy ==
  /\ pushing
  /\ pushed < Len(input)
  /\ buffer' = [buffer EXCEPT ![Slot(write_index, pushed)] = input[pushed + 1]]
  /\ pushed' = pushed + 1
  /\ UNCHANGED <<write_index, read_index, r_seen, input, pushing,
                 new_write_index, consVars, out>>

PushStore ==
  /\ pushing
  /\ pushed = Len(input)
  /\ write_index' = new_write_index
  /\ pushing' = FALSE
  /\ input' = <<>>
  /\ pushed' = 0
  /\ UNCHANGED <<read_index, buffer, r_seen, new_write_index, consVars, out>>

-----------------------------------------------------------------------------
(* The consumer. *)

PopBegin(count, next) ==
  /\ taking' = count
  /\ taken' = <<>>
  /\ popping' = TRUE
  /\ new_read_index' = next

ConsumeOneBegin ==
  /\ ~popping
  /\ \E w \in Loads(w_seen, write_index) :
       /\ w_seen' = w
       /\ IF empty(w, read_index)
          THEN UNCHANGED <<taking, taken, popping, new_read_index>>
          ELSE PopBegin(1, next_index(read_index))
  /\ UNCHANGED <<write_index, read_index, buffer, prodVars, out>>

PopRangeBegin(output_count) ==
  /\ ~popping
  /\ \E w \in Loads(w_seen, write_index) :
       LET avail == read_available(w, read_index)
           count == Smaller(output_count, avail)
       IN  /\ w_seen' = w
           /\ IF avail = 0
              THEN UNCHANGED <<taking, taken, popping, new_read_index>>
              ELSE PopBegin(count, Advanced(read_index, count))
  /\ UNCHANGED <<write_index, read_index, buffer, prodVars, out>>

(* consume_all and pop_to_output_iterator take whatever is there. *)
ConsumeAllBegin == PopRangeBegin(max_size)

(* Mutant: the element is not destroyed. *)
PopCopyLeak ==
  /\ popping
  /\ Len(taken) < taking
  /\ taken' = Append(taken, buffer[Slot(read_index, Len(taken))])
  /\ UNCHANGED <<write_index, read_index, buffer, prodVars, w_seen, taking,
                 popping, new_read_index, out>>

(* The functor or the copy reads the element, then it is destroyed. *)
PopCopy ==
  /\ popping
  /\ Len(taken) < taking
  /\ LET s == Slot(read_index, Len(taken))
     IN  /\ taken' = Append(taken, buffer[s])
         /\ buffer' = IF trivial THEN buffer ELSE [buffer EXCEPT ![s] = Raw]
  /\ UNCHANGED <<write_index, read_index, prodVars, w_seen, taking, popping,
                 new_read_index, out>>

(* Mutant: the index is not stored. *)
PopForget ==
  /\ popping
  /\ Len(taken) = taking
  /\ out' = taken
  /\ popping' = FALSE
  /\ taking' = 0
  /\ taken' = <<>>
  /\ UNCHANGED <<write_index, read_index, buffer, prodVars, w_seen, new_read_index>>

PopStore ==
  /\ popping
  /\ Len(taken) = taking
  /\ read_index' = new_read_index
  /\ out' = taken
  /\ popping' = FALSE
  /\ taking' = 0
  /\ taken' = <<>>
  /\ UNCHANGED <<write_index, buffer, prodVars, w_seen, new_read_index>>

-----------------------------------------------------------------------------
(* Mutant: only the reader is sent back to slot 0. *)
reset_reader ==
  /\ ~pushing /\ ~popping
  /\ read_index' = 0
  /\ r_seen' = 0
  /\ w_seen' = write_index
  /\ UNCHANGED <<write_index, buffer, input, pushed, pushing, new_write_index,
                 taking, taken, popping, new_read_index, out>>

(* reset is not thread-safe: it is called while no operation is in         *)
(* progress, and what synchronises that also shows both threads the        *)
(* indexes.  Objects with a destructor are popped one by one.              *)
reset ==
  /\ ~pushing /\ ~popping
  /\ IF trivial
     THEN /\ write_index' = 0
          /\ read_index' = 0
          /\ buffer' = buffer
     ELSE /\ buffer' = [i \in Indexes |-> Raw]
          /\ read_index' = write_index
          /\ write_index' = write_index
  /\ r_seen' = read_index'
  /\ w_seen' = write_index'
  /\ UNCHANGED <<input, pushed, pushing, new_write_index, taking, taken,
                 popping, new_read_index, out>>

-----------------------------------------------------------------------------
Ranges == UNION {[1 .. n -> Vals] : n \in 0 .. MaxBatch}

Producer ==
  \/ \E t \in Vals : PushOneBegin(t)
  \/ \E range \in Ranges : PushRangeBegin(range)
  \/ PushCopy
  \/ PushStore

Consumer ==
  \/ ConsumeOneBegin
  \/ \E n \in 0 .. MaxBatch : PopRangeBegin(n)
  \/ ConsumeAllBegin
  \/ PopCopy
  \/ PopStore

Next == (Producer \/ Consumer \/ reset) /\ UNCHANGED trivial

Spec == Init /\ [][Next]_vars

(* Both threads run, a store becomes visible to the other thread in finite *)
(* time (a load of the current value is not put off for ever), and the     *)
(* consumer keeps calling consume_one or one of the other operations.      *)
Fairness ==
  /\ WF_vars((PushCopy \/ PushStore) /\ UNCHANGED trivial)
  /\ WF_vars((PopCopy \/ PopStore) /\ UNCHANGED trivial)
  /\ SF_vars(ConsumeOneBegin /\ w_seen' = write_index /\ UNCHANGED trivial)

FairSpec == Spec /\ Fairness

-----------------------------------------------------------------------------
TypeOK ==
  /\ {write_index, read_index, r_seen, w_seen, new_write_index, new_read_index}
       \subseteq Indexes
  /\ buffer \in [Indexes -> Vals \cup {Raw}]
  /\ input \in Seq(Vals) /\ pushed \in 0 .. Len(input)
  /\ taken \in Seq(Vals) /\ taking \in Nat /\ Len(taken) <= taking
  /\ out \in Seq(Vals)
  /\ pushing \in BOOLEAN /\ popping \in BOOLEAN /\ trivial \in BOOLEAN

(* Slots the threads may be touching in the operation in progress. *)
PushSlots == {Slot(write_index, k) : k \in 0 .. Len(input) - 1}
PopSlots  == {Slot(read_index, k) : k \in 0 .. taking - 1}

(* Race freedom: however old the indexes are that each thread works with,  *)
(* a push in progress never constructs an object in a slot that a pop in   *)
(* progress reads and destroys.                                            *)
SlotsDisjoint == PushSlots \cap PopSlots = {}

(* The slots between the reader and the writer, elements in progress       *)
(* included, hold constructed objects and no other slot does: nothing is   *)
(* read before it is constructed, leaked, or destroyed twice.              *)
LiveExactly ==
  trivial \/
  \A i \in Indexes :
    buffer[i] # Raw <=>
      \E k \in Len(taken) .. read_available(write_index, read_index) + pushed - 1 :
        i = Slot(read_index, k)

(* Whatever the type, the consumer takes only values a push has copied. *)
LiveVals ==
  \A k \in Len(taken) .. read_available(write_index, read_index) + pushed - 1 :
    buffer[Slot(read_index, k)] \in Vals

(* Why the slots are disjoint.  Going round from r_seen one meets          *)
(* read_index, w_seen and write_index in this order; a push in progress    *)
(* stays below r_seen, a pop in progress below w_seen; each will store the *)
(* index after its last element.                                           *)
IndexInv ==
  /\ read_available(write_index, r_seen)
       = read_available(read_index, r_seen) + read_available(write_index, read_index)
  /\ read_available(write_index, read_index)
       = read_available(w_seen, read_index) + read_available(write_index, w_seen)
  /\ Len(input) + read_available(write_index, r_seen) < max_size
  /\ taking <= read_available(w_seen, read_index)
  /\ IF pushing THEN new_write_index = Slot(write_index, Len(input)) ELSE input = <<>>
  /\ IF popping THEN new_read_index = Slot(read_index, taking)
                ELSE taking = 0 /\ taken = <<>>

(* What the queue holds: the elements taken by the pop in progress, then   *)
(* the slots up to write_index.                                            *)
Contents ==
  [k \in 1 .. read_available(write_index, read_index) |->
     IF k <= Len(taken) THEN taken[k] ELSE buffer[Slot(read_index, k - 1)]]

(* The ring buffer implements a FIFO queue of max_size - 1 elements: every *)
(* push appends its whole range and every pop takes a prefix, in the step  *)
(* that stores the index.                                                  *)
F == INSTANCE Fifo WITH q <- Contents, out <- out, Cap <- max_size - 1

ImplementsFifo == F!Spec

(* A consumer that keeps calling sees what was pushed: a nonempty queue    *)
(* does not stay as it is, until the reader moves on or reset empties it.  *)
Drains ==
  \A k \in Indexes :
    (read_index = k /\ write_index # k) ~> (read_index # k \/ write_index = k)
=============================================================================
