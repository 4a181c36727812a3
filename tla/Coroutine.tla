------------------------------ MODULE Coroutine ------------------------------
(***************************************************************************)
(* The asymmetric coroutines of coroutine/coroutine.c: a scheduler whose   *)
(* coroutines all run on one shared stack, which is copied out when a      *)
(* coroutine yields and copied back when it is resumed.                    *)
(*                                                                         *)
(* A stack cell stands for a frame.  Cells are numbered from the bottom    *)
(* (S->stack + STACK_SIZE) up; the bottom frame of a coroutine is the one  *)
(* of mainfunc and holds its local variable id.  Calls that break the      *)
(* documented contract (resume inside a coroutine, yield outside one, an   *)
(* id out of range) abort in an assert at once and are not modelled.       *)
(***************************************************************************)
EXTENDS Integers, Sequences, FiniteSets

CONSTANTS
  STACK_SIZE,          \* frames that fit on the shared stack
  DEFAULT_COROUTINE,   \* initial S->cap
  MaxCap,              \* bound: no growth beyond this capacity
  Frames,              \* what functions called by a coroutine keep on the stack
  NULL

ASSUME StackAssumption == STACK_SIZE \in Nat \ {0}
ASSUME CapAssumption == DEFAULT_COROUTINE \in Nat \ {0}
ASSUME MaxCapAssumption == MaxCap \in Nat
ASSUME FramesAssumption == Frames \cap Int = {}

VARIABLES
  nco, cap, running, co,   \* fields of struct schedule
  stack,                   \* S->stack
  depth,                   \* frames of the running coroutine (stack pointer)
  frames                   \* what each coroutine believes is on its stack

vars == <<nco, cap, running, co, stack, depth, frames>>

Cells == Frames \cup Int

(* struct coroutine: size is the length of stack, cap the allocated room *)
Coroutines ==
  [status : {"READY", "RUNNING", "SUSPEND"}, cap : Nat, stack : Seq(Cells)]

ASSUME NULLAssumption == NULL \notin Coroutines

TypeOK ==
  /\ cap \in Nat \ {0}
  /\ nco \in 0 .. cap
  /\ running \in {-1} \cup 0 .. cap - 1
  /\ co \in [0 .. cap - 1 -> Coroutines \cup {NULL}]
  /\ stack \in [1 .. STACK_SIZE -> Cells]
  /\ depth \in 0 .. STACK_SIZE
  /\ frames \in [0 .. cap - 1 -> Seq(Cells)]

(* coroutine_open; the contents of the malloc'ed stack are arbitrary *)
Init ==
  /\ nco = 0
  /\ cap = DEFAULT_COROUTINE
  /\ running = -1
  /\ co = [i \in 0 .. DEFAULT_COROUTINE - 1 |-> NULL]
  /\ stack = [i \in 1 .. STACK_SIZE |-> -1]
  /\ depth = 0
  /\ frames = [i \in 0 .. DEFAULT_COROUTINE - 1 |-> <<>>]

_co_new == [status |-> "READY", cap |-> 0, stack |-> <<>>]

Put(f, id, x) == [f EXCEPT ![id] = x]

-----------------------------------------------------------------------------
(* coroutine_new, called by the main function or by the running coroutine. *)

NewGrow ==
  /\ nco >= cap
  /\ cap * 2 <= MaxCap
  /\ co' = [i \in 0 .. cap * 2 - 1 |->
              IF i < cap THEN co[i] ELSE IF i = cap THEN _co_new ELSE NULL]
  /\ frames' = [i \in 0 .. cap * 2 - 1 |-> IF i < cap THEN frames[i] ELSE <<>>]
  /\ cap' = cap * 2
  /\ nco' = nco + 1
  /\ UNCHANGED <<running, stack, depth>>

(* Mutant: the scan skips the slots below nco. *)
ScanSlotNoWrap(i) == IF i + nco < cap THEN i + nco ELSE cap - 1

(* the i-th slot the scan looks at *)
ScanSlot(i) == (i + nco) % cap

NewReuse ==
  /\ nco < cap
  /\ \E i \in 0 .. cap - 1 :
       /\ co[ScanSlot(i)] = NULL
       /\ \A j \in 0 .. i - 1 : co[ScanSlot(j)] # NULL
       /\ co' = Put(co, ScanSlot(i), _co_new)
       /\ frames' = Put(frames, ScanSlot(i), <<>>)
  /\ nco' = nco + 1
  /\ UNCHANGED <<cap, running, stack, depth>>

-----------------------------------------------------------------------------
(* coroutine_resume, called by the main function. *)

(* case COROUTINE_READY: mainfunc starts at the bottom of the stack and    *)
(* reads its id from S->running.                                           *)
ResumeReady(id) ==
  /\ running = -1
  /\ co[id] # NULL
  /\ co[id].status = "READY"
  /\ running' = id
  /\ co' = [co EXCEPT ![id].status = "RUNNING"]
  /\ stack' = [stack EXCEPT ![1] = id]
  /\ depth' = 1
  /\ frames' = Put(frames, id, <<id>>)
  /\ UNCHANGED <<nco, cap>>

(* Mutant: the saved stack is not copied back. *)
ResumeWithoutCopy(id) ==
  /\ running = -1
  /\ co[id] # NULL
  /\ co[id].status = "SUSPEND"
  /\ running' = id
  /\ co' = [co EXCEPT ![id].status = "RUNNING"]
  /\ depth' = Len(frames[id])
  /\ UNCHANGED <<nco, cap, stack, frames>>

(* case COROUTINE_SUSPEND: C->size bytes are copied to the bottom of the   *)
(* stack; the stack pointer comes from C->ctx, saved when it yielded.      *)
ResumeSuspended(id) ==
  /\ running = -1
  /\ co[id] # NULL
  /\ co[id].status = "SUSPEND"
  /\ stack' = [i \in 1 .. STACK_SIZE |->
                 IF i <= Len(co[id].stack) THEN co[id].stack[i] ELSE stack[i]]
  /\ running' = id
  /\ co' = [co EXCEPT ![id].status = "RUNNING"]
  /\ depth' = Len(frames[id])
  /\ UNCHANGED <<nco, cap, frames>>

-----------------------------------------------------------------------------
(* The running coroutine. *)

(* It calls a function, or stores to a local variable of its top frame. *)
Call(f) ==
  /\ running # -1
  /\ depth < STACK_SIZE
  /\ stack' = [stack EXCEPT ![depth + 1] = f]
  /\ depth' = depth + 1
  /\ frames' = Put(frames, running, Append(frames[running], f))
  /\ UNCHANGED <<nco, cap, running, co>>

(* A function that it called returns. *)
Return ==
  /\ running # -1
  /\ depth > 1
  /\ depth' = depth - 1
  /\ frames' = Put(frames, running, SubSeq(frames[running], 1, depth - 1))
  /\ UNCHANGED <<nco, cap, running, co, stack>>

(* Mutant: the top frame is not saved. *)
_save_stack_short(C) ==
  [C EXCEPT !.cap = IF C.cap < depth THEN depth ELSE C.cap,
            !.stack = SubSeq(stack, 1, depth - 1)]

(* _save_stack: room for the stack in use, then a copy of it *)
_save_stack(C) ==
  [C EXCEPT !.cap = IF C.cap < depth THEN depth ELSE C.cap,
            !.stack = SubSeq(stack, 1, depth)]

coroutine_yield ==
  /\ running # -1
  /\ co' = [co EXCEPT ![running] = [_save_stack(@) EXCEPT !.status = "SUSPEND"]]
  /\ running' = -1
  /\ depth' = 0
  /\ UNCHANGED <<nco, cap, stack, frames>>

(* func returns to mainfunc, which takes its id from its own frame, frees  *)
(* the coroutine and goes back to the main function through uc_link.       *)
mainfunc ==
  /\ running # -1
  /\ depth = 1
  /\ LET id == stack[1]
     IN  /\ co' = Put(co, id, NULL)
         /\ frames' = Put(frames, id, <<>>)
  /\ nco' = nco - 1
  /\ running' = -1
  /\ depth' = 0
  /\ UNCHANGED <<cap, stack>>

(* coroutine_close, and coroutine_open for a new scheduler. *)
coroutine_close ==
  /\ running = -1
  /\ nco' = 0
  /\ cap' = DEFAULT_COROUTINE
  /\ running' = -1
  /\ co' = [i \in 0 .. DEFAULT_COROUTINE - 1 |-> NULL]
  /\ stack' = [i \in 1 .. STACK_SIZE |-> -1]
  /\ depth' = 0
  /\ frames' = [i \in 0 .. DEFAULT_COROUTINE - 1 |-> <<>>]

-----------------------------------------------------------------------------
Next ==
  \/ NewGrow \/ NewReuse
  \/ \E id \in 0 .. cap - 1 :
       ResumeReady(id) \/ ResumeSuspended(id)
  \/ \E f \in Frames : Call(f)
  \/ Return
  \/ coroutine_yield
  \/ mainfunc
  \/ coroutine_close

Spec == Init /\ [][Next]_vars

-----------------------------------------------------------------------------
(* The ids of the coroutines that are not dead *)
Live == {i \in 0 .. cap - 1 : co[i] # NULL}

(* S->nco counts exactly the slots in use, through growth, death and reuse *)
(* of ids; coroutine_new relies on it to find a free slot.                 *)
NcoExact == nco = Cardinality(Live)

(* No legal call fails an assert: the scan of coroutine_new finds a free   *)
(* slot whenever nco < cap (else assert(0) behind the loop), and           *)
(* coroutine_resume finds no coroutine RUNNING while the main function     *)
(* runs (else assert(0) in the default case).                              *)
NoAssert ==
  /\ nco < cap => \E i \in 0 .. cap - 1 : co[ScanSlot(i)] = NULL
  /\ running = -1 => \A i \in Live : co[i].status \in {"READY", "SUSPEND"}

(* The scheduler and the coroutines agree on who runs. *)
RunningExact ==
  \A i \in 0 .. cap - 1 :
    (co[i] # NULL /\ co[i].status = "RUNNING") <=> i = running

(* Sharing the stack is transparent: the running coroutine finds on it     *)
(* exactly the frames it left there, whoever ran in between, and the room  *)
(* allocated for a suspended one holds all of its stack.                   *)
StackIntact ==
  /\ running # -1 =>
       /\ depth = Len(frames[running])
       /\ \A k \in 1 .. depth : stack[k] = frames[running][k]
  /\ \A i \in Live :
       co[i].status = "SUSPEND" =>
         co[i].stack = frames[i] /\ Len(co[i].stack) <= co[i].cap

(* mainfunc removes the coroutine that ran and no other; coroutines do not *)
(* disappear in any other way while the scheduler is open.                 *)
OnlyRunnerDies ==
  [][ ~coroutine_close => \A i \in Live : co'[i] = NULL => i = running ]_vars
=============================================================================
