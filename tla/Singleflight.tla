---------------------------- MODULE Singleflight ----------------------------
(***************************************************************************)
(* Duplicate suppression of go/x/sync/singleflight/singleflight.go.        *)
(*                                                                         *)
(* A session is one call of Do or DoChan.  The call object a session       *)
(* allocates when it finds its key unregistered is named by the session;   *)
(* that session is the leader of the call.  The result of a call is        *)
(* identified by the call and by the way fn ended.                         *)
(*                                                                         *)
(* Critical sections of g.mu are single steps: what they send on channels  *)
(* goes into a buffer of size one and never blocks.  The one that does not *)
(* end is the panic with channels waiting, which parks with g.mu held      *)
(* until the panicking goroutine crashes the program.                      *)
(***************************************************************************)
EXTENDS Integers, Sequences, SequencesExt

CONSTANTS
  Sessions, Keys, None,
  Outcomes      \* the ways fn may end, some of "ok", "panic", "goexit"

ASSUME NoneAssumption == None \notin Sessions
ASSUME OutcomesAssumption == Outcomes \subseteq {"ok", "panic", "goexit"}

VARIABLES
  m,                                  \* g.m
  mu,                                 \* the parked holder of g.mu, or None
  crashed,                            \* an unrecoverable panic ended the program
  pc, key, joined, got,               \* of each session
  exec,                               \* where doCall is, for each call
  done, err, forgotten, dups, chans   \* fields of each call

callVars == <<exec, done, err, forgotten, dups, chans>>
vars == <<m, mu, crashed, pc, key, joined, got, callVars>>

Results == [res : {"ok", "panic", "goexit"}, shared : BOOLEAN]
NoResult == [res |-> "none", shared |-> FALSE]

TypeOK ==
  /\ m \in [Keys -> Sessions \cup {None}]
  /\ mu \in Sessions \cup {None}
  /\ crashed \in BOOLEAN
  /\ pc \in [Sessions -> {"idle", "leading", "waiting", "receiving", "ended"}]
  /\ key \in [Sessions -> Keys \cup {None}]
  /\ joined \in [Sessions -> Sessions \cup {None}]
  /\ got \in [Sessions -> Results \cup {NoResult}]
  /\ exec \in [Sessions -> {"none", "fn", "returned", "done", "crashing", "over"}]
  /\ done \in [Sessions -> BOOLEAN]
  /\ err \in [Sessions -> {"unset", "ok", "panic", "goexit"}]
  /\ forgotten \in [Sessions -> BOOLEAN]
  /\ dups \in [Sessions -> Nat]
  /\ chans \in [Sessions -> Seq(Sessions)]

Init ==
  /\ m = [k \in Keys |-> None]
  /\ mu = None
  /\ crashed = FALSE
  /\ pc = [s \in Sessions |-> "idle"]
  /\ key = [s \in Sessions |-> None]
  /\ joined = [s \in Sessions |-> None]
  /\ got = [s \in Sessions |-> NoResult]
  /\ exec = [s \in Sessions |-> "none"]
  /\ done = [s \in Sessions |-> FALSE]
  /\ err = [s \in Sessions |-> "unset"]
  /\ forgotten = [s \in Sessions |-> FALSE]
  /\ dups = [s \in Sessions |-> 0]
  /\ chans = [s \in Sessions |-> <<>>]

Locked == mu = None /\ ~crashed

-----------------------------------------------------------------------------
(* s finds the call c registered under k and counts itself *)
Join(s, k, c) ==
  /\ key' = [key EXCEPT ![s] = k]
  /\ joined' = [joined EXCEPT ![s] = c]
  /\ dups' = [dups EXCEPT ![c] = @ + 1]
  /\ UNCHANGED <<m, mu, crashed, got, exec, done, err, forgotten>>

(* s registers its own call under k; doCall starts *)
Lead(s, k) ==
  /\ key' = [key EXCEPT ![s] = k]
  /\ joined' = [joined EXCEPT ![s] = s]
  /\ m' = [m EXCEPT ![k] = s]
  /\ exec' = [exec EXCEPT ![s] = "fn"]
  /\ UNCHANGED <<mu, crashed, got, done, err, forgotten, dups>>

DoDup(s, k) ==
  /\ Locked /\ pc[s] = "idle" /\ m[k] # None
  /\ Join(s, k, m[k])
  /\ pc' = [pc EXCEPT ![s] = "waiting"]
  /\ UNCHANGED chans

DoLead(s, k) ==
  /\ Locked /\ pc[s] = "idle" /\ m[k] = None
  /\ Lead(s, k)
  /\ pc' = [pc EXCEPT ![s] = "leading"]
  /\ UNCHANGED chans

(* Mutant: DoChan does not count the duplicate. *)
DoChanDupUncounted(s, k) ==
  /\ Locked /\ pc[s] = "idle" /\ m[k] # None
  /\ key' = [key EXCEPT ![s] = k]
  /\ joined' = [joined EXCEPT ![s] = m[k]]
  /\ pc' = [pc EXCEPT ![s] = "receiving"]
  /\ chans' = [chans EXCEPT ![m[k]] = Append(@, s)]
  /\ UNCHANGED <<m, mu, crashed, got, exec, done, err, forgotten, dups>>

DoChanDup(s, k) ==
  /\ Locked /\ pc[s] = "idle" /\ m[k] # None
  /\ Join(s, k, m[k])
  /\ pc' = [pc EXCEPT ![s] = "receiving"]
  /\ chans' = [chans EXCEPT ![m[k]] = Append(@, s)]

DoChanLead(s, k) ==
  /\ Locked /\ pc[s] = "idle" /\ m[k] = None
  /\ Lead(s, k)
  /\ pc' = [pc EXCEPT ![s] = "receiving"]
  /\ chans' = [chans EXCEPT ![s] = <<s>>]

-----------------------------------------------------------------------------
(* doCall of the call c *)

(* fn ends.  A normal return and a recovered panic set c.err; Goexit runs  *)
(* the deferred functions with c.err still nil.                            *)
Fn(c, o) ==
  /\ ~crashed /\ exec[c] = "fn"
  /\ exec' = [exec EXCEPT ![c] = "returned"]
  /\ err' = [err EXCEPT ![c] = IF o = "goexit" THEN "unset" ELSE o]
  /\ UNCHANGED <<m, mu, crashed, pc, key, joined, got, done, forgotten, dups, chans>>

(* Mutant: c.wg.Done() before c.err = errGoexit. *)
WgDoneFirst(c) ==
  /\ ~crashed /\ exec[c] = "returned"
  /\ done' = [done EXCEPT ![c] = TRUE]
  /\ IF done[c] THEN err' = [err EXCEPT ![c] = IF @ = "unset" THEN "goexit" ELSE @]
                     /\ exec' = [exec EXCEPT ![c] = "done"]
                ELSE UNCHANGED <<err, exec>>
  /\ UNCHANGED <<m, mu, crashed, pc, key, joined, got, forgotten, dups, chans>>

(* Mutant: c.wg.Done() is skipped by a panic. *)
WgDoneUnlessPanic(c) ==
  /\ ~crashed /\ exec[c] = "returned"
  /\ err' = [err EXCEPT ![c] = IF @ = "unset" THEN "goexit" ELSE @]
  /\ done' = [done EXCEPT ![c] = err[c] # "panic"]
  /\ exec' = [exec EXCEPT ![c] = "done"]
  /\ UNCHANGED <<m, mu, crashed, pc, key, joined, got, forgotten, dups, chans>>

(* the deferred function up to c.wg.Done() *)
WgDone(c) ==
  /\ ~crashed /\ exec[c] = "returned"
  /\ err' = [err EXCEPT ![c] = IF @ = "unset" THEN "goexit" ELSE @]
  /\ done' = [done EXCEPT ![c] = TRUE]
  /\ exec' = [exec EXCEPT ![c] = "done"]
  /\ UNCHANGED <<m, mu, crashed, pc, key, joined, got, forgotten, dups, chans>>

(* Mutant: the entry is deleted whether or not the call was forgotten. *)
DeleteAlways(c) == m' = [m EXCEPT ![key[c]] = None]

Delete(c) == m' = IF forgotten[c] THEN m ELSE [m EXCEPT ![key[c]] = None]

(* normal return: every channel receives the result *)
FinishOk(c) ==
  /\ Locked /\ exec[c] = "done" /\ err[c] = "ok"
  /\ Delete(c)
  /\ exec' = [exec EXCEPT ![c] = "over"]
  /\ got' = [s \in Sessions |->
               IF Contains(chans[c], s)
               THEN [res |-> "ok", shared |-> dups[c] > 0] ELSE got[s]]
  /\ pc' = [s \in Sessions |-> IF Contains(chans[c], s) THEN "ended" ELSE pc[s]]
  /\ UNCHANGED <<mu, crashed, key, joined, done, err, forgotten, dups, chans>>

FinishGoexit(c) ==
  /\ Locked /\ exec[c] = "done" /\ err[c] = "goexit"
  /\ Delete(c)
  /\ exec' = [exec EXCEPT ![c] = "over"]
  /\ UNCHANGED <<mu, crashed, pc, key, joined, got, done, err, forgotten, dups, chans>>

(* without channels the panic goes on in the caller of Do; with channels   *)
(* go panic(e) and select {} inside the critical section                   *)
FinishPanic(c) ==
  /\ Locked /\ exec[c] = "done" /\ err[c] = "panic"
  /\ Delete(c)
  /\ IF chans[c] = <<>>
     THEN mu' = mu /\ exec' = [exec EXCEPT ![c] = "over"]
     ELSE mu' = c /\ exec' = [exec EXCEPT ![c] = "crashing"]
  /\ UNCHANGED <<crashed, pc, key, joined, got, done, err, forgotten, dups, chans>>

Crash(c) ==
  /\ ~crashed /\ exec[c] = "crashing"
  /\ crashed' = TRUE
  /\ UNCHANGED <<m, mu, pc, key, joined, got, callVars>>

-----------------------------------------------------------------------------
End(s, r) ==
  /\ got' = [got EXCEPT ![s] = r]
  /\ pc' = [pc EXCEPT ![s] = "ended"]
  /\ UNCHANGED <<m, mu, crashed, key, joined, callVars>>

(* Do returns, panics or exits, as a duplicate after c.wg.Wait() *)
DupReturns(s) ==
  /\ ~crashed /\ pc[s] = "waiting" /\ done[joined[s]]
  /\ End(s, [res |-> err[joined[s]], shared |-> TRUE])

(* and as the leader after doCall, reading c.dups without the mutex *)
LeaderReturns(s) ==
  /\ ~crashed /\ pc[s] = "leading" /\ exec[s] = "over"
  /\ End(s, [res |-> err[s], shared |-> dups[s] > 0])

Forget(k) ==
  /\ Locked
  /\ forgotten' = [c \in Sessions |-> forgotten[c] \/ m[k] = c]
  /\ m' = [m EXCEPT ![k] = None]
  /\ UNCHANGED <<mu, crashed, pc, key, joined, got, exec, done, err, dups, chans>>

-----------------------------------------------------------------------------
DoCall(c) ==
  \/ \E o \in Outcomes : Fn(c, o)
  \/ WgDone(c)
  \/ FinishOk(c) \/ FinishGoexit(c) \/ FinishPanic(c)
  \/ Crash(c)

Next ==
  \/ \E s \in Sessions, k \in Keys :
       DoDup(s, k) \/ DoLead(s, k) \/ DoChanDup(s, k) \/ DoChanLead(s, k)
  \/ \E c \in Sessions : DoCall(c)
  \/ \E s \in Sessions : DupReturns(s) \/ LeaderReturns(s)
  \/ \E k \in Keys : Forget(k)

Spec == Init /\ [][Next]_vars

(* fn returns, and a goroutine that can run is scheduled *)
Fairness ==
  \A s \in Sessions :
    WF_vars(DoCall(s)) /\ WF_vars(DupReturns(s)) /\ WF_vars(LeaderReturns(s))

FairSpec == Spec /\ Fairness

-----------------------------------------------------------------------------
(* The map holds exactly the calls that can still be joined: those whose   *)
(* doCall has not yet deleted them and that nobody forgot.                 *)
Registered ==
  \A c \in Sessions, k \in Keys :
    m[k] = c <=> /\ key[c] = k /\ joined[c] = c /\ ~forgotten[c]
                 /\ exec[c] \in {"fn", "returned", "done"}

(* Only one execution of fn is in flight for a key, Forget aside; in       *)
(* particular a forgotten call that ends does not unregister its successor.*)
OneInFlight ==
  \A c, d \in Sessions :
    /\ exec[c] \in {"fn", "returned"} /\ ~forgotten[c]
    /\ exec[d] \in {"fn", "returned"} /\ ~forgotten[d]
    /\ key[c] = key[d]
    => c = d

(* Whoever joins a call, even between wg.Done and the delete, ends the way *)
(* its fn ended.                                                           *)
SameResult ==
  \A s \in Sessions :
    pc[s] = "ended" => done[joined[s]] /\ got[s].res = err[joined[s]]

(* "shared indicates whether v was given to multiple callers": whoever got *)
(* a value was told the truth, although the leader of Do reads c.dups      *)
(* outside the mutex and duplicates arrive until the entry is deleted.     *)
SharedExact ==
  \A s \in Sessions :
    pc[s] = "ended" /\ got[s].res = "ok" =>
      (got[s].shared <=> \E t \in Sessions \ {s} : joined[t] = joined[s])

(* Every Do ends and every channel of DoChan gets the result of a call     *)
(* that returns; a panic crashes the program rather than leave channels    *)
(* waiting, and only a call that ends by Goexit serves no channel.         *)
CallsEnd ==
  \A s \in Sessions :
    pc[s] \in {"waiting", "leading", "receiving"} ~>
      \/ pc[s] = "ended" \/ crashed
      \/ pc[s] = "receiving" /\ \E c \in Sessions : joined[s] = c /\ err[c] = "goexit"
=============================================================================
