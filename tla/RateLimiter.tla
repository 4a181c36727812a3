----------------------------- MODULE RateLimiter -----------------------------
(***************************************************************************)
(* The token bucket of go/x/time/rate/rate.go.                             *)
(*                                                                         *)
(* Time is counted in ticks, the resolution of time.Duration.  A limit is  *)
(* a number of tokens per tick; it is kept as the integer number of token  *)
(* units per tick, Unit units being one token, so that the arithmetic on   *)
(* tokens is exact and only the truncation to a Duration is left.          *)
(*                                                                         *)
(* A session is one call of AllowN, ReserveN or WaitN, with what follows   *)
(* it.  Callers read the clock before they lock the limiter: the time they *)
(* pass is up to Lag ticks old.                                            *)
(***************************************************************************)
EXTENDS Integers, FiniteSets, FiniteSetsExt

CONSTANTS
  Sessions,
  Unit,        \* token units in a token
  Requests,    \* the numbers of tokens that callers ask for
  Limits,      \* the limits in use; Inf is allowed
  Bursts,      \* the burst sizes in use, in tokens
  MaxTime,     \* bound: last tick modelled
  MaxChanges,  \* bound: changes of limit or burst
  Lag,         \* how old the time passed to a call may be
  Cancels      \* whether reservations are canceled

ASSUME RateAssumption ==
  /\ Unit \in Nat \ {0} /\ MaxTime \in Nat /\ MaxChanges \in Nat /\ Lag \in Nat
  /\ Requests \subseteq Nat /\ Bursts \subseteq Nat
  /\ Limits \subseteq Nat \cup {-1} /\ 0 \notin Limits
  /\ Cancels \in BOOLEAN

VARIABLES
  limit, burst, tokens, last, lastEvent,   \* fields of Limiter
  clock,
  pc, n,         \* of each session: where it is, the tokens it asks for,
  r, wake,       \* its Reservation, when its timer fires
  undo,          \* history: the bucket before the last change, if that was a grant,
  changes,       \* how often limit or burst were set,
  earned         \* and one full bucket with what each limit accrued in its time

limiter == <<limit, burst, tokens, last, lastEvent>>
time == <<clock, earned>>
vars == <<limiter, time, pc, n, r, wake, undo, changes>>

Inf == -1
Far == 1000          \* the zero Time lies this far back; InfDuration is this long
InfDuration == Far

NoReservation == [ok |-> FALSE, tokens |-> 0, timeToAct |-> 0, limit |-> 0]
NoUndo == [by |-> {}, tokens |-> 0, last |-> 0]

Init ==
  /\ limit \in Limits /\ burst \in Bursts
  /\ tokens = 0 /\ last = -Far /\ lastEvent = -Far
  /\ clock = 0
  /\ pc = [s \in Sessions |-> "idle"]
  /\ n = [s \in Sessions |-> 0]
  /\ r = [s \in Sessions |-> NoReservation]
  /\ wake = [s \in Sessions |-> 0]
  /\ undo = NoUndo
  /\ changes = 0
  /\ earned = burst * Unit

-----------------------------------------------------------------------------
Least(a, b) == Min({a, b})

(* tokens to a duration, truncated towards zero.  Infinitely many tokens   *)
(* per second take no time; with a limit of 0, the one in reservations     *)
(* made under Inf, the conversion saturates.                               *)
durationFromTokens(l, t) ==
  IF l = Inf THEN 0
  ELSE IF l = 0 THEN IF t >= 0 THEN Far ELSE -Far
  ELSE IF t >= 0 THEN t \div l ELSE -((-t) \div l)

tokensFromDuration(l, d) == IF l = Inf THEN 0 ELSE d * l

(* Mutant: time that passed is not limited to what fills the bucket. *)
advanceUnbounded(now) ==
  LET newLast == Least(last, now)
  IN  [last |-> newLast, tokens |-> tokens + tokensFromDuration(limit, now - newLast)]

advance(now) ==
  LET newLast    == Least(last, now)
      maxElapsed == durationFromTokens(limit, burst * Unit - tokens)
      elapsed    == Least(now - newLast, maxElapsed)
  IN  [last   |-> newLast,
       tokens |-> Least(tokens + tokensFromDuration(limit, elapsed), burst * Unit)]

(* the times a caller may pass *)
Nows == {t \in 0 .. clock : t >= clock - Lag}

(* where a caller goes with its reservation *)
Granted(s, after, now, k, wait) ==
  /\ r' = [r EXCEPT ![s] = [ok |-> TRUE, tokens |-> k, timeToAct |-> now + wait,
                            limit |-> IF limit = Inf THEN 0 ELSE limit]]
  /\ wake' = [wake EXCEPT ![s] = clock + wait]
  /\ pc' = [pc EXCEPT ![s] = IF after = "sleeping" /\ wait = 0 THEN "acted" ELSE after]

reserveN(s, now, k, maxFutureReserve, after) ==
  LET a    == advance(now)
      left == a.tokens - k * Unit
      wait == IF left < 0 THEN durationFromTokens(limit, -left) ELSE 0
  IN  IF limit = Inf
      THEN Granted(s, after, now, k, 0) /\ UNCHANGED <<limiter, undo>>
      ELSE IF k <= burst /\ wait <= maxFutureReserve
      THEN /\ Granted(s, after, now, k, wait)
           /\ last' = now
           /\ tokens' = left
           /\ lastEvent' = now + wait
           /\ undo' = [by |-> {s}, tokens |-> tokens, last |-> last]
           /\ UNCHANGED <<limit, burst>>
      ELSE /\ pc' = [pc EXCEPT ![s] = "refused"]
           /\ last' = a.last
           /\ undo' = NoUndo
           /\ UNCHANGED <<limit, burst, tokens, lastEvent, r, wake>>

-----------------------------------------------------------------------------
Tick ==
  /\ clock < MaxTime
  /\ clock' = clock + 1
  /\ earned' = earned + tokensFromDuration(limit, 1)
  /\ UNCHANGED <<limiter, pc, n, r, wake, undo, changes>>

AllowN(s, k) ==
  /\ pc[s] = "idle"
  /\ \E now \in Nows : reserveN(s, now, k, 0, "acted")
  /\ n' = [n EXCEPT ![s] = k]
  /\ UNCHANGED <<time, changes>>

ReserveN(s, k) ==
  /\ pc[s] = "idle"
  /\ \E now \in Nows : reserveN(s, now, k, InfDuration, "holding")
  /\ n' = [n EXCEPT ![s] = k]
  /\ UNCHANGED <<time, changes>>

(* WaitN up to its first Unlock, and with a ctx that is already done *)
WaitN(s, k) ==
  /\ pc[s] = "idle"
  /\ n' = [n EXCEPT ![s] = k]
  /\ pc' = [pc EXCEPT ![s] = IF k > burst /\ limit # Inf THEN "refused" ELSE "checked"]
  /\ UNCHANGED <<limiter, time, r, wake, undo, changes>>

WaitCtxDone(s) ==
  /\ pc[s] = "checked"
  /\ pc' = [pc EXCEPT ![s] = "refused"]
  /\ UNCHANGED <<limiter, time, n, r, wake, undo, changes>>

(* the reservation of WaitN: the deadline of ctx is past, near, or there is none *)
WaitReserve(s) ==
  /\ pc[s] = "checked"
  /\ \E now \in Nows, waitLimit \in {-1, 1, InfDuration} :
       reserveN(s, now, n[s], waitLimit, "sleeping")
  /\ UNCHANGED <<time, n, changes>>

(* the timer of WaitN fires; the holder of a reservation acts *)
Act(s) ==
  /\ \/ pc[s] = "sleeping" /\ clock >= wake[s]
     \/ pc[s] = "holding" /\ clock >= r[s].timeToAct
  /\ pc' = [pc EXCEPT ![s] = "acted"]
  /\ UNCHANGED <<limiter, time, n, r, wake, undo, changes>>

(* the tokens CancelAt gives back *)
restoreTokens(s) ==
  r[s].tokens * Unit - tokensFromDuration(r[s].limit, lastEvent - r[s].timeToAct)

(* WaitN cancels once, when ctx is done; a holder may cancel more than once. *)
Canceled(s) ==
  \/ pc[s] = "sleeping" /\ pc' = [pc EXCEPT ![s] = "gaveUp"]
  \/ pc[s] \in {"holding", "canceled"} /\ pc' = [pc EXCEPT ![s] = "canceled"]

(* Mutant: the time since last is dropped, not turned into tokens. *)
CancelAtKeepTime(s, now) ==
  LET prev == r[s].timeToAct + durationFromTokens(r[s].limit, -(r[s].tokens * Unit))
  IN  /\ Cancels /\ Canceled(s)
      /\ IF limit = Inf \/ r[s].tokens = 0 \/ r[s].timeToAct < now
            \/ restoreTokens(s) <= 0
         THEN UNCHANGED <<limiter, undo>>
         ELSE /\ tokens' = Least(tokens + restoreTokens(s), burst * Unit)
              /\ last' = now
              /\ lastEvent' = IF r[s].timeToAct = lastEvent /\ prev >= now
                              THEN prev ELSE lastEvent
              /\ undo' = NoUndo
              /\ UNCHANGED <<limit, burst>>
      /\ UNCHANGED <<time, n, r, wake, changes>>

CancelAt(s, now) ==
  LET a    == advance(now)
      prev == r[s].timeToAct + durationFromTokens(r[s].limit, -(r[s].tokens * Unit))
  IN  /\ Cancels /\ Canceled(s)
      /\ IF limit = Inf \/ r[s].tokens = 0 \/ r[s].timeToAct < now
            \/ restoreTokens(s) <= 0
         THEN UNCHANGED <<limiter, undo>>
         ELSE /\ last' = now
              /\ tokens' = Least(a.tokens + restoreTokens(s), burst * Unit)
              /\ lastEvent' = IF r[s].timeToAct = lastEvent /\ prev >= now
                              THEN prev ELSE lastEvent
              /\ undo' = NoUndo
              /\ UNCHANGED <<limit, burst>>
      /\ UNCHANGED <<time, n, r, wake, changes>>

(* Mutant: the time before the change is left to be counted at the new limit. *)
SetAtNoAdvance(now) ==
  /\ changes < MaxChanges /\ changes' = changes + 1
  /\ undo' = NoUndo
  /\ UNCHANGED <<last, tokens, lastEvent, time, pc, n, r, wake>>

SetAt(now) ==
  /\ changes < MaxChanges /\ changes' = changes + 1
  /\ last' = now
  /\ tokens' = advance(now).tokens
  /\ undo' = NoUndo
  /\ UNCHANGED <<lastEvent, time, pc, n, r, wake>>

SetLimitAt(now, newLimit) ==
  /\ SetAt(now) /\ limit' = newLimit /\ UNCHANGED burst

SetBurstAt(now, newBurst) ==
  /\ SetAt(now) /\ burst' = newBurst /\ UNCHANGED limit

Next ==
  \/ Tick
  \/ \E s \in Sessions, k \in Requests : AllowN(s, k) \/ ReserveN(s, k) \/ WaitN(s, k)
  \/ \E s \in Sessions : WaitCtxDone(s) \/ WaitReserve(s) \/ Act(s)
  \/ \E s \in Sessions, now \in Nows : CancelAt(s, now)
  \/ \E now \in Nows :
       \/ \E l \in Limits : SetLimitAt(now, l)
       \/ \E b \in Bursts : SetBurstAt(now, b)

Spec == Init /\ [][Next]_vars

-----------------------------------------------------------------------------
(* The events a finite limit has let happen or will let happen *)
Events == {s \in Sessions : r[s].ok /\ r[s].limit # 0 /\ pc[s] \notin {"canceled", "gaveUp"}}

NoneCanceled == \A s \in Sessions : pc[s] \notin {"canceled", "gaveUp"}

TokensOf(S) == MapThenSumSet(LAMBDA s : r[s].tokens * Unit, S)

(* At most the burst, and what accrues until the end of the last tick      *)
(* (waits are truncated to ticks), happens from one event to another.      *)
RateBoundWith(slack) ==
  changes = 0 /\ NoneCanceled =>
    \A s, t \in Events :
      r[s].timeToAct <= r[t].timeToAct =>
        TokensOf({e \in Events : r[e].timeToAct \in r[s].timeToAct .. r[t].timeToAct})
          < burst * Unit + limit * (r[t].timeToAct - r[s].timeToAct + 1 + slack)

(* Limiter: "in any large enough time interval, the Limiter limits the     *)
(* rate to r tokens per second, with a maximum burst size of b events".    *)
(* Callers that pass times in order, by any mix of AllowN, ReserveN and    *)
(* WaitN, get no more than that in any interval.                           *)
RateBound == RateBoundWith(0)

(* The same bound with two ticks to spare for each tick that the times     *)
(* callers pass to AllowN may be late: old times at both ends of the       *)
(* interval, and no more, add to what the limiter lets through.            *)
RateBoundLag == RateBoundWith(2 * Lag)

(* Changing limit and burst, by SetLimitAt and SetBurstAt and to and from  *)
(* Inf, makes no tokens: what finite limits have granted and what is in    *)
(* the bucket came from one full bucket and from the time that passed,     *)
(* each tick counted at the limit that was in force during it.             *)
Conserved == NoneCanceled => TokensOf(Events) + tokens <= earned

(* A CancelAt that gets past its early returns *)
Restores(s, now) ==
  CancelAt(s, now) /\ limit # Inf /\ r[s].timeToAct >= now /\ restoreTokens(s) > 0

(* CancelAt "reverses the effects of this Reservation on the rate limit":  *)
(* when nothing happened since the reservation, the bucket is as if it had *)
(* never been made and time had passed, up to the truncation of one tick.  *)
CancelUndoes ==
  [][ \A s \in Sessions, now \in Nows :
        Restores(s, now) /\ undo.by = {s} =>
          LET without == Least(undo.tokens + limit * (now - undo.last), burst * Unit)
          IN  without - limit < tokens' /\ tokens' <= without ]_vars
=============================================================================
