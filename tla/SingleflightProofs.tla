------------------------- MODULE SingleflightProofs -------------------------
(***************************************************************************)
(* Proofs about Singleflight, for any number of sessions and keys.         *)
(***************************************************************************)
EXTENDS Singleflight, SequenceTheorems, TLAPS

(* Where a session and the call it belongs to are. *)
SessionInv ==
  \A s \in Sessions :
    /\ pc[s] = "idle" <=> joined[s] = None
    /\ exec[s] # "none" <=> joined[s] = s
    /\ joined[s] # None => key[s] \in Keys /\ exec[joined[s]] # "none"
    /\ pc[s] = "leading" => joined[s] = s
    /\ pc[s] = "waiting" => joined[s] # s

(* The fields of a call, by the progress of its doCall. *)
FieldInv ==
  \A c \in Sessions :
    /\ exec[c] = "none" => ~forgotten[c] /\ dups[c] = 0
    /\ done[c] <=> exec[c] \in {"done", "crashing", "over"}
    /\ done[c] => err[c] # "unset"

(* The channels of a call belong to sessions that joined it. *)
ChanInv ==
  \A c, s \in Sessions :
    Contains(chans[c], s) => joined[s] = c

(* c.dups is positive exactly when there are duplicates. *)
DupsInv ==
  \A c \in Sessions :
    dups[c] > 0 <=> \E s \in Sessions \ {c} : joined[s] = c

(* A session told that its value is not shared belongs to a call that can  *)
(* no longer be joined.                                                    *)
SharedInv ==
  \A s \in Sessions :
    pc[s] = "ended" /\ got[s].res = "ok" /\ ~got[s].shared =>
      exec[joined[s]] = "over"

Inv ==
  /\ TypeOK /\ Registered /\ SessionInv /\ FieldInv /\ ChanInv /\ DupsInv
  /\ SameResult /\ SharedInv /\ SharedExact

-----------------------------------------------------------------------------
LEMMA NotInEmpty ==
  ASSUME NEW S, NEW s \in S PROVE ~Contains(<<>>, s) /\ <<>> \in Seq(S)
BY DEF Contains

LEMMA InAppended ==
  ASSUME NEW S, NEW q \in Seq(S), NEW e \in S, NEW s \in S,
         Contains(Append(q, e), s)
  PROVE  Contains(q, s) \/ s = e
<1>1. PICK i \in 1 .. Len(Append(q, e)) : Append(q, e)[i] = s
  BY DEF Contains
<1>2. Len(Append(q, e)) = Len(q) + 1 /\ Append(q, e)[Len(q) + 1] = e
  OBVIOUS
<1>3. i \in 1 .. Len(q) => Append(q, e)[i] = q[i]
  OBVIOUS
<1>4. i \in 1 .. Len(q) \/ i = Len(q) + 1
  BY <1>2
<1> QED
  BY <1>1, <1>2, <1>3, <1>4 DEF Contains

LEMMA InSingleton ==
  ASSUME NEW S, NEW e \in S, NEW s \in S, Contains(<<e>>, s)
  PROVE  s = e
BY DEF Contains

LEMMA InvInit == Init => Inv
<1> SUFFICES ASSUME Init PROVE Inv
  OBVIOUS
<1> USE NoneAssumption DEF Init
<1>1. TypeOK
  BY Zenon, NotInEmpty DEF TypeOK
<1>2. Registered /\ SessionInv /\ FieldInv /\ DupsInv
  BY DEF Registered, SessionInv, FieldInv, DupsInv
<1>3. ChanInv
  BY NotInEmpty DEF ChanInv
<1>4. SameResult /\ SharedInv /\ SharedExact
  BY DEF SameResult, SharedInv, SharedExact
<1> QED
  BY <1>1, <1>2, <1>3, <1>4 DEF Inv

-----------------------------------------------------------------------------
LEMMA InvJoin ==
  ASSUME Inv, NEW s \in Sessions, NEW k \in Keys, pc[s] = "idle", m[k] # None,
         Join(s, k, m[k]), NEW x \in {"waiting", "receiving"},
         pc' = [pc EXCEPT ![s] = x], chans' \in [Sessions -> Seq(Sessions)],
         \A c, t \in Sessions : Contains(chans'[c], t) =>
            Contains(chans[c], t) \/ (c = m[k] /\ t = s)
  PROVE  Inv'
<1> DEFINE c == m[k]
<1> USE NoneAssumption DEF Inv
<1>1. c \in Sessions /\ c # s /\ joined[s] = None
  BY DEF TypeOK, SessionInv, Registered
<1>2. /\ key[c] = k /\ joined[c] = c /\ ~forgotten[c]
      /\ exec[c] \in {"fn", "returned", "done"}
  BY <1>1 DEF Registered
<1>3. /\ key' = [key EXCEPT ![s] = k] /\ joined' = [joined EXCEPT ![s] = c]
      /\ dups' = [dups EXCEPT ![c] = @ + 1]
      /\ UNCHANGED <<m, mu, crashed, got, exec, done, err, forgotten>>
  BY DEF Join
<1> HIDE DEF c
<1>4. TypeOK'
  BY SMTT(30), <1>1, <1>3 DEF TypeOK
<1>5. exec[s] = "none"
  BY <1>1 DEF SessionInv
<1>6. Registered'
  BY SMTT(30), <1>1, <1>2, <1>3, <1>5 DEF Registered, TypeOK
<1>7. SessionInv'
  BY SMTT(30), <1>1, <1>2, <1>3, <1>5 DEF SessionInv, TypeOK
<1>8. FieldInv'
  BY <1>1, <1>2, <1>3 DEF FieldInv, TypeOK
<1>9. ChanInv'
  <2> SUFFICES ASSUME NEW d \in Sessions, NEW t \in Sessions,
                      Contains(chans'[d], t)
               PROVE  joined'[t] = d
    BY DEF ChanInv
  <2>1. Contains(chans[d], t) => joined[t] = d /\ t # s
    BY <1>1, NoneAssumption DEF ChanInv
  <2> QED
    BY <2>1, <1>1, <1>3 DEF TypeOK, c
<1>10. DupsInv'
  BY SMTT(30), <1>1, <1>3 DEF DupsInv, TypeOK
<1>11. SameResult'
  BY <1>1, <1>3 DEF SameResult, TypeOK
<1>12. SharedInv'
  BY SMTT(30), <1>1, <1>3 DEF SharedInv, TypeOK
<1>13. SharedExact'
  <2> SUFFICES ASSUME NEW t \in Sessions, pc'[t] = "ended", got'[t].res = "ok"
               PROVE  got'[t].shared <=>
                        \E u \in Sessions \ {t} : joined'[u] = joined'[t]
    BY DEF SharedExact
  <2>1. /\ t # s /\ pc[t] = "ended" /\ got'[t] = got[t]
        /\ joined'[t] = joined[t] /\ joined[t] # None
    BY <1>1, <1>3 DEF TypeOK, SessionInv
  <2>2. \A u \in Sessions \ {s} : joined'[u] = joined[u]
    BY <1>3 DEF TypeOK
  <2>3. got[t].shared <=> \E u \in Sessions \ {t} : joined[u] = joined[t]
    BY <2>1, <1>3 DEF SharedExact
  <2>4. joined'[s] = c
    BY <1>3 DEF TypeOK
  <2>5. ~got[t].shared => exec[joined[t]] = "over"
    BY <2>1, <1>3 DEF SharedInv
  <2>6. CASE got[t].shared
    BY <2>1, <2>2, <2>3, <2>6, <1>1
  <2>7. CASE ~got[t].shared
    BY SMTT(30), <2>1, <2>2, <2>3, <2>4, <2>5, <2>7, <1>2
  <2> QED
    BY <2>6, <2>7
<1> QED
  BY SMTT(30), <1>4, <1>6, <1>7, <1>8, <1>9, <1>10, <1>11, <1>12, <1>13

LEMMA InvLead ==
  ASSUME Inv, NEW s \in Sessions, NEW k \in Keys, pc[s] = "idle", m[k] = None,
         Lead(s, k), NEW x \in {"leading", "receiving"},
         pc' = [pc EXCEPT ![s] = x], chans' \in [Sessions -> Seq(Sessions)],
         \A c, t \in Sessions : Contains(chans'[c], t) =>
            Contains(chans[c], t) \/ (c = s /\ t = s)
  PROVE  Inv'
<1> USE NoneAssumption DEF Inv
<1>1. joined[s] = None /\ exec[s] = "none" /\ ~forgotten[s] /\ dups[s] = 0
  BY DEF SessionInv, FieldInv
<1>2. /\ key' = [key EXCEPT ![s] = k] /\ joined' = [joined EXCEPT ![s] = s]
      /\ m' = [m EXCEPT ![k] = s] /\ exec' = [exec EXCEPT ![s] = "fn"]
      /\ UNCHANGED <<mu, crashed, got, done, err, forgotten, dups>>
  BY DEF Lead
<1>3. TypeOK'
  BY <1>2 DEF TypeOK
<1>4. \A t \in Sessions : joined[t] # s
  BY <1>1 DEF SessionInv, TypeOK
<1>5. Registered'
  BY <1>1, <1>2 DEF Registered, TypeOK
<1>6. SessionInv'
  BY <1>1, <1>2, <1>4 DEF SessionInv, TypeOK
<1>7. FieldInv'
  BY <1>1, <1>2 DEF FieldInv, TypeOK
<1>8. ChanInv'
  BY <1>1, <1>2 DEF ChanInv, TypeOK
<1>9. DupsInv'
  BY <1>1, <1>2, <1>4 DEF DupsInv, TypeOK
<1>10. SameResult'
  BY <1>1, <1>2 DEF SameResult, TypeOK
<1>11. SharedInv'
  BY <1>1, <1>2, <1>4 DEF SharedInv, TypeOK
<1>12. SharedExact'
  <2> SUFFICES ASSUME NEW t \in Sessions, pc'[t] = "ended", got'[t].res = "ok"
               PROVE  got'[t].shared <=>
                        \E u \in Sessions \ {t} : joined'[u] = joined'[t]
    BY DEF SharedExact
  <2>1. /\ t # s /\ pc[t] = "ended" /\ got'[t] = got[t]
        /\ joined'[t] = joined[t] /\ joined[t] # None
    BY <1>1, <1>2 DEF TypeOK, SessionInv
  <2>2. /\ \A u \in Sessions \ {s} : joined'[u] = joined[u]
        /\ joined'[s] = s /\ joined[t] # s
    BY <1>2, <1>4 DEF TypeOK
  <2>3. got[t].shared <=> \E u \in Sessions \ {t} : joined[u] = joined[t]
    BY <2>1, <1>2 DEF SharedExact
  <2> QED
    BY <2>1, <2>2, <2>3, <1>1
<1> QED
  BY SMTT(30), <1>3, <1>5, <1>6, <1>7, <1>8, <1>9, <1>10, <1>11, <1>12

-----------------------------------------------------------------------------
LEMMA InvFn ==
  ASSUME Inv, NEW c \in Sessions, NEW o \in Outcomes, Fn(c, o)
  PROVE  Inv'
<1> USE NoneAssumption DEF Inv
<1>1. /\ exec[c] = "fn" /\ exec' = [exec EXCEPT ![c] = "returned"]
      /\ err' = [err EXCEPT ![c] = IF o = "goexit" THEN "unset" ELSE o]
      /\ UNCHANGED <<m, mu, crashed, pc, key, joined, got, done, forgotten,
                     dups, chans>>
  BY DEF Fn
<1>2. TypeOK'
  BY <1>1, OutcomesAssumption DEF TypeOK
<1>3. Registered' /\ SessionInv'
  BY <1>1 DEF Registered, SessionInv, TypeOK
<1>4. FieldInv' /\ ~done[c]
  BY ZenonT(60), <1>1 DEF FieldInv, TypeOK
<1>5. ChanInv' /\ DupsInv' /\ SharedExact'
  BY <1>1 DEF ChanInv, DupsInv, SharedExact
<1>6. SameResult'
  BY <1>1, <1>4 DEF SameResult, TypeOK
<1>7. SharedInv'
  BY <1>1 DEF SharedInv, TypeOK
<1> QED
  BY <1>2, <1>3, <1>4, <1>5, <1>6, <1>7

LEMMA InvWgDone ==
  ASSUME Inv, NEW c \in Sessions, WgDone(c)
  PROVE  Inv'
<1> USE NoneAssumption DEF Inv
<1>1. /\ exec[c] = "returned" /\ exec' = [exec EXCEPT ![c] = "done"]
      /\ err' = [err EXCEPT ![c] = IF @ = "unset" THEN "goexit" ELSE @]
      /\ done' = [done EXCEPT ![c] = TRUE]
      /\ UNCHANGED <<m, mu, crashed, pc, key, joined, got, forgotten, dups,
                     chans>>
  BY DEF WgDone
<1>2. TypeOK'
  BY <1>1 DEF TypeOK
<1>3. Registered' /\ SessionInv'
  BY <1>1 DEF Registered, SessionInv, TypeOK
<1>4. FieldInv' /\ ~done[c]
  BY <1>1 DEF FieldInv, TypeOK
<1>5. ChanInv' /\ DupsInv' /\ SharedExact'
  BY <1>1 DEF ChanInv, DupsInv, SharedExact
<1>6. SameResult'
  BY <1>1, <1>4 DEF SameResult, TypeOK
<1>7. SharedInv'
  BY <1>1 DEF SharedInv, TypeOK
<1> QED
  BY <1>2, <1>3, <1>4, <1>5, <1>6, <1>7

(* The critical section of doCall leaves the map without the call. *)
LEMMA RegisteredDelete ==
  ASSUME Inv, NEW c \in Sessions, exec[c] = "done", Delete(c),
         NEW x \in {"over", "crashing"}, exec' = [exec EXCEPT ![c] = x],
         UNCHANGED <<key, joined, forgotten>>
  PROVE  Registered' /\ m' \in [Keys -> Sessions \cup {None}]
<1> USE NoneAssumption DEF Inv
<1>1. joined[c] = c /\ key[c] \in Keys
  BY DEF SessionInv
<1>2. CASE forgotten[c]
  BY <1>2 DEF Delete, Registered, TypeOK
<1>3. CASE ~forgotten[c]
  <2>1. m[key[c]] = c
    BY <1>1, <1>3 DEF Registered
  <2>2. m' = [m EXCEPT ![key[c]] = None]
    BY <1>3 DEF Delete
  <2>3. \A k \in Keys : k # key[c] => m'[k] = m[k] /\ m[k] # c
    BY <1>1, <2>2 DEF TypeOK, Registered
  <2>4. m'[key[c]] = None
    BY <1>1, <2>2 DEF TypeOK
  <2> QED
    BY <1>1, <2>1, <2>2, <2>3, <2>4 DEF Registered, TypeOK
<1> QED
  BY <1>2, <1>3

LEMMA RecordOk ==
  ASSUME NEW b \in BOOLEAN, NEW x \in {"ok", "panic", "goexit"}
  PROVE  /\ [res |-> x, shared |-> b] \in Results
         /\ [res |-> x, shared |-> b].res = x
         /\ [res |-> x, shared |-> b].shared = b
BY DEF Results

LEMMA InvFinishOk ==
  ASSUME Inv, NEW c \in Sessions, FinishOk(c)
  PROVE  Inv'
<1> USE NoneAssumption DEF Inv
<1> DEFINE b == dups[c] > 0
           r == [res |-> "ok", shared |-> b]
<1>1. /\ exec[c] = "done" /\ err[c] = "ok" /\ Delete(c)
      /\ exec' = [exec EXCEPT ![c] = "over"]
      /\ UNCHANGED <<mu, crashed, key, joined, done, err, forgotten, dups, chans>>
  BY DEF FinishOk
<1>2. \A s \in Sessions :
        IF Contains(chans[c], s) THEN got'[s] = r /\ pc'[s] = "ended"
                                 ELSE got'[s] = got[s] /\ pc'[s] = pc[s]
  BY DEF FinishOk
<1>3. r \in Results /\ r.res = "ok" /\ (r.shared <=> dups[c] > 0)
  <2>1. b \in BOOLEAN
    OBVIOUS
  <2>2. b <=> dups[c] > 0
    OBVIOUS
  <2> HIDE DEF b
  <2>3. r \in Results /\ r.res = "ok" /\ r.shared = b
    BY Zenon, <2>1, RecordOk
  <2> QED
    BY <2>2, <2>3
<1> HIDE DEF r
<1>4. \A s \in Sessions : Contains(chans[c], s) => joined[s] = c
  BY DEF ChanInv
<1>5. joined[c] = c /\ done[c]
  BY <1>1 DEF SessionInv, FieldInv
<1>6. Registered' /\ m' \in [Keys -> Sessions \cup {None}]
  BY Zenon, <1>1, RegisteredDelete
<1>7. TypeOK'
  <2>1. /\ got' = [s \in Sessions |-> got'[s]]
        /\ pc' = [s \in Sessions |-> pc'[s]]
    BY DEF FinishOk
  <2>2. \A s \in Sessions :
          /\ got'[s] \in Results \cup {NoResult}
          /\ pc'[s] \in {"idle", "leading", "waiting", "receiving", "ended"}
    BY <1>2, <1>3 DEF TypeOK
  <2>3. /\ got' \in [Sessions -> Results \cup {NoResult}]
        /\ pc' \in [Sessions ->
                      {"idle", "leading", "waiting", "receiving", "ended"}]
    BY <2>1, <2>2
  <2> QED
    BY ZenonT(60), <1>1, <1>6, <2>3 DEF TypeOK
<1>8. SessionInv'
  BY <1>1, <1>2, <1>4, <1>5 DEF SessionInv, TypeOK
<1>9. FieldInv' /\ ChanInv' /\ DupsInv'
  BY <1>1 DEF FieldInv, ChanInv, DupsInv, TypeOK
<1>10. SameResult'
  BY SMTT(30), <1>1, <1>2, <1>3, <1>4, <1>5 DEF SameResult
<1>11. SharedInv'
  BY SMTT(30), <1>1, <1>2, <1>3, <1>4 DEF SharedInv, TypeOK
<1>12. SharedExact'
  <2>1. ASSUME NEW s \in Sessions, Contains(chans[c], s)
        PROVE  r.shared <=> \E t \in Sessions \ {s} : joined[t] = joined[s]
    <3>1. joined[s] = c
      BY <2>1, <1>4
    <3>2. dups[c] > 0 <=> \E t \in Sessions \ {c} : joined[t] = c
      BY DEF DupsInv
    <3> QED
      BY <3>1, <3>2, <1>3, <1>5
  <2> QED
    BY <1>1, <1>2, <2>1 DEF SharedExact
<1> QED
  BY SMTT(30), <1>6, <1>7, <1>8, <1>9, <1>10, <1>11, <1>12

(* The other ways out of the critical section change no session. *)
LEMMA InvFinishOther ==
  ASSUME Inv, NEW c \in Sessions, FinishGoexit(c) \/ FinishPanic(c)
  PROVE  Inv'
<1> USE NoneAssumption DEF Inv
<1>1. PICK x \in {"over", "crashing"} : exec' = [exec EXCEPT ![c] = x]
  BY DEF FinishGoexit, FinishPanic
<1>2. /\ exec[c] = "done" /\ Delete(c) /\ mu' \in {mu, c}
      /\ UNCHANGED <<crashed, pc, key, joined, got, done, err, forgotten,
                     dups, chans>>
  BY DEF FinishGoexit, FinishPanic
<1>3. Registered' /\ m' \in [Keys -> Sessions \cup {None}]
  BY ZenonT(60), <1>1, <1>2, RegisteredDelete
<1>4. TypeOK'
  BY <1>1, <1>2, <1>3 DEF TypeOK
<1>5. SessionInv' /\ FieldInv'
  BY <1>1, <1>2 DEF SessionInv, FieldInv, TypeOK
<1>6. ChanInv' /\ DupsInv' /\ SameResult' /\ SharedExact'
  BY <1>2 DEF ChanInv, DupsInv, SameResult, SharedExact
<1>7. SharedInv'
  BY <1>1, <1>2 DEF SharedInv, TypeOK
<1> QED
  BY SMTT(30), <1>3, <1>4, <1>5, <1>6, <1>7

LEMMA InvCrash ==
  ASSUME Inv, NEW c \in Sessions, Crash(c)
  PROVE  Inv'
<1> USE DEF Inv, Crash, callVars
<1>1. TypeOK' /\ Registered' /\ SessionInv' /\ FieldInv'
  BY DEF TypeOK, Registered, SessionInv, FieldInv
<1>2. ChanInv' /\ DupsInv' /\ SameResult' /\ SharedInv' /\ SharedExact'
  BY DEF ChanInv, DupsInv, SameResult, SharedInv, SharedExact
<1> QED
  BY <1>1, <1>2

-----------------------------------------------------------------------------
(* A session ends with the result of a call that is done. *)
LEMMA InvEnd ==
  ASSUME Inv, NEW s \in Sessions, pc[s] \in {"waiting", "leading"},
         NEW b \in BOOLEAN, done[joined[s]],
         End(s, [res |-> err[joined[s]], shared |-> b]),
         b <=> \E t \in Sessions \ {s} : joined[t] = joined[s],
         ~b => exec[joined[s]] = "over"
  PROVE  Inv'
<1> USE NoneAssumption DEF Inv
<1> DEFINE r == [res |-> err[joined[s]], shared |-> b]
<1>1. joined[s] \in Sessions
  BY DEF SessionInv, TypeOK
<1>2. err[joined[s]] \in {"ok", "panic", "goexit"}
  BY <1>1 DEF FieldInv, TypeOK
<1>3. r \in Results /\ r.res = err[joined[s]] /\ r.shared = b
  BY ZenonT(60), <1>2, RecordOk
<1>4. /\ got' = [got EXCEPT ![s] = r] /\ pc' = [pc EXCEPT ![s] = "ended"]
      /\ UNCHANGED <<m, mu, crashed, key, joined, exec, done, err, forgotten,
                     dups, chans>>
  BY DEF End, callVars
<1> HIDE DEF r
<1>5. TypeOK'
  BY SMTT(30), <1>3, <1>4 DEF TypeOK
<1>6. Registered' /\ FieldInv' /\ ChanInv' /\ DupsInv'
  BY <1>4 DEF Registered, FieldInv, ChanInv, DupsInv
<1>7. SessionInv'
  BY <1>1, <1>4 DEF SessionInv, TypeOK
<1>8. SameResult'
  BY <1>3, <1>4 DEF SameResult, TypeOK
<1>9. SharedInv'
  BY <1>3, <1>4 DEF SharedInv, TypeOK
<1>10. SharedExact'
  BY <1>3, <1>4 DEF SharedExact, TypeOK
<1> QED
  BY SMTT(30), <1>5, <1>6, <1>7, <1>8, <1>9, <1>10

LEMMA InvDupReturns ==
  ASSUME Inv, NEW s \in Sessions, DupReturns(s)
  PROVE  Inv'
<1> USE NoneAssumption DEF Inv
<1>1. /\ pc[s] = "waiting" /\ done[joined[s]]
      /\ End(s, [res |-> err[joined[s]], shared |-> TRUE])
  BY DEF DupReturns
<1>2. joined[s] \in Sessions /\ joined[s] # s
  BY <1>1 DEF SessionInv, TypeOK
<1>3. joined[joined[s]] = joined[s]
  BY <1>2 DEF SessionInv
<1>4. \E t \in Sessions \ {s} : joined[t] = joined[s]
  BY <1>2, <1>3
<1> QED
  BY ZenonT(60), <1>1, <1>4, InvEnd

LEMMA InvLeaderReturns ==
  ASSUME Inv, NEW s \in Sessions, LeaderReturns(s)
  PROVE  Inv'
<1> USE NoneAssumption DEF Inv
<1> DEFINE b == dups[s] > 0
<1>1. /\ pc[s] = "leading" /\ exec[s] = "over"
      /\ End(s, [res |-> err[s], shared |-> b])
  BY DEF LeaderReturns
<1>2. joined[s] = s
  BY <1>1 DEF SessionInv
<1>3. done[s]
  BY <1>1 DEF FieldInv
<1>4. b <=> \E t \in Sessions \ {s} : joined[t] = joined[s]
  BY <1>2 DEF DupsInv
<1>5. b \in BOOLEAN
  OBVIOUS
<1> HIDE DEF b
<1>6. End(s, [res |-> err[joined[s]], shared |-> b])
  BY <1>1, <1>2
<1> QED
  BY SMTT(30), <1>1, <1>2, <1>3, <1>4, <1>5, <1>6, InvEnd

LEMMA InvForget ==
  ASSUME Inv, NEW k \in Keys, Forget(k)
  PROVE  Inv'
<1> USE NoneAssumption DEF Inv
<1>1. /\ m' = [m EXCEPT ![k] = None]
      /\ UNCHANGED <<mu, crashed, pc, key, joined, got, exec, done, err, dups,
                     chans>>
  BY DEF Forget
<1>2. /\ forgotten' \in [Sessions -> BOOLEAN]
      /\ \A c \in Sessions : forgotten'[c] <=> forgotten[c] \/ m[k] = c
  BY Zenon DEF Forget
<1>3. TypeOK'
  BY <1>1, <1>2 DEF TypeOK
<1>4. Registered'
  BY SMTT(30), <1>1, <1>2 DEF Registered, TypeOK
<1>5. FieldInv'
  BY SMTT(30), <1>1, <1>2 DEF FieldInv, Registered
<1>6. SessionInv' /\ ChanInv' /\ DupsInv' /\ SameResult' /\ SharedInv'
      /\ SharedExact'
  BY <1>1 DEF SessionInv, ChanInv, DupsInv, SameResult, SharedInv, SharedExact
<1> QED
  BY <1>3, <1>4, <1>5, <1>6

-----------------------------------------------------------------------------
LEMMA InvStart ==
  ASSUME Inv, NEW s \in Sessions, NEW k \in Keys,
         DoDup(s, k) \/ DoLead(s, k) \/ DoChanDup(s, k) \/ DoChanLead(s, k)
  PROVE  Inv'
<1> USE NoneAssumption
<1>a. chans \in [Sessions -> Seq(Sessions)]
  BY DEF Inv, TypeOK
<1>1. CASE DoDup(s, k)
  BY Zenon, <1>a, <1>1, InvJoin DEF DoDup
<1>2. CASE DoLead(s, k)
  BY Zenon, <1>a, <1>2, InvLead DEF DoLead
<1>3. CASE DoChanDup(s, k)
  <2> DEFINE c == m[k]
  <2>1. /\ pc[s] = "idle" /\ c # None /\ Join(s, k, c)
        /\ pc' = [pc EXCEPT ![s] = "receiving"]
        /\ chans' = [chans EXCEPT ![c] = Append(chans[c], s)]
    BY <1>3 DEF DoChanDup
  <2>2. c \in Sessions /\ chans[c] \in Seq(Sessions)
    BY <1>a, <2>1 DEF Inv, TypeOK
  <2>3. chans' \in [Sessions -> Seq(Sessions)]
    BY <1>a, <2>1, <2>2
  <2>4. ASSUME NEW d \in Sessions, NEW t \in Sessions, Contains(chans'[d], t)
        PROVE  Contains(chans[d], t) \/ (d = c /\ t = s)
    <3>1. CASE d = c
      BY SMTT(30), <1>a, <2>1, <2>2, <2>4, <3>1, InAppended
    <3>2. CASE d # c
      BY <1>a, <2>1, <2>4, <3>2
    <3> QED
      BY <3>1, <3>2
  <2> QED
    BY ZenonT(60), <2>1, <2>3, <2>4, InvJoin
<1>4. CASE DoChanLead(s, k)
  <2>1. /\ pc[s] = "idle" /\ m[k] = None /\ Lead(s, k)
        /\ pc' = [pc EXCEPT ![s] = "receiving"]
        /\ chans' = [chans EXCEPT ![s] = <<s>>]
    BY <1>4 DEF DoChanLead
  <2>2. chans' \in [Sessions -> Seq(Sessions)]
    BY <1>a, <2>1
  <2>3. ASSUME NEW d \in Sessions, NEW t \in Sessions, Contains(chans'[d], t)
        PROVE  Contains(chans[d], t) \/ (d = s /\ t = s)
    <3>1. CASE d = s
      BY <1>a, <2>1, <2>3, <3>1, InSingleton
    <3>2. CASE d # s
      BY <1>a, <2>1, <2>3, <3>2
    <3> QED
      BY <3>1, <3>2
  <2> QED
    BY ZenonT(60), <2>1, <2>2, <2>3, InvLead
<1> QED
  BY <1>1, <1>2, <1>3, <1>4

LEMMA InvStep == Inv /\ [Next]_vars => Inv'
<1> SUFFICES ASSUME Inv, [Next]_vars PROVE Inv'
  OBVIOUS
<1>1. CASE UNCHANGED vars
  <2> USE <1>1 DEF vars, callVars, Inv
  <2>1. TypeOK' /\ Registered' /\ SessionInv' /\ FieldInv'
    BY DEF TypeOK, Registered, SessionInv, FieldInv
  <2>2. ChanInv' /\ DupsInv' /\ SameResult' /\ SharedInv' /\ SharedExact'
    BY DEF ChanInv, DupsInv, SameResult, SharedInv, SharedExact
  <2> QED
    BY SMTT(30), <2>1, <2>2
<1>2. CASE \E c \in Sessions : DoCall(c)
  BY SMTT(30), <1>2, InvFn, InvWgDone, InvFinishOk, InvFinishOther, InvCrash DEF DoCall
<1>3. CASE \E s \in Sessions : DupReturns(s) \/ LeaderReturns(s)
  BY <1>3, InvDupReturns, InvLeaderReturns
<1>4. CASE \E k \in Keys : Forget(k)
  BY <1>4, InvForget
<1> QED
  BY <1>1, <1>2, <1>3, <1>4, InvStart DEF Next

LEMMA InvHolds == Spec => []Inv
BY InvInit, InvStep, PTL DEF Spec

(* Sessions, calls and the map keep their types. *)
THEOREM TypeCorrect == Spec => []TypeOK
BY InvHolds, PTL DEF Inv

(* The map holds exactly the calls that can be joined. *)
THEOREM MapExact == Spec => []Registered
BY InvHolds, PTL DEF Inv

(* At most one unforgotten execution of fn is in flight for a key. *)
THEOREM DuplicatesSuppressed == Spec => []OneInFlight
<1>1. Inv => OneInFlight
  <2> SUFFICES ASSUME Inv, NEW c \in Sessions, NEW d \in Sessions,
                      exec[c] \in {"fn", "returned"}, ~forgotten[c],
                      exec[d] \in {"fn", "returned"}, ~forgotten[d],
                      key[c] = key[d]
               PROVE  c = d
    BY DEF OneInFlight
  <2>1. joined[c] = c /\ joined[d] = d /\ key[c] \in Keys
    BY NoneAssumption DEF Inv, SessionInv
  <2>2. m[key[c]] = c /\ m[key[c]] = d
    BY <2>1 DEF Inv, Registered
  <2> QED
    BY <2>2
<1> QED
  BY <1>1, InvHolds, PTL

(* Everyone who joined a call ends the way its fn ended. *)
THEOREM ResultsAgree == Spec => []SameResult
BY InvHolds, PTL DEF Inv

(* The shared flag is exact for every caller that gets a value. *)
THEOREM SharedFlagExact == Spec => []SharedExact
BY InvHolds, PTL DEF Inv
=============================================================================
