----------------------------- MODULE GroupCache -----------------------------
(***************************************************************************)
(* One groupcache Group on one process: groupcache/groupcache.go with the  *)
(* caches of lru/lru.go and the duplicate suppression of                   *)
(* singleflight/singleflight.go.                                           *)
(*                                                                         *)
(* A session is one call of Get.  Every critical section (of a cache's mu, *)
(* of loadGroup's mu, of the pool's mu) is a step, and so is every call    *)
(* that leaves the process.  A value is represented by the number of bytes *)
(* that it and its key take in a cache.                                    *)
(***************************************************************************)
EXTENDS Lru, FiniteSets

CONSTANTS
  Sessions, Keys, None,
  Asks,          \* the keys each session may ask for
  Sizes,         \* what getters and peers may return
  CacheBytes,    \* g.cacheBytes
  Rings,         \* the rings HTTPPool.Set may install: keys of other peers
  NilDest,       \* whether some callers pass a nil Sink
  Panics         \* whether getters may panic (and the caller of Get recover)

ASSUME NoneAssumption == None \notin Sessions
ASSUME SessionsAssumption == IsFiniteSet(Sessions)
ASSUME AsksAssumption == Asks \in [Sessions -> SUBSET Keys]
ASSUME SizesAssumption == Sizes \subseteq Nat \ {0}
ASSUME CacheBytesAssumption == CacheBytes \in Int
ASSUME CallerAssumption == NilDest \in BOOLEAN /\ Panics \in BOOLEAN
ASSUME RingsAssumption == Rings # {} /\ Rings \subseteq SUBSET Keys

VARIABLES
  lru, nbytes,        \* of mainCache and hotCache
  m, done, val,       \* loadGroup.m, and wg and val of the call each session leads
  remote,             \* the keys that PickPeer sends to another peer
  Stats,
  pc, key, joined, got,    \* of each session
  value, into, mainBytes   \* local variables of load and populateCache

caches == <<lru, nbytes>>
flight == <<m, done, val>>
populating == <<value, into, mainBytes>>
vars == <<caches, flight, remote, Stats, pc, key, joined, got, populating>>

Caches == {"main", "hot"}

(* c.val, c.err of a call: a size, or an error *)
Err == 0
Unset == -1
Vals == Sizes \cup {Err, Unset}

StatNames == {"Gets", "CacheHits", "PeerLoads", "PeerErrors", "Loads",
              "LoadsDeduped", "LocalLoads", "LocalLoadErrs"}

PCs == {"idle", "main1", "hot1", "load", "main2", "hot2", "pick", "peer", "local",
        "add", "readMain", "readHot", "evictMain", "evictHot",
        "delete", "wait", "panicked", "end"}

TypeOK ==
  /\ \A c \in Caches : /\ lru[c].ll \in Seq([key : Keys, value : Sizes])
                       /\ lru[c].cache \subseteq Keys
  /\ nbytes \in [Caches -> Nat]
  /\ m \in [Keys -> Sessions \cup {None}]
  /\ done \in [Sessions -> BOOLEAN]
  /\ val \in [Sessions -> Vals]
  /\ remote \in Rings
  /\ Stats \in [StatNames -> Nat]
  /\ pc \in [Sessions -> PCs]
  /\ key \in [Sessions -> Keys \cup {None}]
  /\ joined \in [Sessions -> Sessions \cup {None}]
  /\ got \in [Sessions -> Vals]
  /\ value \in [Sessions -> Vals]
  /\ into \in [Sessions -> Caches]
  /\ mainBytes \in [Sessions -> Nat]

Init ==
  /\ lru = [c \in Caches |-> LruNew]
  /\ nbytes = [c \in Caches |-> 0]
  /\ m = [k \in Keys |-> None]
  /\ done = [s \in Sessions |-> FALSE]
  /\ val = [s \in Sessions |-> Unset]
  /\ remote \in Rings
  /\ Stats = [n \in StatNames |-> 0]
  /\ pc = [s \in Sessions |-> "idle"]
  /\ key = [s \in Sessions |-> None]
  /\ joined = [s \in Sessions |-> None]
  /\ got = [s \in Sessions |-> Unset]
  /\ value = [s \in Sessions |-> Unset]
  /\ into = [s \in Sessions |-> "main"]
  /\ mainBytes = [s \in Sessions |-> 0]

-----------------------------------------------------------------------------
Goto(s, l) == pc' = [pc EXCEPT ![s] = l]

Count(names) == Stats' = [n \in StatNames |-> Stats[n] + IF n \in names THEN 1 ELSE 0]

(* Get returns v to its caller; its local variables are gone *)
Return(s, v) ==
  /\ got' = [got EXCEPT ![s] = v]
  /\ key' = [key EXCEPT ![s] = None]
  /\ value' = [value EXCEPT ![s] = Unset]
  /\ into' = [into EXCEPT ![s] = "main"]
  /\ mainBytes' = [mainBytes EXCEPT ![s] = 0]
  /\ Goto(s, "end")

(* cache.get; a disabled cache is not asked *)
Hit(c, k) == CacheBytes > 0 /\ k \in lru[c].cache
Touch(c, k) == lru' = IF CacheBytes > 0 THEN [lru EXCEPT ![c] = LruGet(@, k)] ELSE lru

(* c.val, c.err = fn() and c.wg.Done() *)
FnReturns(s, v) ==
  /\ val' = [val EXCEPT ![s] = v]
  /\ done' = [done EXCEPT ![s] = TRUE]
  /\ Goto(s, "delete")

(* populateCache is called *)
Populate(s, v, c) ==
  /\ value' = [value EXCEPT ![s] = v]
  /\ into' = [into EXCEPT ![s] = c]
  /\ Goto(s, "add")

-----------------------------------------------------------------------------
(* Group.Get up to the lookup in mainCache *)
Get(s, k) ==
  /\ pc[s] = "idle"
  /\ key' = [key EXCEPT ![s] = k]
  /\ Count({"Gets"})
  /\ Goto(s, "main1")
  /\ UNCHANGED <<caches, flight, remote, joined, got, populating>>

(* Get with a nil Sink *)
GetNilDest(s) ==
  /\ NilDest /\ pc[s] = "idle"
  /\ Count({"Gets"})
  /\ Return(s, Err)
  /\ UNCHANGED <<caches, flight, remote, joined>>

(* the lookup of Get, in each cache *)
Lookup(s, here, c, miss) ==
  /\ pc[s] = here
  /\ Touch(c, key[s])
  /\ IF Hit(c, key[s])
     THEN Return(s, ValueOf(lru[c], key[s])) /\ Count({"CacheHits"})
     ELSE Goto(s, miss) /\ UNCHANGED <<got, key, populating, Stats>>
  /\ UNCHANGED <<nbytes, flight, remote, joined>>

(* Mutant: the key is not registered. *)
LoadUnregistered(s) ==
  /\ pc[s] = "load"
  /\ Count({"Loads"})
  /\ joined' = [joined EXCEPT ![s] = s]
  /\ Goto(s, "main2")
  /\ UNCHANGED <<caches, flight, remote, key, got, populating>>

(* Mutant: the cache is not looked up again. *)
LoadNoRelookup(s) ==
  /\ pc[s] = "load"
  /\ Count({"Loads", "LoadsDeduped"})
  /\ LET c == m[key[s]]
     IN  /\ joined' = [joined EXCEPT ![s] = IF c = None THEN s ELSE c]
         /\ m' = [m EXCEPT ![key[s]] = IF c = None THEN s ELSE c]
         /\ Goto(s, IF c = None THEN "pick" ELSE "wait")
  /\ UNCHANGED <<caches, done, val, remote, key, got, populating>>

(* load and the first critical section of loadGroup.Do *)
Load(s) ==
  /\ pc[s] = "load"
  /\ Count({"Loads"})
  /\ LET c == m[key[s]]
     IN  IF c # None
         THEN /\ joined' = [joined EXCEPT ![s] = c]
              /\ Goto(s, "wait")
              /\ UNCHANGED m
         ELSE /\ joined' = [joined EXCEPT ![s] = s]
              /\ m' = [m EXCEPT ![key[s]] = s]
              /\ Goto(s, "main2")
  /\ UNCHANGED <<caches, done, val, remote, key, got, populating>>

(* Mutant: the duplicate does not wait. *)
WaitNot(s) ==
  /\ pc[s] = "wait"
  /\ Return(s, val[joined[s]])
  /\ UNCHANGED <<caches, flight, remote, Stats, joined>>

(* c.wg.Wait() *)
Wait(s) ==
  /\ pc[s] = "wait" /\ done[joined[s]]
  /\ Return(s, val[joined[s]])
  /\ UNCHANGED <<caches, flight, remote, Stats, joined>>

(* Mutant: only mainCache is looked up again. *)
RelookupMain(s, here, c, miss, counted) ==
  /\ pc[s] = here
  /\ Touch(c, key[s])
  /\ IF c = "main" /\ Hit(c, key[s])
     THEN FnReturns(s, ValueOf(lru[c], key[s])) /\ Count({"CacheHits"})
     ELSE Goto(s, miss) /\ Count(counted) /\ UNCHANGED <<val, done>>
  /\ UNCHANGED <<nbytes, m, remote, key, joined, got, populating>>

(* the second lookup, inside the function given to loadGroup.Do *)
Relookup(s, here, c, miss, counted) ==
  /\ pc[s] = here
  /\ Touch(c, key[s])
  /\ IF Hit(c, key[s])
     THEN FnReturns(s, ValueOf(lru[c], key[s])) /\ Count({"CacheHits"})
     ELSE Goto(s, miss) /\ Count(counted) /\ UNCHANGED <<val, done>>
  /\ UNCHANGED <<nbytes, m, remote, key, joined, got, populating>>

PickPeer(s) ==
  /\ pc[s] = "pick"
  /\ Goto(s, IF key[s] \in remote THEN "peer" ELSE "local")
  /\ UNCHANGED <<caches, flight, remote, Stats, key, joined, got, populating>>

-----------------------------------------------------------------------------
(* Mutant: a failure counts as a load, too. *)
PeerFailsCounted(s) ==
  /\ pc[s] = "peer"
  /\ Count({"PeerErrors", "PeerLoads"})
  /\ Goto(s, "local")
  /\ UNCHANGED <<caches, flight, remote, key, joined, got, populating>>

(* getFromPeer: peer.Get fails, or returns a value that one time in ten is *)
(* mirrored in hotCache.                                                   *)
PeerFails(s) ==
  /\ pc[s] = "peer"
  /\ Count({"PeerErrors"})
  /\ Goto(s, "local")
  /\ UNCHANGED <<caches, flight, remote, key, joined, got, populating>>

PeerAnswers(s, v) ==
  /\ pc[s] = "peer"
  /\ FnReturns(s, v)
  /\ Count({"PeerLoads"})
  /\ UNCHANGED <<caches, m, remote, key, joined, got, populating>>

PeerAnswersPopular(s, v) ==
  /\ pc[s] = "peer"
  /\ Populate(s, v, "hot")
  /\ UNCHANGED <<caches, flight, remote, Stats, key, joined, got, mainBytes>>

(* getLocally *)
LocalFails(s) ==
  /\ pc[s] = "local"
  /\ FnReturns(s, Err)
  /\ Count({"LocalLoadErrs"})
  /\ UNCHANGED <<caches, m, remote, key, joined, got, populating>>

(* the panic leaves loadGroup.Do before c.wg.Done() *)
LocalPanics(s) ==
  /\ Panics /\ pc[s] = "local"
  /\ Goto(s, "panicked")
  /\ UNCHANGED <<caches, flight, remote, Stats, key, joined, got, populating>>

LocalLoads(s, v) ==
  /\ pc[s] = "local"
  /\ Count({"LocalLoads"})
  /\ Populate(s, v, "main")
  /\ UNCHANGED <<caches, flight, remote, key, joined, got, mainBytes>>

-----------------------------------------------------------------------------
(* populateCache returns; getFromPeer is counted after it *)
Populated(s) ==
  /\ FnReturns(s, value[s])
  /\ Count(IF into[s] = "hot" THEN {"PeerLoads"} ELSE {})

(* cache.add; nothing is added to a disabled cache *)
CacheAdd(s) ==
  /\ pc[s] = "add"
  /\ IF CacheBytes <= 0
     THEN Populated(s) /\ UNCHANGED caches
     ELSE /\ lru' = [lru EXCEPT ![into[s]] = LruAdd(@, key[s], value[s])]
          /\ nbytes' = [nbytes EXCEPT ![into[s]] = @ + value[s]]
          /\ Goto(s, "readMain")
          /\ UNCHANGED <<done, val, Stats>>
  /\ UNCHANGED <<m, remote, key, joined, got, populating>>

ReadMainBytes(s) ==
  /\ pc[s] = "readMain"
  /\ mainBytes' = [mainBytes EXCEPT ![s] = nbytes["main"]]
  /\ Goto(s, "readHot")
  /\ UNCHANGED <<caches, flight, remote, Stats, key, joined, got, value, into>>

(* Mutant: hotCache does not count. *)
FitsMain(s) == mainBytes[s] <= CacheBytes

Fits(s) == mainBytes[s] + nbytes["hot"] <= CacheBytes

(* Mutant: mainCache is always the victim. *)
VictimMain(s) == "evictMain"

Victim(s) == IF nbytes["hot"] > mainBytes[s] \div 8 THEN "evictHot" ELSE "evictMain"

ReadHotBytes(s) ==
  /\ pc[s] = "readHot"
  /\ IF Fits(s) THEN Populated(s)
                ELSE Goto(s, Victim(s)) /\ UNCHANGED <<done, val, Stats>>
  /\ UNCHANGED <<caches, m, remote, key, joined, got, populating>>

(* cache.removeOldest with OnEvicted *)
RemoveOldest(s, here, c) ==
  /\ pc[s] = here
  /\ lru' = [lru EXCEPT ![c] = LruRemoveOldest(@)]
  /\ nbytes' = IF lru[c].ll = <<>> THEN nbytes
               ELSE [nbytes EXCEPT ![c] = @ - Last(lru[c].ll).value]
  /\ Goto(s, "readMain")
  /\ UNCHANGED <<flight, remote, Stats, key, joined, got, populating>>

-----------------------------------------------------------------------------
(* the last critical section of loadGroup.Do, and Get returns *)
Delete(s) ==
  /\ pc[s] = "delete"
  /\ m' = [m EXCEPT ![key[s]] = None]
  /\ Return(s, val[s])
  /\ UNCHANGED <<caches, done, val, remote, Stats, joined>>

(* HTTPPool.Set *)
Set(r) ==
  /\ remote # r
  /\ remote' = r
  /\ UNCHANGED <<caches, flight, Stats, pc, key, joined, got, populating>>

Step(s) ==
  \/ Lookup(s, "main1", "main", "hot1")
  \/ Lookup(s, "hot1", "hot", "load")
  \/ Load(s) \/ Wait(s)
  \/ Relookup(s, "main2", "main", "hot2", {})
  \/ Relookup(s, "hot2", "hot", "pick", {"LoadsDeduped"})
  \/ PickPeer(s) \/ PeerFails(s) \/ LocalFails(s) \/ LocalPanics(s)
  \/ \E v \in Sizes :
       PeerAnswers(s, v) \/ PeerAnswersPopular(s, v) \/ LocalLoads(s, v)
  \/ CacheAdd(s) \/ ReadMainBytes(s) \/ ReadHotBytes(s)
  \/ RemoveOldest(s, "evictMain", "main") \/ RemoveOldest(s, "evictHot", "hot")
  \/ Delete(s)

Next ==
  \/ \E s \in Sessions : Step(s) \/ GetNilDest(s) \/ \E k \in Asks[s] : Get(s, k)
  \/ \E r \in Rings : Set(r)

Spec == Init /\ [][Next]_vars

(* a runnable goroutine is scheduled; peers and getters answer *)
FairSpec == Spec /\ \A s \in Sessions : WF_vars(Step(s))

-----------------------------------------------------------------------------
Populating(s) == pc[s] \in {"readMain", "readHot", "evictMain", "evictHot"}

(* Inside the function given to loadGroup.Do, after the cache was missed *)
Loading(s) == pc[s] \in {"pick", "peer", "local", "add"} \/ Populating(s)

Leading(s) == pc[s] \in {"main2", "hot2", "delete"} \/ Loading(s)

KeysIn(c) == {e.key : e \in ToSet(lru[c].ll)}

Stored(c) == [k \in c.cache |-> ValueOf(c, k)]

(* cache.nbytes is the size of the entries in the cache: load looks at the *)
(* cache again because otherwise "cache.nbytes would be incremented below  *)
(* even though there will be only one entry for this key".                 *)
BytesExact == \A c \in Caches : nbytes[c] = SumFunction(Stored(lru[c]))

(* No key is in both caches, or twice in one: whatever the ring does while *)
(* loads are running, a value is stored once in a process.                 *)
StoredOnce ==
  /\ KeysIn("main") \cap KeysIn("hot") = {}
  /\ \A c \in Caches :
       KeysIn(c) = lru[c].cache /\ Cardinality(KeysIn(c)) = Len(lru[c].ll)

(* cacheBytes limits the sum of the two caches whenever nobody is between  *)
(* its cache.add and the end of its eviction loop, although the loop reads *)
(* the two sizes one after the other.                                      *)
WithinLimit ==
  (\A s \in Sessions : ~Populating(s)) =>
    nbytes["main"] + nbytes["hot"] <= IF CacheBytes > 0 THEN CacheBytes ELSE 0

(* loadGroup "ensures that each key is only fetched once", regardless of   *)
(* the number of concurrent callers.                                       *)
OneLoad ==
  \A s, t \in Sessions :
    Leading(s) /\ Leading(t) /\ key[s] = key[t] => s = t

(* Callers that shared a load return the same thing. *)
SameValue ==
  \A s \in Sessions :
    pc[s] = "end" /\ joined[s] # None => got[s] = val[joined[s]] /\ got[s] # Unset

(* Every load that was not answered by the second lookup ends as a peer    *)
(* load, a local load or a local error.                                    *)
StatsBalance ==
  Stats["LoadsDeduped"] =
    Stats["PeerLoads"] + Stats["LocalLoads"] + Stats["LocalLoadErrs"]
      + Cardinality({s \in Sessions : pc[s] \in {"pick", "peer", "local", "panicked"}
                        \/ (into[s] = "hot" /\ Loading(s))})

(* Every Get returns, in particular the eviction loop ends, unless a getter *)
(* of the same key panicked.                                                *)
GetEnds ==
  \A s \in Sessions :
    pc[s] # "idle" ~>
      (pc[s] = "end" \/ \E t \in Sessions : pc[t] = "panicked" /\ key[t] = key[s])
=============================================================================
