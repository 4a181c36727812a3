-------------------------- MODULE GroupCacheProofs --------------------------
(***************************************************************************)
(* Proofs about GroupCache, for any number of concurrent calls of Get, any *)
(* keys, sizes, limit and rings: the caches stay sound, loadGroup admits   *)
(* one load of a key at a time, callers that share it get the same value,  *)
(* a value is stored once, nbytes is the size of what is stored, the two   *)
(* caches keep to the limit, and the counters account for every load.      *)
(***************************************************************************)
EXTENDS GroupCache, SequenceTheorems, FiniteSums

Entries == [key : Keys, value : Sizes]

\* A cache whose list has one entry for each key of its map, and no others.
Sound(c) ==
  /\ c = [ll |-> c.ll, cache |-> c.cache]
  /\ c.ll \in Seq(Entries)
  /\ \A i, j \in DOMAIN c.ll : c.ll[i].key = c.ll[j].key => i = j
  /\ c.cache = {c.ll[i].key : i \in DOMAIN c.ll}

-----------------------------------------------------------------------------
\* RemoveAt takes out one element and keeps the order of the others.
LEMMA RemoveAtFacts ==
  ASSUME NEW S, NEW s \in Seq(S), NEW i \in DOMAIN s
  PROVE  /\ RemoveAt(s, i) \in Seq(S)
         /\ Len(RemoveAt(s, i)) = Len(s) - 1
         /\ \A j \in 1 .. Len(s) - 1 :
              RemoveAt(s, i)[j] = IF j < i THEN s[j] ELSE s[j + 1]
<1> DEFINE a == SubSeq(s, 1, i - 1)
<1> DEFINE b == SubSeq(s, i + 1, Len(s))
<1>0. i \in 1 .. Len(s) /\ Len(s) \in Nat
  OBVIOUS
<1>1. a \in Seq(S) /\ Len(a) = i - 1 /\ \A j \in 1 .. i - 1 : a[j] = s[j]
  BY <1>0, SubSeqProperties
<1>2. /\ b \in Seq(S) /\ Len(b) = Len(s) - i
      /\ \A j \in 1 .. Len(s) - i : b[j] = s[i + j]
  BY <1>0, SubSeqProperties
<1>3. RemoveAt(s, i) = a \o b
  BY DEF RemoveAt
<1> HIDE DEF a, b
<1>4. /\ a \o b \in Seq(S) /\ Len(a \o b) = Len(s) - 1
      /\ \A j \in 1 .. Len(s) - 1 :
           (a \o b)[j] = IF j < i THEN a[j] ELSE b[j - (i - 1)]
  <2>1. /\ a \o b \in Seq(S) /\ Len(a \o b) = Len(a) + Len(b)
        /\ \A j \in 1 .. Len(a) + Len(b) :
             (a \o b)[j] = IF j <= Len(a) THEN a[j] ELSE b[j - Len(a)]
    BY Zenon, <1>1, <1>2, ConcatProperties
  <2>2. Len(a) + Len(b) = Len(s) - 1
    BY <1>0, <1>1, <1>2
  <2>3. \A j \in 1 .. Len(s) - 1 : j <= Len(a) <=> j < i
    BY <1>0, <1>1
  <2> QED
    BY <1>1, <2>1, <2>2, <2>3
<1>5. \A j \in 1 .. Len(s) - 1 : j >= i => b[j - (i - 1)] = s[j + 1]
  <2> TAKE j \in 1 .. Len(s) - 1
  <2> HAVE j >= i
  <2>1. j - (i - 1) \in 1 .. Len(s) - i /\ i + (j - (i - 1)) = j + 1
    BY <1>0
  <2> QED
    BY <1>2, <2>1
<1> QED
  BY <1>0, <1>1, <1>3, <1>4, <1>5

\* An entry put in front of others.
LEMMA PushFrontFacts ==
  ASSUME NEW S, NEW s \in Seq(S), NEW e \in S
  PROVE  /\ <<e>> \o s \in Seq(S)
         /\ Len(<<e>> \o s) = Len(s) + 1
         /\ (<<e>> \o s)[1] = e
         /\ \A j \in 2 .. Len(s) + 1 : (<<e>> \o s)[j] = s[j - 1]
OBVIOUS

\* What RemoveAt does to the keys.
LEMMA RemoveSound ==
  ASSUME NEW c, Sound(c), NEW i \in DOMAIN c.ll
  PROVE  LET d == RemoveAt(c.ll, i)
         IN  /\ d \in Seq(Entries)
             /\ \A j, l \in DOMAIN d : d[j].key = d[l].key => j = l
             /\ {d[j].key : j \in DOMAIN d} = c.cache \ {c.ll[i].key}
<1> DEFINE d == RemoveAt(c.ll, i)
<1> DEFINE n == Len(c.ll)
<1>1. c.ll \in Seq(Entries) /\ n \in Nat /\ DOMAIN c.ll = 1 .. n /\ i \in 1 .. n
  BY DEF Sound
<1>2. /\ d \in Seq(Entries) /\ Len(d) = n - 1
      /\ \A j \in 1 .. n - 1 : d[j] = IF j < i THEN c.ll[j] ELSE c.ll[j + 1]
  BY Zenon, <1>1, RemoveAtFacts
<1> HIDE DEF d, n
<1>3. DOMAIN d = 1 .. n - 1
  BY <1>1, <1>2
<1> DEFINE f(j) == IF j < i THEN j ELSE j + 1
<1>4. \A j \in 1 .. n - 1 : f(j) \in 1 .. n /\ f(j) # i /\ d[j] = c.ll[f(j)]
  BY <1>1, <1>2
<1>5. \A j, l \in 1 .. n - 1 : f(j) = f(l) => j = l
  BY <1>1
<1>6. \A j \in 1 .. n : j # i => \E l \in 1 .. n - 1 : f(l) = j
  <2> TAKE j \in 1 .. n
  <2> HAVE j # i
  <2>1. CASE j < i
    <3>1. j \in 1 .. n - 1 /\ f(j) = j
      BY <1>1, <2>1
    <3> QED
      BY <3>1
  <2>2. CASE j > i
    <3>1. j - 1 \in 1 .. n - 1 /\ f(j - 1) = j
      BY <1>1, <2>2
    <3> QED
      BY <3>1
  <2> QED
    BY <1>1, <2>1, <2>2
<1> HIDE DEF f
<1>7. \A j, l \in 1 .. n : c.ll[j].key = c.ll[l].key => j = l
  BY <1>1 DEF Sound
<1>8. \A j, l \in DOMAIN d : d[j].key = d[l].key => j = l
  BY <1>3, <1>4, <1>5, <1>7
<1>9. c.cache = {c.ll[j].key : j \in 1 .. n}
  BY <1>1 DEF Sound
<1>10. \A k : k \in {d[j].key : j \in 1 .. n - 1} <=> k \in c.cache /\ k # c.ll[i].key
  <2> TAKE k
  <2>1. ASSUME NEW j \in 1 .. n - 1, k = d[j].key
        PROVE  k \in c.cache /\ k # c.ll[i].key
    BY <1>1, <1>4, <1>7, <1>9, <2>1
  <2>2. ASSUME k \in c.cache, k # c.ll[i].key
        PROVE  \E j \in 1 .. n - 1 : k = d[j].key
    <3>1. PICK l \in 1 .. n : k = c.ll[l].key
      BY <1>9, <2>2
    <3>2. PICK j \in 1 .. n - 1 : f(j) = l
      BY <1>6, <2>2, <3>1
    <3> QED
      BY <1>4, <3>1, <3>2
  <2> QED
    BY <2>1, <2>2
<1>11. {d[j].key : j \in DOMAIN d} = c.cache \ {c.ll[i].key}
  BY <1>3, <1>10
<1> QED
  BY Zenon, <1>2, <1>8, <1>11 DEF d

\* The parts that make a cache sound.
LEMMA MakeSound ==
  ASSUME NEW s \in Seq(Entries), NEW K,
         \A j, l \in DOMAIN s : s[j].key = s[l].key => j = l,
         K = {s[j].key : j \in DOMAIN s}
  PROVE  Sound([ll |-> s, cache |-> K])
<1> DEFINE c == [ll |-> s, cache |-> K]
<1>1. c.ll = s /\ c.cache = K
  OBVIOUS
<1> HIDE DEF c
<1>2. c = [ll |-> c.ll, cache |-> c.cache]
  BY <1>1 DEF c
<1>3. Sound(c)
  BY <1>1, <1>2 DEF Sound
<1> QED
  BY <1>3 DEF c

\* An entry put in front of the entries of other keys.
LEMMA PushSound ==
  ASSUME NEW d \in Seq(Entries), NEW e \in Entries, NEW K,
         \A j, l \in DOMAIN d : d[j].key = d[l].key => j = l,
         K = {d[j].key : j \in DOMAIN d}, e.key \notin K
  PROVE  Sound([ll |-> <<e>> \o d, cache |-> K \cup {e.key}])
<1> DEFINE s == <<e>> \o d
<1> DEFINE n == Len(d)
<1>1. n \in Nat /\ DOMAIN d = 1 .. n
  OBVIOUS
<1>2. /\ s \in Seq(Entries) /\ Len(s) = n + 1 /\ s[1] = e
      /\ \A j \in 2 .. n + 1 : s[j] = d[j - 1]
  BY PushFrontFacts
<1> HIDE DEF s, n
<1>3. DOMAIN s = 1 .. n + 1
  BY <1>1, <1>2
<1>4. \A j \in 2 .. n + 1 : j - 1 \in 1 .. n /\ s[j].key \in K
  <2> TAKE j \in 2 .. n + 1
  <2>1. j - 1 \in 1 .. n
    BY <1>1
  <2>2. d[j - 1].key \in K
    BY <1>1, <2>1
  <2> QED
    BY <1>2, <2>1, <2>2
<1>5. \A j, l \in 1 .. n + 1 : s[j].key = s[l].key => j = l
  <2> TAKE j, l \in 1 .. n + 1
  <2> HAVE s[j].key = s[l].key
  <2>0. (j = 1 \/ j \in 2 .. n + 1) /\ (l = 1 \/ l \in 2 .. n + 1)
    BY <1>1
  <2>1. CASE j = 1 \/ l = 1
    <3>1. s[1].key \notin K
      BY <1>2
    <3> QED
      BY <1>4, <2>0, <2>1, <3>1
  <2>2. CASE j # 1 /\ l # 1
    <3>1. j \in 2 .. n + 1 /\ l \in 2 .. n + 1
      BY <1>1, <2>2
    <3>2. d[j - 1].key = d[l - 1].key
      BY <1>2, <3>1
    <3>3. j - 1 = l - 1
      BY <1>1, <1>4, <3>1, <3>2
    <3> QED
      BY <1>1, <3>3
  <2> QED
    BY <2>1, <2>2
<1>6. \A k : k \in {s[j].key : j \in 1 .. n + 1} <=> k \in K \cup {e.key}
  <2> SUFFICES ASSUME NEW k
               PROVE  k \in {s[j].key : j \in 1 .. n + 1} <=> k \in K \cup {e.key}
    BY Zenon
  <2>1. ASSUME NEW j \in 1 .. n + 1, k = s[j].key
        PROVE  k \in K \cup {e.key}
    <3>1. j = 1 \/ j \in 2 .. n + 1
      BY <1>1
    <3> QED
      BY <1>2, <1>4, <2>1, <3>1
  <2>2. ASSUME k \in K
        PROVE  \E j \in 1 .. n + 1 : k = s[j].key
    <3>1. PICK l \in 1 .. n : k = d[l].key
      BY <1>1, <2>2
    <3>2. l + 1 \in 2 .. n + 1 /\ l + 1 \in 1 .. n + 1 /\ (l + 1) - 1 = l
      BY <1>1
    <3> QED
      BY <1>2, <3>1, <3>2
  <2>3. 1 \in 1 .. n + 1
    BY <1>1
  <2> QED
    BY <1>2, <2>1, <2>2, <2>3
<1>7. K \cup {e.key} = {s[j].key : j \in DOMAIN s}
  BY Zenon, <1>3, <1>6
<1>8. \A j, l \in DOMAIN s : s[j].key = s[l].key => j = l
  BY <1>3, <1>5
<1>9. Sound([ll |-> s, cache |-> K \cup {e.key}])
  BY ZenonT(60), <1>2, <1>7, <1>8, MakeSound
<1> QED
  BY <1>9 DEF s

\* The element that the map has for a key is in the list.
LEMMA AtFacts ==
  ASSUME NEW c, Sound(c), NEW k \in c.cache
  PROVE  At(c.ll, k) \in DOMAIN c.ll /\ c.ll[At(c.ll, k)].key = k
<1>1. \E i \in DOMAIN c.ll : c.ll[i].key = k
  BY DEF Sound
<1> QED
  BY <1>1 DEF At

\* Get and Add find values that were put there.
LEMMA ValueOfType ==
  ASSUME NEW c, Sound(c), NEW k \in c.cache
  PROVE  ValueOf(c, k) \in Sizes
<1>1. c.ll[At(c.ll, k)] \in Entries
  BY AtFacts DEF Sound
<1> QED
  BY <1>1 DEF ValueOf, Entries

\* Cache.Get changes the order of the list only.
LEMMA LruGetSound ==
  ASSUME NEW c, Sound(c), NEW k
  PROVE  Sound(LruGet(c, k)) /\ LruGet(c, k).cache = c.cache
<1>1. CASE k \notin c.cache
  BY <1>1 DEF LruGet
<1>2. CASE k \in c.cache
  <2> DEFINE i == At(c.ll, k)
  <2> DEFINE d == RemoveAt(c.ll, i)
  <2>1. i \in DOMAIN c.ll /\ c.ll[i].key = k
    BY <1>2, AtFacts
  <2> HIDE DEF i
  <2>2. c.ll[i] \in Entries
    BY <2>1 DEF Sound
  <2>3. /\ d \in Seq(Entries)
        /\ \A j, l \in DOMAIN d : d[j].key = d[l].key => j = l
        /\ c.cache \ {k} = {d[j].key : j \in DOMAIN d}
    BY ZenonT(60), <2>1, RemoveSound
  <2>4. LruGet(c, k) = [ll |-> <<c.ll[i]>> \o d, cache |-> c.cache]
    BY Zenon, <1>2 DEF LruGet, MoveToFront, i, Sound
  <2> HIDE DEF d
  <2>5. Sound([ll |-> <<c.ll[i]>> \o d, cache |-> (c.cache \ {k}) \cup {c.ll[i].key}])
    BY ZenonT(60), <2>1, <2>2, <2>3, PushSound
  <2>6. (c.cache \ {k}) \cup {c.ll[i].key} = c.cache
    BY <1>2, <2>1
  <2>7. Sound([ll |-> <<c.ll[i]>> \o d, cache |-> c.cache])
    BY <2>5, <2>6, Zenon
  <2>8. Sound(LruGet(c, k))
    BY <2>4, <2>7, Zenon
  <2>9. LruGet(c, k).cache = c.cache
    BY <2>4
  <2> QED
    BY <2>8, <2>9
<1> QED
  BY <1>1, <1>2

\* Cache.Add leaves one entry of the key, whether there was one or not.
LEMMA LruAddSound ==
  ASSUME NEW c, Sound(c), NEW k \in Keys, NEW v \in Sizes
  PROVE  Sound(LruAdd(c, k, v)) /\ LruAdd(c, k, v).cache = c.cache \cup {k}
<1> DEFINE e == [key |-> k, value |-> v]
<1> DEFINE d == IF k \in c.cache THEN RemoveAt(c.ll, At(c.ll, k)) ELSE c.ll
<1>1. e \in Entries /\ e.key = k
  BY DEF Entries
<1>2. /\ d \in Seq(Entries)
      /\ \A j, l \in DOMAIN d : d[j].key = d[l].key => j = l
      /\ c.cache \ {k} = {d[j].key : j \in DOMAIN d}
  <2>1. CASE k \notin c.cache
    BY <2>1 DEF Sound
  <2>2. CASE k \in c.cache
    <3> DEFINE i == At(c.ll, k)
    <3>1. i \in DOMAIN c.ll /\ c.ll[i].key = k
      BY <2>2, AtFacts
    <3>2. d = RemoveAt(c.ll, i)
      BY <2>2
    <3> HIDE DEF i
    <3> DEFINE b == RemoveAt(c.ll, i)
    <3>3. /\ b \in Seq(Entries)
          /\ \A j, l \in DOMAIN b : b[j].key = b[l].key => j = l
          /\ c.cache \ {k} = {b[j].key : j \in DOMAIN b}
      BY Zenon, <3>1, RemoveSound
    <3>4. d = b
      BY <3>2
    <3> HIDE DEF b, d
    <3> QED
      BY <3>3, <3>4
  <2> QED
    BY <2>1, <2>2
<1>3. LruAdd(c, k, v) = [ll |-> <<e>> \o d, cache |-> c.cache \cup {k}]
  BY DEF LruAdd
<1> HIDE DEF d, e
<1>4. Sound([ll |-> <<e>> \o d, cache |-> (c.cache \ {k}) \cup {e.key}])
  BY ZenonT(60), <1>1, <1>2, PushSound
<1>5. (c.cache \ {k}) \cup {e.key} = c.cache \cup {k}
  BY <1>1
<1>6. Sound([ll |-> <<e>> \o d, cache |-> c.cache \cup {k}])
  BY <1>4, <1>5, Zenon
<1>7. Sound(LruAdd(c, k, v))
  BY <1>3, <1>6, ZenonT(60)
<1>8. LruAdd(c, k, v).cache = c.cache \cup {k}
  BY <1>3
<1> QED
  BY <1>7, <1>8

\* RemoveOldest takes out one key, if there is one.
LEMMA LruRemoveSound ==
  ASSUME NEW c, Sound(c)
  PROVE  /\ Sound(LruRemoveOldest(c))
         /\ LruRemoveOldest(c).cache \subseteq c.cache
         /\ c.ll # <<>> => Last(c.ll).value \in Sizes
<1>1. CASE c.ll = <<>>
  BY <1>1 DEF LruRemoveOldest
<1>2. CASE c.ll # <<>>
  <2> DEFINE n == Len(c.ll)
  <2> DEFINE d == RemoveAt(c.ll, n)
  <2>1. c.ll \in Seq(Entries)
    BY DEF Sound
  <2>2. n \in DOMAIN c.ll
    BY <1>2, <2>1
  <2>3. LruRemoveOldest(c) = [ll |-> d, cache |-> c.cache \ {c.ll[n].key}]
    BY <1>2 DEF LruRemoveOldest, removeElement
  <2>4. Last(c.ll) \in Entries
    BY <2>1, <2>2 DEF Last
  <2> HIDE DEF n
  <2>5. /\ d \in Seq(Entries)
        /\ \A j, l \in DOMAIN d : d[j].key = d[l].key => j = l
        /\ c.cache \ {c.ll[n].key} = {d[j].key : j \in DOMAIN d}
    BY Zenon, <2>2, RemoveSound
  <2> HIDE DEF d
  <2>6. Sound([ll |-> d, cache |-> c.cache \ {c.ll[n].key}])
    BY <2>5, MakeSound
  <2>7. Sound(LruRemoveOldest(c))
    BY <2>3, <2>6, Zenon
  <2>8. LruRemoveOldest(c).cache \subseteq c.cache
    BY <2>3
  <2>9. Last(c.ll).value \in Sizes
    BY <2>4 DEF Entries
  <2> QED
    BY <2>7, <2>8, <2>9
<1> QED
  BY <1>1, <1>2

\* In a sound cache the keys are as many as the entries.
LEMMA SoundCounts ==
  ASSUME NEW c, Sound(c)
  PROVE  LET K == {e.key : e \in ToSet(c.ll)}
         IN  K = c.cache /\ Cardinality(K) = Len(c.ll)
<1> DEFINE n == Len(c.ll)
<1> DEFINE f == [i \in 1 .. n |-> c.ll[i].key]
<1>1. n \in Nat /\ DOMAIN c.ll = 1 .. n
  BY DEF Sound
<1>2. {e.key : e \in ToSet(c.ll)} = c.cache
  BY DEF Sound, ToSet
<1> HIDE DEF n
<1>3. f \in [1 .. n -> c.cache]
  BY <1>1 DEF Sound
<1>4. \A i, j \in 1 .. n : f[i] = f[j] => i = j
  BY <1>1 DEF Sound
<1>5. \A k \in c.cache : \E i \in 1 .. n : f[i] = k
  BY <1>1 DEF Sound
<1>6. f \in Bijection(1 .. n, c.cache)
  BY <1>3, <1>4, <1>5 DEF Bijection, Injection, Surjection, IsInjective
<1>7. ExistsBijection(1 .. n, c.cache)
  BY <1>6 DEF ExistsBijection
<1>8. IsFiniteSet(1 .. n) /\ Cardinality(1 .. n) = n
  BY <1>1, FS_Interval
<1>9. Cardinality(c.cache) = n
  BY <1>7, <1>8, FS_Bijection
<1> QED
  BY Zenon, <1>2, <1>9 DEF n

-----------------------------------------------------------------------------
(* The sizes of what a cache holds. *)

\* The map leads to the one entry of a key.
LEMMA ValueAt ==
  ASSUME NEW c, Sound(c), NEW i \in DOMAIN c.ll
  PROVE  c.ll[i].key \in c.cache /\ ValueOf(c, c.ll[i].key) = c.ll[i].value
<1> DEFINE k == c.ll[i].key
<1>1. k \in c.cache
  BY DEF Sound
<1>2. At(c.ll, k) \in DOMAIN c.ll /\ c.ll[At(c.ll, k)].key = k
  BY <1>1, AtFacts
<1>3. At(c.ll, k) = i
  BY <1>2 DEF Sound
<1> QED
  BY <1>1, <1>3 DEF ValueOf

\* An entry that two caches have gives its key the same value in both.
LEMMA SameEntry ==
  ASSUME NEW c, Sound(c), NEW d, Sound(d),
         NEW i \in DOMAIN c.ll, NEW j \in DOMAIN d.ll, c.ll[i] = d.ll[j]
  PROVE  ValueOf(d, c.ll[i].key) = ValueOf(c, c.ll[i].key)
<1>1. ValueOf(c, c.ll[i].key) = c.ll[i].value
  BY ValueAt
<1>2. ValueOf(d, d.ll[j].key) = d.ll[j].value
  BY ValueAt
<1> QED
  BY <1>1, <1>2

\* RemoveAt keeps the other elements, an element put in front all of them.
LEMMA RemoveAtKeeps ==
  ASSUME NEW S, NEW s \in Seq(S), NEW i \in DOMAIN s, NEW j \in DOMAIN s, j # i
  PROVE  \E l \in DOMAIN RemoveAt(s, i) : RemoveAt(s, i)[l] = s[j]
<1> DEFINE d == RemoveAt(s, i)
<1>1. Len(s) \in Nat /\ DOMAIN s = 1 .. Len(s) /\ i \in 1 .. Len(s) /\ j \in 1 .. Len(s)
  OBVIOUS
<1>2. /\ d \in Seq(S) /\ Len(d) = Len(s) - 1
      /\ \A l \in 1 .. Len(s) - 1 : d[l] = IF l < i THEN s[l] ELSE s[l + 1]
  BY Zenon, RemoveAtFacts
<1> HIDE DEF d
<1>3. DOMAIN d = 1 .. Len(s) - 1
  BY <1>1, <1>2
<1>4. CASE j < i
  <2>1. j \in 1 .. Len(s) - 1 /\ d[j] = s[j]
    BY <1>1, <1>2, <1>4
  <2> QED
    BY <1>3, <2>1 DEF d
<1>5. CASE j > i
  <2>1. j - 1 \in 1 .. Len(s) - 1 /\ ~(j - 1 < i) /\ (j - 1) + 1 = j
    BY <1>1, <1>5
  <2>2. d[j - 1] = s[j]
    BY <1>2, <2>1
  <2> QED
    BY <1>3, <2>1, <2>2 DEF d
<1> QED
  BY <1>1, <1>4, <1>5

LEMMA PushFrontKeeps ==
  ASSUME NEW S, NEW s \in Seq(S), NEW e \in S, NEW j \in DOMAIN s
  PROVE  \E l \in DOMAIN (<<e>> \o s) : (<<e>> \o s)[l] = s[j]
<1> DEFINE d == <<e>> \o s
<1>1. Len(s) \in Nat /\ j \in 1 .. Len(s)
  OBVIOUS
<1>2. /\ d \in Seq(S) /\ Len(d) = Len(s) + 1
      /\ \A l \in 2 .. Len(s) + 1 : d[l] = s[l - 1]
  BY ZenonT(60), PushFrontFacts
<1> HIDE DEF d
<1>3. DOMAIN d = 1 .. Len(s) + 1
  BY <1>1, <1>2
<1>4. j + 1 \in 2 .. Len(s) + 1 /\ j + 1 \in 1 .. Len(s) + 1 /\ (j + 1) - 1 = j
  BY <1>1
<1> QED
  BY <1>2, <1>3, <1>4 DEF d

\* The keys and the sizes of a cache, as what BytesExact adds up.
LEMMA StoredFacts ==
  ASSUME NEW c, Sound(c)
  PROVE  Stored(c) \in [c.cache -> Nat] /\ IsFiniteSet(c.cache)
<1>1. \A k \in c.cache : ValueOf(c, k) \in Nat
  BY Zenon, ValueOfType, SizesAssumption
<1>2. IsFiniteSet(c.cache)
  <2> DEFINE n == Len(c.ll)
             f == [i \in 1 .. n |-> c.ll[i].key]
  <2>1. n \in Nat /\ DOMAIN c.ll = 1 .. n
    BY DEF Sound
  <2>2. c.cache = {c.ll[i].key : i \in 1 .. n}
    BY <2>1 DEF Sound
  <2>3. IsFiniteSet(1 .. n)
    BY <2>1, FS_Interval
  <2> HIDE DEF n
  <2>4. f \in Surjection(1 .. n, c.cache)
    BY <2>2 DEF Surjection
  <2> QED
    BY <2>3, <2>4, FS_Surjection
<1> QED
  BY <1>1, <1>2 DEF Stored

\* Cache.Get keeps every value.
LEMMA LruGetStored ==
  ASSUME NEW c, Sound(c), NEW k
  PROVE  Stored(LruGet(c, k)) = Stored(c)
<1>1. CASE k \notin c.cache
  BY <1>1 DEF LruGet
<1>2. CASE k \in c.cache
  <2> DEFINE i == At(c.ll, k)
             r == RemoveAt(c.ll, i)
             d == LruGet(c, k)
  <2>1. Sound(d) /\ d.cache = c.cache
    BY LruGetSound
  <2>2. i \in DOMAIN c.ll /\ c.ll \in Seq(Entries)
    BY <1>2, AtFacts DEF Sound
  <2>3. d.ll = <<c.ll[i]>> \o r
    BY Zenon, <1>2 DEF LruGet, MoveToFront, Sound
  <2> HIDE DEF i
  <2>4. c.ll[i] \in Entries /\ r \in Seq(Entries)
    BY <2>2, RemoveAtFacts
  <2>5. ASSUME NEW j \in DOMAIN c.ll
        PROVE  \E l \in DOMAIN d.ll : d.ll[l] = c.ll[j]
    <3>1. CASE j = i
      <4> HIDE DEF r
      <4>1. 1 \in DOMAIN (<<c.ll[i]>> \o r) /\ (<<c.ll[i]>> \o r)[1] = c.ll[i]
        BY <2>4
      <4> QED
        BY <2>3, <3>1, <4>1
    <3>2. CASE j # i
      <4>1. PICK l \in DOMAIN r : r[l] = c.ll[j]
        BY <2>2, <3>2, RemoveAtKeeps
      <4> HIDE DEF r, d
      <4>2. \E n \in DOMAIN (<<c.ll[i]>> \o r) : (<<c.ll[i]>> \o r)[n] = r[l]
        BY <2>4, PushFrontKeeps
      <4> QED
        BY <2>3, <4>1, <4>2
    <3> QED
      BY <3>1, <3>2
  <2> HIDE DEF d, r
  <2>6. ASSUME NEW x \in c.cache PROVE ValueOf(d, x) = ValueOf(c, x)
    <3>1. PICK j \in DOMAIN c.ll : c.ll[j].key = x
      BY AtFacts
    <3>2. PICK l \in DOMAIN d.ll : d.ll[l] = c.ll[j]
      BY <2>5
    <3> QED
      BY <2>1, <3>1, <3>2, SameEntry
  <2>7. Stored(d) = Stored(c)
    BY <2>1, <2>6 DEF Stored
  <2> QED
    BY <2>7 DEF d
<1> QED
  BY <1>1, <1>2

\* Cache.Add of a missing key adds the size of the value.
LEMMA LruAddStored ==
  ASSUME NEW c, Sound(c), NEW k \in Keys, NEW v \in Sizes, k \notin c.cache
  PROVE  SumFunction(Stored(LruAdd(c, k, v))) = SumFunction(Stored(c)) + v
<1> DEFINE d == LruAdd(c, k, v)
           e == [key |-> k, value |-> v]
<1>1. Sound(d) /\ d.cache = c.cache \cup {k}
  BY LruAddSound
<1>2. d.ll = <<e>> \o c.ll
  BY DEF LruAdd
<1>3. e \in Entries /\ c.ll \in Seq(Entries)
  BY DEF Entries, Sound
<1>4. 1 \in DOMAIN d.ll /\ d.ll[1] = e
  <2> HIDE DEF e, d
  <2>1. 1 \in DOMAIN (<<e>> \o c.ll) /\ (<<e>> \o c.ll)[1] = e
    BY <1>3
  <2> QED
    BY <1>2, <2>1
<1>5. e.key = k /\ e.value = v
  OBVIOUS
<1> HIDE DEF d, e
<1>6. ValueOf(d, k) = v
  <2>1. ValueOf(d, d.ll[1].key) = d.ll[1].value
    BY <1>1, <1>4, ValueAt
  <2> QED
    BY <1>4, <1>5, <2>1
<1>7. ASSUME NEW x \in c.cache PROVE ValueOf(d, x) = ValueOf(c, x)
  <2>1. PICK j \in DOMAIN c.ll : c.ll[j].key = x
    BY AtFacts
  <2>2. \E l \in DOMAIN (<<e>> \o c.ll) : (<<e>> \o c.ll)[l] = c.ll[j]
    BY <1>3, PushFrontKeeps
  <2>3. PICK l \in DOMAIN d.ll : d.ll[l] = c.ll[j]
    BY Zenon, <1>2, <2>2
  <2> QED
    BY <1>1, <2>1, <2>3, SameEntry
<1> DEFINE f == Stored(c)
           g == Stored(d)
<1>8. f \in [c.cache -> Int] /\ IsFiniteSet(c.cache)
  BY StoredFacts
<1>9. g \in [c.cache \cup {k} -> Int]
  <2>1. g \in [d.cache -> Nat]
    BY ZenonT(60), <1>1, StoredFacts
  <2> HIDE DEF g
  <2> QED
    BY <1>1, <2>1
<1>10. g[k] = v /\ \A x \in c.cache : g[x] = f[x]
  BY <1>1, <1>6, <1>7 DEF Stored
<1> HIDE DEF f, g
<1>11. SumFunction(g) = SumFunction(f) + g[k]
  BY <1>8, <1>9, <1>10, SumExtend
<1> QED
  BY <1>10, <1>11 DEF f, g, d

\* RemoveOldest takes the size of the last entry away.
LEMMA LruRemoveStored ==
  ASSUME NEW c, Sound(c), c.ll # <<>>
  PROVE  SumFunction(Stored(LruRemoveOldest(c)))
           = SumFunction(Stored(c)) - Last(c.ll).value
<1> DEFINE n == Len(c.ll)
           k == c.ll[n].key
           r == RemoveAt(c.ll, n)
           d == LruRemoveOldest(c)
<1>1. Sound(d)
  BY LruRemoveSound
<1>2. c.ll \in Seq(Entries) /\ n \in DOMAIN c.ll
  BY DEF Sound
<1>3. d.ll = r /\ d.cache = c.cache \ {k}
  BY DEF LruRemoveOldest, removeElement
<1>4. Last(c.ll) = c.ll[n]
  BY DEF Last
<1> HIDE DEF n, d
<1>5. k \in c.cache /\ ValueOf(c, k) = c.ll[n].value
  BY <1>2, ValueAt
<1>6. ASSUME NEW x \in c.cache \ {k} PROVE ValueOf(c, x) = ValueOf(d, x)
  <2>1. PICK j \in DOMAIN c.ll : c.ll[j].key = x
    BY AtFacts
  <2>2. j # n
    BY <2>1
  <2>3. PICK l \in DOMAIN r : r[l] = c.ll[j]
    BY <1>2, <2>2, RemoveAtKeeps
  <2> HIDE DEF r
  <2> QED
    BY SMTT(30), <1>1, <1>3, <2>1, <2>3, SameEntry
<1> HIDE DEF r, k
<1> DEFINE f == Stored(c)
           g == Stored(d)
<1>7. f \in [c.cache -> Int] /\ IsFiniteSet(c.cache)
  BY StoredFacts
<1>8. g \in [d.cache -> Int]
  BY <1>1, StoredFacts
<1>9. f[k] = c.ll[n].value
  BY <1>5 DEF Stored
<1>10. \A x \in d.cache : g[x] = f[x]
  BY <1>3, <1>6 DEF Stored
<1> HIDE DEF f, g
<1>11. SumFunction(g) = SumFunction(f) - f[k]
  <2> DEFINE C == c.cache
             D == d.cache
  <2>1. IsFiniteSet(C) /\ f \in [C -> Int] /\ k \in C
    BY <1>5, <1>7
  <2>2. D = C \ {k} /\ g \in [D -> Int] /\ \A x \in D : g[x] = f[x]
    BY <1>3, <1>8, <1>10
  <2> HIDE DEF C, D
  <2> QED
    BY ONLY <2>1, <2>2, SumRemove
<1> QED
  BY <1>4, <1>9, <1>11 DEF f, g, d

-----------------------------------------------------------------------------
(* The inductive invariant. *)

\* The types, with sound caches; that nbytes is never negative rests on
\* BytesExact, and is proved last.
Types ==
  /\ lru = [c \in Caches |-> lru[c]] /\ \A c \in Caches : Sound(lru[c])
  /\ nbytes \in [Caches -> Int]
  /\ m \in [Keys -> Sessions \cup {None}]
  /\ done \in [Sessions -> BOOLEAN]
  /\ val \in [Sessions -> Vals]
  /\ Stats \in [StatNames -> Nat]
  /\ pc \in [Sessions -> PCs]
  /\ key \in [Sessions -> Keys \cup {None}]
  /\ joined \in [Sessions -> Sessions \cup {None}]
  /\ got \in [Sessions -> Vals]
  /\ value \in [Sessions -> Vals]
  /\ into \in [Sessions -> Caches]
  /\ mainBytes \in [Sessions -> Int]

\* A call of Get has a key until it returns, and what is stored has a size.
Local(s) ==
  /\ pc[s] \notin {"idle", "end"} => key[s] \in Keys
  /\ pc[s] = "add" \/ Populating(s) => value[s] \in Sizes

\* The map of loadGroup has the leader of every load.
Registered(s) ==
  Leading(s) \/ pc[s] = "panicked" => m[key[s]] = s /\ joined[s] = s

\* A call that is done has a result, and who joined it returns that.
Results(s) ==
  /\ pc[s] \in {"idle", "main1", "hot1", "load"} => joined[s] = None
  /\ pc[s] = "wait" => joined[s] \in Sessions
  /\ pc[s] = "delete" => done[s]
  /\ done[s] => pc[s] \in {"delete", "end"} /\ val[s] # Unset
  /\ pc[s] = "end" /\ joined[s] # None =>
       done[joined[s]] /\ got[s] = val[joined[s]]

LoadInv == \A s \in Sessions : Local(s) /\ Registered(s) /\ Results(s)

\* The sizes are positive numbers, and None is no session.
LEMMA Constants ==
  /\ Sizes \subseteq Vals /\ Err \in Vals /\ Unset \notin Sizes /\ Err # Unset
  /\ \A v \in Sizes : v \in Int /\ v > 0
  /\ None \notin Sessions
BY SizesAssumption, NoneAssumption DEF Vals, Err, Unset

\* A lookup keeps the keys of every cache.
LEMMA TouchFacts ==
  ASSUME Types, NEW c \in Caches, NEW k, Touch(c, k)
  PROVE  /\ lru' = [d \in Caches |-> lru'[d]]
         /\ \A d \in Caches : Sound(lru'[d]) /\ lru'[d].cache = lru[d].cache
<1>1. Sound(LruGet(lru[c], k)) /\ LruGet(lru[c], k).cache = lru[c].cache
  BY LruGetSound DEF Types
<1>2. CASE lru' = lru
  BY <1>2 DEF Types
<1>3. CASE lru' = [lru EXCEPT ![c] = LruGet(lru[c], k)]
  <2>1. \A d \in Caches : lru'[d] = IF d = c THEN LruGet(lru[c], k) ELSE lru[d]
    BY <1>3 DEF Types
  <2>2. lru' = [d \in Caches |-> lru'[d]]
    BY <1>3 DEF Types
  <2> QED
    BY <1>1, <2>1, <2>2 DEF Types
<1> QED
  BY <1>2, <1>3 DEF Touch

\* What a hit returns.
LEMMA HitFacts ==
  ASSUME Types, NEW c \in Caches, NEW k, Hit(c, k)
  PROVE  ValueOf(lru[c], k) \in Sizes
BY ValueOfType DEF Types, Hit

\* The counters stay natural numbers.
LEMMA CountType ==
  ASSUME Types, NEW names, Count(names)
  PROVE  Stats' \in [StatNames -> Nat]
BY DEF Types, Count

-----------------------------------------------------------------------------
\* Get has returned: the local variables of s are of their types.
LEMMA ReturnType ==
  ASSUME Types, NEW s \in Sessions, NEW v \in Vals, Return(s, v)
  PROVE  /\ got' \in [Sessions -> Vals] /\ key' \in [Sessions -> Keys \cup {None}]
         /\ value' \in [Sessions -> Vals] /\ into' \in [Sessions -> Caches]
         /\ mainBytes' \in [Sessions -> Int] /\ pc' \in [Sessions -> PCs]
BY DEF Types, Return, Goto, PCs, Caches, Vals

\* The function given to loadGroup.Do has returned.
LEMMA FnReturnsType ==
  ASSUME Types, NEW s \in Sessions, NEW v \in Vals, FnReturns(s, v)
  PROVE  /\ val' \in [Sessions -> Vals] /\ done' \in [Sessions -> BOOLEAN]
         /\ pc' \in [Sessions -> PCs]
BY SMTT(30) DEF Types, FnReturns, Goto, PCs

\* Every step keeps the types and the soundness of the caches.
LEMMA TypesStep ==
  ASSUME Types, LoadInv, [Next]_vars
  PROVE  Types'
<1> USE DEF caches, flight, populating
<1>1. ASSUME NEW s \in Sessions, NEW k \in Asks[s], Get(s, k)
      PROVE  Types'
  <2>1. k \in Keys
    BY AsksAssumption
  <2> QED
    BY <1>1, <2>1, CountType DEF Types, Get, Goto, PCs
<1>2. ASSUME NEW s \in Sessions, GetNilDest(s)
      PROVE  Types'
  BY <1>2, CountType, ReturnType, Constants DEF Types, GetNilDest
<1>3. ASSUME NEW s \in Sessions, NEW here, NEW c \in Caches, NEW miss \in PCs,
             Lookup(s, here, c, miss)
      PROVE  Types'
  <2>1. /\ lru' = [d \in Caches |-> lru'[d]]
        /\ \A d \in Caches : Sound(lru'[d])
    BY SMTT(30), <1>3, TouchFacts DEF Lookup
  <2>2. UNCHANGED <<nbytes, flight, remote, joined>>
    BY <1>3 DEF Lookup
  <2>3. CASE Hit(c, key[s])
    <3>1. ValueOf(lru[c], key[s]) \in Vals
      BY SMTT(30), <2>3, HitFacts, Constants
    <3>2. Return(s, ValueOf(lru[c], key[s])) /\ Count({"CacheHits"})
      BY <1>3, <2>3 DEF Lookup
    <3> QED
      BY SMTT(30), <2>1, <2>2, <3>1, <3>2, CountType, ReturnType DEF Types
  <2>4. CASE ~Hit(c, key[s])
    BY SMTT(30), <1>3, <2>1, <2>2, <2>4 DEF Types, Lookup, Goto
  <2> QED
    BY <2>3, <2>4
<1>4. ASSUME NEW s \in Sessions, Load(s)
      PROVE  Types'
  <2>1. key[s] \in Keys /\ m[key[s]] \in Sessions \cup {None}
    BY <1>4 DEF Types, LoadInv, Local, Load
  <2> QED
    BY SMTT(30), <1>4, <2>1, CountType DEF Types, Load, Goto, PCs
<1>5. ASSUME NEW s \in Sessions, Wait(s)
      PROVE  Types'
  <2>1. val[joined[s]] \in Vals
    BY SMTT(30), <1>5 DEF Types, LoadInv, Results, Wait
  <2> QED
    BY SMTT(30), <1>5, <2>1, ReturnType DEF Types, Wait
<1>6. ASSUME NEW s \in Sessions, NEW here, NEW c \in Caches, NEW miss \in PCs,
             NEW counted, Relookup(s, here, c, miss, counted)
      PROVE  Types'
  <2>1. /\ lru' = [d \in Caches |-> lru'[d]]
        /\ \A d \in Caches : Sound(lru'[d])
    BY SMTT(30), <1>6, TouchFacts DEF Relookup
  <2>2. UNCHANGED <<nbytes, m, remote, key, joined, got, populating>>
    BY SMTT(30), <1>6 DEF Relookup
  <2>3. CASE Hit(c, key[s])
    <3>1. ValueOf(lru[c], key[s]) \in Vals
      BY <2>3, HitFacts, Constants
    <3>2. FnReturns(s, ValueOf(lru[c], key[s])) /\ Count({"CacheHits"})
      BY SMTT(30), <1>6, <2>3 DEF Relookup
    <3> QED
      BY SMTT(30), <2>1, <2>2, <3>1, <3>2, CountType, FnReturnsType DEF Types
  <2>4. CASE ~Hit(c, key[s])
    BY SMTT(30), <1>6, <2>1, <2>2, <2>4, CountType DEF Types, Relookup, Goto
  <2> QED
    BY <2>3, <2>4
<1>7. ASSUME NEW s \in Sessions, PickPeer(s)
      PROVE  Types'
  BY <1>7 DEF Types, PickPeer, Goto, PCs
<1>8. ASSUME NEW s \in Sessions, PeerFails(s)
      PROVE  Types'
  BY <1>8, CountType DEF Types, PeerFails, Goto, PCs
<1>9. ASSUME NEW s \in Sessions, LocalFails(s)
      PROVE  Types'
  BY SMTT(30), <1>9, CountType, FnReturnsType, Constants DEF Types, LocalFails
<1>10. ASSUME NEW s \in Sessions, LocalPanics(s)
      PROVE  Types'
  BY <1>10 DEF Types, LocalPanics, Goto, PCs
<1>11. ASSUME NEW s \in Sessions, NEW v \in Sizes, PeerAnswers(s, v)
      PROVE  Types'
  BY SMTT(30), <1>11, CountType, FnReturnsType, Constants DEF Types, PeerAnswers
<1>12. ASSUME NEW s \in Sessions, NEW v \in Sizes,
              PeerAnswersPopular(s, v) \/ LocalLoads(s, v)
      PROVE  Types'
  <2>1. v \in Vals
    BY Constants
  <2> QED
    BY <1>12, <2>1, CountType DEF Types, PeerAnswersPopular, LocalLoads, Populate,
                                  Goto, PCs, Caches
<1>13. ASSUME NEW s \in Sessions, CacheAdd(s)
      PROVE  Types'
  <2>1. UNCHANGED <<m, remote, key, joined, got, populating>> /\ pc[s] = "add"
    BY <1>13 DEF CacheAdd
  <2>2. CASE CacheBytes <= 0
    <3>1. FnReturns(s, value[s]) /\ Stats' \in [StatNames -> Nat] /\ UNCHANGED caches
      BY <1>13, <2>2, CountType DEF CacheAdd, Populated
    <3>2. value[s] \in Vals
      BY DEF Types
    <3> QED
      BY SMTT(30), <2>1, <3>1, <3>2, FnReturnsType DEF Types
  <2>3. CASE ~(CacheBytes <= 0)
    <3> DEFINE c == into[s]
    <3>1. c \in Caches /\ key[s] \in Keys /\ value[s] \in Sizes
      BY <2>1 DEF Types, LoadInv, Local
    <3>2. Sound(LruAdd(lru[c], key[s], value[s]))
      BY SMTT(30), <3>1, LruAddSound DEF Types
    <3>3. lru' = [lru EXCEPT ![c] = LruAdd(lru[c], key[s], value[s])]
      BY <1>13, <2>3 DEF CacheAdd
    <3>4. nbytes' = [nbytes EXCEPT ![c] = nbytes[c] + value[s]]
      BY <1>13, <2>3 DEF CacheAdd
    <3>5. Goto(s, "readMain") /\ UNCHANGED <<done, val, Stats>>
      BY <1>13, <2>3 DEF CacheAdd
    <3> HIDE DEF c
    <3>6. lru' = [d \in Caches |-> lru'[d]] /\ \A d \in Caches : Sound(lru'[d])
      BY <3>1, <3>2, <3>3 DEF Types
    <3>7. nbytes' \in [Caches -> Int]
      BY SMTT(30), <3>1, <3>4, Constants DEF Types
    <3> QED
      BY SMTT(30), <2>1, <3>5, <3>6, <3>7 DEF Types, Goto, PCs
  <2> QED
    BY <2>2, <2>3
<1>14. ASSUME NEW s \in Sessions, ReadMainBytes(s)
      PROVE  Types'
  <2>1. nbytes["main"] \in Int
    BY DEF Types, Caches
  <2> QED
    BY <1>14, <2>1 DEF Types, ReadMainBytes, Goto, PCs
<1>15. ASSUME NEW s \in Sessions, ReadHotBytes(s)
      PROVE  Types'
  <2>1. UNCHANGED <<caches, m, remote, key, joined, got, populating>>
    BY <1>15 DEF ReadHotBytes
  <2>2. CASE Fits(s)
    <3>1. FnReturns(s, value[s]) /\ Stats' \in [StatNames -> Nat]
      BY SMTT(30), <1>15, <2>2, CountType DEF ReadHotBytes, Populated
    <3>2. value[s] \in Vals
      BY DEF Types
    <3> QED
      BY SMTT(30), <2>1, <3>1, <3>2, FnReturnsType DEF Types
  <2>3. CASE ~Fits(s)
    BY SMTT(30), <1>15, <2>1, <2>3 DEF Types, ReadHotBytes, Victim, Goto, PCs
  <2> QED
    BY <2>2, <2>3
<1>16. ASSUME NEW s \in Sessions, NEW here, NEW c \in Caches, RemoveOldest(s, here, c)
      PROVE  Types'
  <2>1. Sound(LruRemoveOldest(lru[c])) /\ (lru[c].ll # <<>> => Last(lru[c].ll).value \in Int)
    BY SMTT(30), LruRemoveSound, Constants DEF Types
  <2>2. lru' = [lru EXCEPT ![c] = LruRemoveOldest(lru[c])]
    BY <1>16 DEF RemoveOldest
  <2>3. lru' = [d \in Caches |-> lru'[d]] /\ \A d \in Caches : Sound(lru'[d])
    BY ZenonT(60), <2>1, <2>2 DEF Types
  <2>4. nbytes' \in [Caches -> Int]
    BY <1>16, <2>1 DEF Types, RemoveOldest
  <2> QED
    BY <1>16, <2>3, <2>4 DEF Types, RemoveOldest, Goto, PCs
<1>17. ASSUME NEW s \in Sessions, Delete(s)
      PROVE  Types'
  <2>1. key[s] \in Keys /\ val[s] \in Vals
    BY <1>17 DEF Types, LoadInv, Local, Delete
  <2> QED
    BY SMTT(30), <1>17, <2>1, ReturnType DEF Types, Delete
<1>18. ASSUME NEW r \in Rings, Set(r)
      PROVE  Types'
  BY <1>18 DEF Types, Set
<1>19. CASE UNCHANGED vars
  BY <1>19 DEF Types, vars
<1> QED
  BY SMTT(30), <1>1, <1>2, <1>3, <1>4, <1>5, <1>6, <1>7, <1>8, <1>9, <1>10, <1>11, <1>12, <1>13,
     <1>14, <1>15, <1>16, <1>17, <1>18, <1>19 DEF Next, Step, Caches, PCs

-----------------------------------------------------------------------------
\* A step of s leaves the other sessions alone.
Others(s) ==
  \A t \in Sessions : t # s =>
    /\ pc'[t] = pc[t] /\ key'[t] = key[t] /\ value'[t] = value[t]
    /\ joined'[t] = joined[t] /\ got'[t] = got[t]
    /\ done'[t] = done[t] /\ val'[t] = val[t]

\* What a step of s has to keep for the loads of the other sessions: their
\* entries in the map, and the result of s once it is there.
LEMMA LoadFrame ==
  ASSUME Types, LoadInv, NEW s \in Sessions, Others(s),
         \A t \in Sessions : t # s /\ m[key[t]] = t => m'[key[t]] = t,
         done[s] => done'[s] /\ val'[s] = val[s],
         Local(s)', Registered(s)', Results(s)'
  PROVE  LoadInv'
<1> SUFFICES ASSUME NEW t \in Sessions, t # s
             PROVE  Local(t)' /\ Registered(t)' /\ Results(t)'
  BY DEF LoadInv
<1>0. Local(t) /\ Registered(t) /\ Results(t)
  BY DEF LoadInv
<1>1. Local(t)'
  BY SMTT(30), <1>0 DEF Local, Others, Populating
<1>2. Registered(t)'
  BY SMTT(30), <1>0 DEF Registered, Others, Leading, Loading, Populating
<1>3. done[joined[t]] /\ joined[t] \in Sessions =>
        done'[joined[t]] /\ val'[joined[t]] = val[joined[t]]
  BY SMTT(30) DEF Others
<1>4. Results(t)'
  <2>1. joined[t] \in Sessions \cup {None}
    BY DEF Types
  <2> QED
    BY <1>0, <1>3, <2>1 DEF Results, Others
<1> QED
  BY SMTT(30), <1>1, <1>2, <1>4

\* The result of a session that has not got to the end is not there yet.
LEMMA NotDone ==
  ASSUME Types, LoadInv, NEW s \in Sessions, pc[s] \notin {"delete", "end"}
  PROVE  ~done[s]
BY DEF LoadInv, Results

\* The steps within a load that s leads, up to the return of the function.
LEMMA LeadStep ==
  ASSUME Types, LoadInv, NEW s \in Sessions, Leading(s), pc[s] # "delete",
         UNCHANGED <<m, done, val, key, joined, got>>,
         NEW l \in PCs, Goto(s, l), l \notin {"idle", "main1", "hot1", "load", "wait",
                                            "delete", "end"},
         \A t \in Sessions : t # s => value'[t] = value[t],
         l = "add" \/ l \in {"readMain", "readHot", "evictMain", "evictHot"}
           => value'[s] \in Sizes
  PROVE  LoadInv'
<1>1. pc' = [pc EXCEPT ![s] = l] /\ pc'[s] = l
  BY DEF Goto, Types
<1>2. Others(s)
  BY <1>1 DEF Others, Types
<1>3. pc[s] \notin {"idle", "end", "wait", "delete"}
  BY DEF Leading, Loading, Populating
<1>4. Local(s) /\ Registered(s) /\ Results(s)
  BY DEF LoadInv
<1>5. Local(s)'
  BY SMTT(30), <1>1, <1>3, <1>4 DEF Local, Populating
<1>6. Registered(s)'
  BY SMTT(30), <1>1, <1>4 DEF Registered
<1>7. Results(s)'
  BY SMTT(30), <1>1, <1>3, <1>4 DEF Results
<1> QED
  BY SMTT(30), <1>2, <1>5, <1>6, <1>7, LoadFrame

\* The function of s returns v.
LEMMA FnStep ==
  ASSUME Types, LoadInv, NEW s \in Sessions, Leading(s), pc[s] # "delete",
         NEW v \in Vals, v # Unset, FnReturns(s, v),
         UNCHANGED <<m, key, joined, got, value>>
  PROVE  LoadInv'
<1>1. /\ pc' = [pc EXCEPT ![s] = "delete"] /\ pc'[s] = "delete"
      /\ val' = [val EXCEPT ![s] = v] /\ val'[s] = v
      /\ done' = [done EXCEPT ![s] = TRUE] /\ done'[s]
  BY DEF FnReturns, Goto, Types
<1>2. Others(s)
  BY <1>1 DEF Others, Types
<1>3. pc[s] \notin {"idle", "end", "wait", "delete"}
  BY DEF Leading, Loading, Populating
<1>4. Local(s) /\ Registered(s) /\ Results(s)
  BY DEF LoadInv
<1>5. Local(s)'
  BY SMTT(30), <1>1, <1>3, <1>4 DEF Local, Populating
<1>6. Registered(s)'
  BY SMTT(30), <1>1, <1>4 DEF Registered
<1>7. Results(s)'
  BY <1>1, <1>3, <1>4 DEF Results
<1>8. ~done[s]
  BY <1>3, NotDone
<1> QED
  BY SMTT(30), <1>2, <1>5, <1>6, <1>7, <1>8, LoadFrame

\* Get returns v, to a caller that joined no load or with the result of the
\* load it joined.
LEMMA ReturnStep ==
  ASSUME Types, LoadInv, NEW s \in Sessions, NEW v, Return(s, v),
         UNCHANGED <<done, val, joined>>, pc[s] # "end",
         \A t \in Sessions : t # s /\ m[key[t]] = t => m'[key[t]] = t,
         \/ joined[s] = None
         \/ joined[s] \in Sessions /\ done[joined[s]] /\ v = val[joined[s]]
  PROVE  LoadInv'
<1>1. /\ pc' = [pc EXCEPT ![s] = "end"] /\ pc'[s] = "end"
      /\ key' = [key EXCEPT ![s] = None]
      /\ got' = [got EXCEPT ![s] = v] /\ got'[s] = v
      /\ value' = [value EXCEPT ![s] = Unset]
  BY DEF Return, Goto, Types
<1>2. Others(s)
  BY <1>1 DEF Others, Types
<1>4. Local(s) /\ Registered(s) /\ Results(s)
  BY DEF LoadInv
<1>5. Local(s)' /\ Registered(s)'
  BY SMTT(30), <1>1 DEF Local, Registered, Leading, Loading, Populating
<1>6. Results(s)'
  BY SMTT(30), <1>1, <1>4 DEF Results
<1> QED
  BY SMTT(30), <1>2, <1>5, <1>6, LoadFrame

\* Every step keeps the loads in order.
LEMMA LoadStep ==
  ASSUME Types, LoadInv, [Next]_vars
  PROVE  LoadInv'
<1> USE DEF caches, flight, populating
<1>1. ASSUME NEW s \in Sessions, NEW k \in Asks[s], Get(s, k)
      PROVE  LoadInv'
  <2>1. k \in Keys
    BY AsksAssumption
  <2>2. /\ pc[s] = "idle" /\ pc'[s] = "main1" /\ key'[s] = k
        /\ UNCHANGED <<m, done, val, joined, got, value>>
    BY <1>1 DEF Types, Get, Goto
  <2>3. Others(s)
    BY <1>1, <2>2 DEF Others, Types, Get, Goto
  <2>4. Results(s)
    BY DEF LoadInv
  <2>5. Local(s)' /\ Registered(s)' /\ Results(s)'
    BY SMTT(30), <2>1, <2>2, <2>4 DEF Local, Registered, Results, Leading, Loading, Populating
  <2> QED
    BY SMTT(30), <2>2, <2>3, <2>5, LoadFrame
<1>2. ASSUME NEW s \in Sessions, GetNilDest(s)
      PROVE  LoadInv'
  <2>1. joined[s] = None
    BY <1>2 DEF GetNilDest, LoadInv, Results
  <2> QED
    BY SMTT(30), <1>2, <2>1, ReturnStep DEF GetNilDest
<1>3. ASSUME NEW s \in Sessions, NEW here \in {"main1", "hot1"}, NEW c \in Caches,
             NEW miss \in {"hot1", "load"}, Lookup(s, here, c, miss)
      PROVE  LoadInv'
  <2>1. pc[s] \in {"main1", "hot1"} /\ UNCHANGED <<m, done, val, joined>>
    BY <1>3 DEF Lookup
  <2>2. joined[s] = None /\ Local(s) /\ Results(s)
    BY SMTT(30), <2>1 DEF LoadInv, Results
  <2>3. CASE Hit(c, key[s])
    <3>1. Return(s, ValueOf(lru[c], key[s]))
      BY SMTT(30), <1>3, <2>3 DEF Lookup
    <3> QED
      BY SMTT(30), <2>1, <2>2, <3>1, ReturnStep
  <2>4. CASE ~Hit(c, key[s])
    <3>1. pc' = [pc EXCEPT ![s] = miss] /\ UNCHANGED <<key, got, value>>
      BY <1>3, <2>4 DEF Lookup, Goto
    <3>2. pc'[s] \in {"hot1", "load"}
      BY <3>1 DEF Types
    <3>3. Others(s)
      BY SMTT(30), <2>1, <3>1 DEF Others, Types
    <3>4. Local(s)' /\ Registered(s)' /\ Results(s)'
      BY SMTT(30), <2>1, <2>2, <3>1, <3>2 DEF Local, Registered, Results, Leading, Loading, Populating
    <3> QED
      BY SMTT(30), <2>1, <3>3, <3>4, LoadFrame
  <2> QED
    BY SMTT(30), <2>3, <2>4
<1>4. ASSUME NEW s \in Sessions, Load(s)
      PROVE  LoadInv'
  <2> DEFINE k == key[s]
  <2>1. /\ pc[s] = "load" /\ UNCHANGED <<done, val, key, got, value>>
        /\ Local(s) /\ Results(s) /\ k \in Keys /\ m[k] \in Sessions \cup {None}
    BY SMTT(30), <1>4 DEF Load, LoadInv, Local, Types
  <2>2. ~done[s]
    BY SMTT(30), <2>1, NotDone
  <2>3. CASE m[k] # None
    <3>1. /\ joined' = [joined EXCEPT ![s] = m[k]] /\ m' = m
          /\ pc' = [pc EXCEPT ![s] = "wait"]
      BY <1>4, <2>3 DEF Load, Goto
    <3>2. joined'[s] \in Sessions /\ pc'[s] = "wait"
      BY SMTT(30), <2>1, <2>3, <3>1 DEF Types
    <3>3. Others(s)
      BY SMTT(30), <2>1, <3>1 DEF Others, Types
    <3>4. Local(s)' /\ Registered(s)' /\ Results(s)'
      BY SMTT(30), <2>1, <2>2, <3>2 DEF Local, Registered, Results, Leading, Loading, Populating
    <3> QED
      BY SMTT(30), <2>1, <3>1, <3>3, <3>4, LoadFrame
  <2>4. CASE m[k] = None
    <3>1. /\ joined' = [joined EXCEPT ![s] = s] /\ m' = [m EXCEPT ![k] = s]
          /\ pc' = [pc EXCEPT ![s] = "main2"]
      BY <1>4, <2>4 DEF Load, Goto
    <3>2. joined'[s] = s /\ pc'[s] = "main2" /\ m'[k] = s
      BY <2>1, <3>1 DEF Types
    <3>3. Others(s)
      BY SMTT(30), <2>1, <3>1 DEF Others, Types
    <3>4. Local(s)' /\ Results(s)'
      BY SMTT(30), <2>1, <2>2, <3>2 DEF Local, Results, Populating
    <3>5. Registered(s)'
      BY <2>1, <3>2 DEF Registered
    <3>6. \A t \in Sessions : t # s /\ m[key[t]] = t => m'[key[t]] = t
      BY SMTT(30), <2>4, <3>1, Constants DEF Types
    <3> QED
      BY SMTT(30), <2>1, <3>3, <3>4, <3>5, <3>6, LoadFrame
  <2> QED
    BY <2>3, <2>4
<1>5. ASSUME NEW s \in Sessions, Wait(s)
      PROVE  LoadInv'
  <2>1. pc[s] = "wait" /\ joined[s] \in Sessions
    BY <1>5 DEF Wait, LoadInv, Results
  <2> QED
    BY SMTT(30), <1>5, <2>1, ReturnStep DEF Wait
<1>6. ASSUME NEW s \in Sessions, NEW here \in {"main2", "hot2"}, NEW c \in Caches,
             NEW miss \in {"hot2", "pick"}, NEW counted, Relookup(s, here, c, miss, counted)
      PROVE  LoadInv'
  <2>1. /\ Leading(s) /\ pc[s] # "delete"
        /\ UNCHANGED <<m, key, joined, got, value>>
    BY SMTT(30), <1>6 DEF Relookup, Leading
  <2>2. CASE Hit(c, key[s])
    <3>1. FnReturns(s, ValueOf(lru[c], key[s]))
      BY SMTT(30), <1>6, <2>2 DEF Relookup
    <3>2. ValueOf(lru[c], key[s]) \in Vals /\ ValueOf(lru[c], key[s]) # Unset
      BY SMTT(30), <2>2, HitFacts, Constants
    <3> QED
      BY SMTT(30), <2>1, <3>1, <3>2, FnStep
  <2>3. CASE ~Hit(c, key[s])
    <3>1. Goto(s, miss) /\ UNCHANGED <<val, done>> /\ miss \in PCs
      BY <1>6, <2>3 DEF Relookup, PCs
    <3> QED
      BY SMTT(30), <2>1, <3>1, LeadStep
  <2> QED
    BY SMTT(30), <2>2, <2>3
<1>7. ASSUME NEW s \in Sessions,
             PickPeer(s) \/ PeerFails(s) \/ LocalPanics(s)
      PROVE  LoadInv'
  <2>1. /\ Leading(s) /\ pc[s] # "delete"
        /\ UNCHANGED <<m, done, val, key, joined, got, value>>
    BY <1>7 DEF PickPeer, PeerFails, LocalPanics, Leading, Loading
  <2>2. \E l \in {"peer", "local", "panicked"} : Goto(s, l)
    BY <1>7 DEF PickPeer, PeerFails, LocalPanics
  <2>3. {"peer", "local", "panicked"} \subseteq PCs
    BY DEF PCs
  <2> QED
    BY SMTT(30), <2>1, <2>2, <2>3, LeadStep
<1>8. ASSUME NEW s \in Sessions, NEW v \in Sizes, PeerAnswers(s, v)
      PROVE  LoadInv'
  <2>1. /\ Leading(s) /\ pc[s] # "delete"
        /\ UNCHANGED <<m, key, joined, got, value>>
    BY <1>8 DEF PeerAnswers, Leading, Loading
  <2>2. \E w \in Vals : w # Unset /\ FnReturns(s, w)
    BY <1>8, Constants DEF PeerAnswers
  <2> QED
    BY <2>1, <2>2, FnStep
<1>9. ASSUME NEW s \in Sessions, NEW v \in Sizes,
             PeerAnswersPopular(s, v) \/ LocalLoads(s, v)
      PROVE  LoadInv'
  <2>1. /\ Leading(s) /\ pc[s] # "delete"
        /\ UNCHANGED <<m, done, val, key, joined, got>>
    BY <1>9 DEF PeerAnswersPopular, LocalLoads, Leading, Loading
  <2>2. Goto(s, "add") /\ value' = [value EXCEPT ![s] = v] /\ "add" \in PCs
    BY <1>9 DEF PeerAnswersPopular, LocalLoads, Populate, PCs
  <2>3. value'[s] \in Sizes /\ \A t \in Sessions : t # s => value'[t] = value[t]
    BY <2>2 DEF Types
  <2> QED
    BY SMTT(30), <2>1, <2>2, <2>3, LeadStep
<1>10. ASSUME NEW s \in Sessions, CacheAdd(s) \/ ReadHotBytes(s)
      PROVE  LoadInv'
  <2>1. /\ Leading(s) /\ pc[s] # "delete"
        /\ UNCHANGED <<m, key, joined, got, value>>
    BY SMTT(30), <1>10 DEF CacheAdd, ReadHotBytes, Leading, Loading, Populating
  <2>2. value[s] \in Sizes
    BY SMTT(30), <1>10 DEF CacheAdd, ReadHotBytes, LoadInv, Local, Populating
  <2>3. \/ FnReturns(s, value[s])
        \/ \E l \in {"readMain", "evictMain", "evictHot"} :
             Goto(s, l) /\ UNCHANGED <<done, val>>
    BY <1>10 DEF CacheAdd, ReadHotBytes, Populated, Victim
  <2>4. CASE FnReturns(s, value[s])
    BY SMTT(30), <2>1, <2>2, <2>4, FnStep, Constants
  <2>5. ASSUME NEW l \in {"readMain", "evictMain", "evictHot"},
               Goto(s, l), UNCHANGED <<done, val>>
        PROVE  LoadInv'
    <3>1. l \in PCs
      BY DEF PCs
    <3> QED
      BY SMTT(30), <2>1, <2>2, <2>5, <3>1, LeadStep
  <2> QED
    BY SMTT(30), <2>3, <2>4, <2>5
<1>11. ASSUME NEW s \in Sessions,
              NEW here \in {"evictMain", "evictHot"}, NEW c,
              ReadMainBytes(s) \/ RemoveOldest(s, here, c)
      PROVE  LoadInv'
  <2>1. /\ Leading(s) /\ pc[s] # "delete"
        /\ UNCHANGED <<m, done, val, key, joined, got, value>>
    BY SMTT(30), <1>11 DEF ReadMainBytes, RemoveOldest, Leading, Loading, Populating
  <2>2. value[s] \in Sizes
    BY SMTT(30), <1>11 DEF ReadMainBytes, RemoveOldest, LoadInv, Local, Populating
  <2>3. \E l \in {"readHot", "readMain"} : Goto(s, l)
    BY <1>11 DEF ReadMainBytes, RemoveOldest
  <2>4. {"readHot", "readMain"} \subseteq PCs
    BY DEF PCs
  <2> QED
    BY SMTT(30), <2>1, <2>2, <2>3, <2>4, LeadStep
<1>12. ASSUME NEW s \in Sessions, Delete(s)
      PROVE  LoadInv'
  <2>1. /\ pc[s] = "delete" /\ UNCHANGED <<done, val, joined>>
        /\ m' = [m EXCEPT ![key[s]] = None] /\ Return(s, val[s])
    BY SMTT(30), <1>12 DEF Delete
  <2>2. joined[s] = s /\ m[key[s]] = s /\ done[s]
    BY <2>1 DEF LoadInv, Registered, Results, Leading
  <2>3. \A t \in Sessions : t # s /\ m[key[t]] = t => m'[key[t]] = t
    BY SMTT(30), <2>1, <2>2 DEF Types
  <2> QED
    BY SMTT(30), <2>1, <2>2, <2>3, ReturnStep
<1>13. ASSUME NEW r \in Rings, Set(r)
      PROVE  LoadInv'
  BY SMTT(30), <1>13 DEF Set, LoadInv, Local, Registered, Results, Leading, Loading, Populating
<1>14. CASE UNCHANGED vars
  BY <1>14 DEF vars, LoadInv, Local, Registered, Results, Leading, Loading, Populating
<1>15. ASSUME NEW s \in Sessions, Step(s)
      PROVE  LoadInv'
  <2>1. CASE LocalFails(s)
    <3>1. Leading(s) /\ pc[s] # "delete" /\ UNCHANGED <<m, key, joined, got, value>>
      BY <2>1 DEF LocalFails, Leading, Loading
    <3> QED
      BY SMTT(30), <2>1, <3>1, FnStep, Constants DEF LocalFails
  <2> QED
    BY SMTT(30), <1>3, <1>4, <1>5, <1>6, <1>7, <1>8, <1>9, <1>10, <1>11, <1>12, <1>15, <2>1
    DEF Step, Caches
<1> QED
  BY SMTT(30), <1>1, <1>2, <1>13, <1>14, <1>15 DEF Next

-----------------------------------------------------------------------------
\* The caches of a new group are empty, and nobody has called Get.
LEMMA InitLoad == Init => Types /\ LoadInv
<1> SUFFICES ASSUME Init PROVE Types /\ LoadInv
  OBVIOUS
<1>1. Sound(LruNew)
  BY DEF Sound, LruNew
<1>2. \A c \in Caches : lru[c] = LruNew
  BY DEF Init
<1>3. Types
  BY <1>1, <1>2 DEF Types, Init, Vals, PCs, Caches
<1>4. \A s \in Sessions :
        /\ pc[s] = "idle" /\ joined[s] = None /\ ~done[s] /\ ~Populating(s)
        /\ ~Leading(s)
  BY DEF Init, Leading, Loading, Populating
<1> QED
  BY <1>3, <1>4 DEF LoadInv, Local, Registered, Results

\* The caches are sound, the leader of every load is in the map of loadGroup,
\* and a call that is done has its result.
THEOREM LoadInvariance == Spec => [](Types /\ LoadInv)
<1>1. Types /\ LoadInv /\ [Next]_vars => (Types /\ LoadInv)'
  BY TypesStep, LoadStep
<1> QED
  BY <1>1, InitLoad, PTL DEF Spec

\* Two callers never load one key at the same time: load registers the leader
\* under the mutex of loadGroup, and only the leader removes it.
THEOREM LoadedOnce == Spec => []OneLoad
<1>1. Types /\ LoadInv => OneLoad
  BY SMTT(30) DEF LoadInv, Registered, OneLoad
<1> QED
  BY <1>1, LoadInvariance, PTL

\* Callers that share a load return what its leader got.
THEOREM Shared == Spec => []SameValue
<1>1. Types /\ LoadInv => SameValue
  <2> SUFFICES ASSUME Types, LoadInv,
                      NEW s \in Sessions, pc[s] = "end", joined[s] # None
               PROVE  got[s] = val[joined[s]] /\ got[s] # Unset
    BY DEF SameValue
  <2>1. joined[s] \in Sessions
    BY DEF Types
  <2> QED
    BY <2>1 DEF LoadInv, Results
<1> QED
  BY <1>1, LoadInvariance, PTL

-----------------------------------------------------------------------------
(* What the caches hold. *)

\* What a leader has not found in the caches is not in them until it adds it.
Missing(s) ==
  /\ pc[s] = "hot2" => key[s] \notin lru["main"].cache
  /\ pc[s] \in {"pick", "peer", "local", "add"} =>
       key[s] \notin lru["main"].cache /\ key[s] \notin lru["hot"].cache

Apart == lru["main"].cache \cap lru["hot"].cache = {}

\* A disabled cache stays empty.
Disabled ==
  CacheBytes <= 0 => /\ \A c \in Caches : lru[c].cache = {} /\ nbytes[c] = 0
                     /\ \A s \in Sessions : ~Populating(s)

Limit == IF CacheBytes > 0 THEN CacheBytes ELSE 0

\* A session that will find out that the caches are over the limit.
Notices(s) ==
  \/ pc[s] \in {"readMain", "evictMain", "evictHot"}
  \/ pc[s] = "readHot" /\ mainBytes[s] >= nbytes["main"]

\* While the caches are over the limit somebody will find out.
Noticed ==
  nbytes["main"] + nbytes["hot"] > Limit => \E s \in Sessions : Notices(s)

StoreInv == Apart /\ Disabled /\ \A s \in Sessions : Missing(s)

-----------------------------------------------------------------------------
\* A step that adds nothing to the caches, and enters populateCache only if
\* it was there.
LEMMA StoreFrame ==
  ASSUME StoreInv, NEW s \in Sessions,
         \A t \in Sessions : t # s => pc'[t] = pc[t] /\ key'[t] = key[t],
         \A c \in Caches : lru'[c].cache \subseteq lru[c].cache,
         Missing(s)', Populating(s)' => Populating(s),
         ~Populating(s) => nbytes' = nbytes
  PROVE  StoreInv'
<1>1. {"main", "hot"} = Caches
  BY DEF Caches
<1>2. Apart'
  BY <1>1 DEF StoreInv, Apart
<1>3. ASSUME NEW t \in Sessions
      PROVE  Missing(t)'
  BY SMTT(30), <1>1 DEF StoreInv, Missing
<1>4. Disabled'
  <2> SUFFICES ASSUME CacheBytes <= 0
               PROVE  /\ \A c \in Caches : lru'[c].cache = {} /\ nbytes'[c] = 0
                      /\ \A t \in Sessions : ~Populating(t)'
    BY DEF Disabled
  <2>1. /\ \A c \in Caches : lru[c].cache = {} /\ nbytes[c] = 0
        /\ \A t \in Sessions : ~Populating(t)
    BY DEF StoreInv, Disabled
  <2>2. \A t \in Sessions : t # s => ~Populating(t)'
    BY <2>1 DEF Populating
  <2> QED
    BY SMTT(30), <2>1, <2>2
<1> QED
  BY SMTT(30), <1>2, <1>3, <1>4 DEF StoreInv

\* A value is added to one cache by the only one that may add its key.
LEMMA AddStep ==
  ASSUME Types, LoadInv, StoreInv, NEW s \in Sessions, CacheAdd(s), CacheBytes > 0
  PROVE  StoreInv'
<1> DEFINE c == into[s]
<1> DEFINE k == key[s]
<1>1. pc[s] = "add" /\ pc'[s] = "readMain" /\ key' = key
  BY CacheBytesAssumption DEF CacheAdd, Goto, Types
<1>2. \A t \in Sessions : t # s => pc'[t] = pc[t]
  BY CacheBytesAssumption DEF CacheAdd, Goto, Types
<1>3. c \in Caches /\ k \in Keys /\ value[s] \in Sizes
  BY SMTT(30), <1>1 DEF Types, LoadInv, Local
<1>4. lru' = [lru EXCEPT ![c] = LruAdd(lru[c], k, value[s])]
  BY CacheBytesAssumption DEF CacheAdd
<1>5. LruAdd(lru[c], k, value[s]).cache = lru[c].cache \cup {k}
  BY <1>3, LruAddSound DEF Types
<1> HIDE DEF c, k
<1>6. \A d \in Caches : lru'[d].cache = IF d = c THEN lru[d].cache \cup {k}
                                             ELSE lru[d].cache
  BY ZenonT(60), <1>3, <1>4, <1>5 DEF Types
<1>7. k \notin lru["main"].cache /\ k \notin lru["hot"].cache
  BY <1>1 DEF StoreInv, Missing, k
<1>8. {"main", "hot"} = Caches
  BY DEF Caches
<1>9. Apart'
  BY ZenonT(60), <1>3, <1>6, <1>7, <1>8 DEF StoreInv, Apart
<1>10. ASSUME NEW t \in Sessions, t # s, pc[t] \in {"hot2", "pick", "peer", "local", "add"}
       PROVE  key[t] # k
  BY <1>1, <1>10 DEF LoadInv, Registered, Leading, Loading, k
<1>11. ASSUME NEW t \in Sessions
       PROVE  Missing(t)'
  <2>1. CASE t = s
    BY <1>1, <2>1 DEF Missing
  <2>2. CASE t # s
    BY ZenonT(60), <1>1, <1>2, <1>6, <1>8, <1>10, <2>2 DEF StoreInv, Missing
  <2> QED
    BY <2>1, <2>2
<1>12. Disabled'
  BY CacheBytesAssumption DEF Disabled
<1> QED
  BY SMTT(30), <1>9, <1>11, <1>12 DEF StoreInv

\* What was looked up and not found is not there.
LEMMA MissFacts ==
  ASSUME StoreInv, NEW c \in Caches, NEW k, ~Hit(c, k)
  PROVE  k \notin lru[c].cache
BY CacheBytesAssumption DEF StoreInv, Disabled, Hit

\* Every step keeps the caches apart.
LEMMA StoreStep ==
  ASSUME Types, LoadInv, StoreInv, [Next]_vars
  PROVE  StoreInv'
<1> USE DEF caches, flight, populating
<1>1. ASSUME NEW s \in Sessions, NEW l,
             pc' = [pc EXCEPT ![s] = l], ~Populating(s),
             l \in {"main1", "hot1", "load", "main2", "wait", "panicked", "delete", "end"},
             nbytes' = nbytes,
             \A t \in Sessions : t # s => key'[t] = key[t],
             \A c \in Caches : lru'[c].cache = lru[c].cache
      PROVE  StoreInv'
  <2>1. pc'[s] = l /\ \A t \in Sessions : t # s => pc'[t] = pc[t]
    BY <1>1 DEF Types
  <2>2. Missing(s)' /\ ~Populating(s)'
    BY <1>1, <2>1 DEF Missing, Populating
  <2> QED
    BY SMTT(30), <1>1, <2>1, <2>2, StoreFrame
<1>2. ASSUME NEW s \in Sessions, NEW k \in Asks[s], Get(s, k)
      PROVE  StoreInv'
  <2>1. \A t \in Sessions : t # s => key'[t] = key[t]
    BY <1>2 DEF Get, Types
  <2> QED
    BY ZenonT(60), <1>1, <1>2, <2>1 DEF Get, Goto, Populating
<1>3. ASSUME NEW s \in Sessions, NEW v, Return(s, v), ~Populating(s), nbytes' = nbytes,
             \A c \in Caches : lru'[c].cache = lru[c].cache
      PROVE  StoreInv'
  <2>1. \A t \in Sessions : t # s => key'[t] = key[t]
    BY SMTT(30), <1>3 DEF Return, Types
  <2> QED
    BY ZenonT(60), <1>1, <1>3, <2>1 DEF Return, Goto
<1>4. ASSUME NEW s \in Sessions, GetNilDest(s) \/ Wait(s) \/ Delete(s)
      PROVE  StoreInv'
  BY <1>3, <1>4 DEF GetNilDest, Wait, Delete, Populating
<1>5. ASSUME NEW s \in Sessions, NEW here \in {"main1", "hot1"}, NEW c \in Caches,
             NEW miss \in {"hot1", "load"}, Lookup(s, here, c, miss)
      PROVE  StoreInv'
  <2>1. \A d \in Caches : lru'[d].cache = lru[d].cache
    BY SMTT(30), <1>5, TouchFacts DEF Lookup
  <2>2. ~Populating(s) /\ nbytes' = nbytes
    BY SMTT(30), <1>5 DEF Lookup, Populating
  <2>3. CASE Hit(c, key[s])
    BY SMTT(30), <1>3, <1>5, <2>1, <2>2, <2>3 DEF Lookup
  <2>4. CASE ~Hit(c, key[s])
    BY SMTT(30), <1>1, <1>5, <2>1, <2>2, <2>4 DEF Lookup, Goto
  <2> QED
    BY <2>3, <2>4
<1>6. ASSUME NEW s \in Sessions, Load(s)
      PROVE  StoreInv'
  <2>1. \E l \in {"wait", "main2"} : pc' = [pc EXCEPT ![s] = l]
    BY <1>6 DEF Load, Goto
  <2> QED
    BY ZenonT(60), <1>1, <1>6, <2>1 DEF Load, Populating
<1>7. ASSUME NEW s \in Sessions, NEW v, FnReturns(s, v), ~Populating(s), nbytes' = nbytes,
             key' = key, \A c \in Caches : lru'[c].cache = lru[c].cache
      PROVE  StoreInv'
  BY ZenonT(60), <1>1, <1>7 DEF FnReturns, Goto
<1>8. ASSUME NEW s \in Sessions, NEW counted,
             \/ Relookup(s, "main2", "main", "hot2", counted)
             \/ Relookup(s, "hot2", "hot", "pick", counted)
      PROVE  StoreInv'
  <2> DEFINE c == IF pc[s] = "main2" THEN "main" ELSE "hot"
  <2> DEFINE miss == IF pc[s] = "main2" THEN "hot2" ELSE "pick"
  <2>1. c \in Caches /\ Relookup(s, pc[s], c, miss, counted)
    BY <1>8 DEF Caches, Relookup
  <2>2. \A d \in Caches : lru'[d].cache = lru[d].cache
    BY SMTT(30), <2>1, TouchFacts DEF Relookup
  <2>3. ~Populating(s) /\ nbytes' = nbytes /\ key' = key
    BY SMTT(30), <1>8 DEF Relookup, Populating
  <2>4. CASE Hit(c, key[s])
    BY SMTT(30), <1>7, <2>1, <2>2, <2>3, <2>4 DEF Relookup
  <2>5. CASE ~Hit(c, key[s])
    <3>1. pc' = [pc EXCEPT ![s] = miss]
      BY <2>1, <2>5 DEF Relookup, Goto
    <3>2. pc'[s] = miss /\ \A t \in Sessions : t # s => pc'[t] = pc[t]
      BY <3>1 DEF Types
    <3>3. key[s] \notin lru[c].cache
      BY SMTT(30), <2>1, <2>5, MissFacts
    <3>4. pc[s] = "main2" \/ (pc[s] = "hot2" /\ key[s] \notin lru["main"].cache)
      BY <1>8 DEF Relookup, StoreInv, Missing
    <3>5. Missing(s)' /\ ~Populating(s)'
      BY SMTT(30), <2>2, <2>3, <3>2, <3>3, <3>4 DEF Missing, Populating, Caches
    <3> QED
      BY SMTT(30), <2>2, <2>3, <3>2, <3>5, StoreFrame
  <2> QED
    BY SMTT(30), <2>4, <2>5
<1>9. ASSUME NEW s \in Sessions, NEW l,
             pc[s] \in {"pick", "peer", "local"}, l \in {"peer", "local", "add"},
             Goto(s, l), UNCHANGED <<key, lru, nbytes>>
      PROVE  StoreInv'
  <2>1. pc'[s] = l /\ \A t \in Sessions : t # s => pc'[t] = pc[t]
    BY <1>9 DEF Goto, Types
  <2>2. Missing(s)' /\ ~Populating(s)'
    BY SMTT(30), <1>9, <2>1 DEF StoreInv, Missing, Populating
  <2> QED
    BY SMTT(30), <1>9, <2>1, <2>2, StoreFrame
<1>10. ASSUME NEW s \in Sessions, PickPeer(s) \/ PeerFails(s)
      PROVE  StoreInv'
  BY SMTT(30), <1>9, <1>10 DEF PickPeer, PeerFails
<1>11. ASSUME NEW s \in Sessions, NEW v \in Sizes,
              PeerAnswersPopular(s, v) \/ LocalLoads(s, v)
      PROVE  StoreInv'
  BY <1>9, <1>11 DEF PeerAnswersPopular, LocalLoads, Populate
<1>12. ASSUME NEW s \in Sessions, NEW v, LocalFails(s) \/ PeerAnswers(s, v)
      PROVE  StoreInv'
  BY <1>7, <1>12 DEF LocalFails, PeerAnswers, Populating
<1>13. ASSUME NEW s \in Sessions, LocalPanics(s)
      PROVE  StoreInv'
  BY ZenonT(60), <1>1, <1>13 DEF LocalPanics, Goto, Populating
<1>14. ASSUME NEW s \in Sessions, CacheAdd(s)
      PROVE  StoreInv'
  <2>1. CASE CacheBytes <= 0
    BY SMTT(30), <1>7, <1>14, <2>1 DEF CacheAdd, Populated, Populating
  <2>2. CASE CacheBytes > 0
    BY SMTT(30), <1>14, <2>2, AddStep
  <2> QED
    BY SMTT(30), <2>1, <2>2, CacheBytesAssumption
<1>15. ASSUME NEW s \in Sessions, Populating(s), NEW l,
              pc' = [pc EXCEPT ![s] = l],
              l \in {"readMain", "readHot", "evictMain", "evictHot", "delete"},
              key' = key, \A c \in Caches : lru'[c].cache \subseteq lru[c].cache
      PROVE  StoreInv'
  <2>1. pc'[s] = l /\ \A t \in Sessions : t # s => pc'[t] = pc[t]
    BY <1>15 DEF Types
  <2>2. Missing(s)'
    BY <1>15, <2>1 DEF Missing
  <2> QED
    BY SMTT(30), <1>15, <2>1, <2>2, StoreFrame
<1>16. ASSUME NEW s \in Sessions, ReadMainBytes(s) \/ ReadHotBytes(s)
      PROVE  StoreInv'
  <2>1. \E l \in {"readHot", "evictMain", "evictHot", "delete"} :
          pc' = [pc EXCEPT ![s] = l]
    BY <1>16 DEF ReadMainBytes, ReadHotBytes, Populated, FnReturns, Victim, Goto
  <2> QED
    BY ZenonT(60), <1>15, <1>16, <2>1 DEF ReadMainBytes, ReadHotBytes, Populating
<1>17. ASSUME NEW s \in Sessions, NEW here \in {"evictMain", "evictHot"}, NEW c \in Caches,
              RemoveOldest(s, here, c)
      PROVE  StoreInv'
  <2>1. LruRemoveOldest(lru[c]).cache \subseteq lru[c].cache
    BY LruRemoveSound DEF Types
  <2>2. lru' = [lru EXCEPT ![c] = LruRemoveOldest(lru[c])]
    BY ZenonT(60), <1>17 DEF RemoveOldest
  <2>3. \A d \in Caches : lru'[d].cache \subseteq lru[d].cache
    BY SMTT(30), <2>1, <2>2 DEF Types
  <2> QED
    BY ZenonT(60), <1>15, <1>17, <2>3 DEF RemoveOldest, Populating, Goto
<1>18. ASSUME NEW r \in Rings, Set(r)
      PROVE  StoreInv'
  BY SMTT(30), <1>18 DEF Set, StoreInv, Missing, Apart, Disabled, Populating
<1>19. CASE UNCHANGED vars
  BY SMTT(30), <1>19 DEF vars, StoreInv, Missing, Apart, Disabled, Populating
<1>20. ASSUME NEW s \in Sessions, Step(s)
      PROVE  StoreInv'
  BY SMTT(30), <1>4, <1>5, <1>6, <1>8, <1>10, <1>11, <1>12, <1>13, <1>14, <1>16, <1>17, <1>20
  DEF Step, Caches
<1> QED
  BY SMTT(30), <1>2, <1>4, <1>18, <1>19, <1>20 DEF Next

-----------------------------------------------------------------------------
\* A step of s that does not fill the caches, and after which s notices if it
\* did before.
LEMMA NoticeFrame ==
  ASSUME Types, Types', Noticed, NEW s \in Sessions,
         \A t \in Sessions : t # s => pc'[t] = pc[t] /\ mainBytes'[t] = mainBytes[t],
         \A c \in Caches : nbytes'[c] <= nbytes[c],
         Notices(s) => Notices(s)'
  PROVE  Noticed'
<1>1. /\ nbytes["main"] \in Int /\ nbytes["hot"] \in Int
      /\ nbytes'["main"] \in Int /\ nbytes'["hot"] \in Int
      /\ nbytes'["main"] <= nbytes["main"] /\ nbytes'["hot"] <= nbytes["hot"]
  BY SMTT(30) DEF Types, Caches
<1>2. SUFFICES ASSUME nbytes'["main"] + nbytes'["hot"] > Limit
               PROVE  \E t \in Sessions : Notices(t)'
  BY DEF Noticed, Limit
<1>3. Limit \in Int
  BY CacheBytesAssumption DEF Limit
<1>4. PICK t \in Sessions : Notices(t)
  BY SMTT(30), <1>1, <1>2, <1>3 DEF Noticed
<1>5. CASE t = s
  BY <1>4, <1>5
<1>6. CASE t # s
  <2>1. pc'[t] = pc[t] /\ mainBytes'[t] = mainBytes[t] /\ mainBytes[t] \in Int
    BY SMTT(30), <1>6 DEF Types
  <2>2. Notices(t)'
    BY SMTT(30), <1>1, <1>4, <2>1 DEF Notices
  <2> QED
    BY SMTT(30), <2>2
<1> QED
  BY SMTT(30), <1>5, <1>6

\* Every step leaves somebody who notices, if the caches are over the limit.
LEMMA NoticeStep ==
  ASSUME Types, Types', LoadInv, StoreInv, StoreInv', Noticed, [Next]_vars
  PROVE  Noticed'
<1> USE DEF caches, flight, populating
<1>0. CASE CacheBytes <= 0
  <2>1. nbytes'["main"] = 0 /\ nbytes'["hot"] = 0
    BY <1>0 DEF StoreInv, Disabled, Caches
  <2>2. Limit = 0
    BY SMTT(30), <1>0, CacheBytesAssumption DEF Limit
  <2> QED
    BY SMTT(30), <2>1, <2>2 DEF Noticed, Limit
<1>1. ASSUME NEW s \in Sessions, ~Populating(s), nbytes' = nbytes,
             \A t \in Sessions : t # s => pc'[t] = pc[t] /\ mainBytes'[t] = mainBytes[t]
      PROVE  Noticed'
  <2>1. ~Notices(s)
    BY SMTT(30), <1>1 DEF Notices, Populating
  <2>2. \A c \in Caches : nbytes'[c] <= nbytes[c]
    BY SMTT(30), <1>1 DEF Types
  <2> QED
    BY SMTT(30), <1>1, <2>1, <2>2, NoticeFrame
<1>2. ASSUME NEW s \in Sessions, Step(s), ~Populating(s), pc[s] # "add"
      PROVE  Noticed'
  <2>1. nbytes' = nbytes
    BY Zenon, <1>2 DEF Step, Lookup, Load, Wait, Relookup, PickPeer, PeerFails, LocalFails,
      LocalPanics, PeerAnswers, PeerAnswersPopular, LocalLoads, CacheAdd, ReadMainBytes,
      ReadHotBytes, RemoveOldest, Delete, Populating
  <2>2. \/ mainBytes' = mainBytes
        \/ mainBytes' = [mainBytes EXCEPT ![s] = 0]
    BY ZenonT(60), <1>2 DEF Step, Lookup, Load, Wait, Relookup, PickPeer, PeerFails, LocalFails,
      LocalPanics, PeerAnswers, PeerAnswersPopular, LocalLoads, CacheAdd, ReadMainBytes,
      ReadHotBytes, RemoveOldest, Delete, Populating, Return
  <2>3. \E l : pc' = [pc EXCEPT ![s] = l]
    BY ZenonT(60), <1>2 DEF Step, Lookup, Load, Wait, Relookup, PickPeer, PeerFails, LocalFails,
      LocalPanics, PeerAnswers, PeerAnswersPopular, LocalLoads, CacheAdd, ReadMainBytes,
      ReadHotBytes, RemoveOldest, Delete, Populating, Return, FnReturns, Populate, Goto
  <2>4. \A t \in Sessions : t # s => pc'[t] = pc[t] /\ mainBytes'[t] = mainBytes[t]
    BY <2>2, <2>3 DEF Types
  <2> QED
    BY SMTT(30), <1>1, <1>2, <2>1, <2>4
<1>3. ASSUME NEW s \in Sessions,
             GetNilDest(s) \/ \E k \in Asks[s] : Get(s, k)
      PROVE  Noticed'
  <2>1. ~Populating(s) /\ nbytes' = nbytes
    BY SMTT(30), <1>3 DEF GetNilDest, Get, Populating
  <2>2. \A t \in Sessions : t # s => pc'[t] = pc[t] /\ mainBytes'[t] = mainBytes[t]
    BY SMTT(30), <1>3 DEF GetNilDest, Get, Return, Goto, Types
  <2> QED
    BY SMTT(30), <1>1, <2>1, <2>2
<1>4. ASSUME NEW s \in Sessions, CacheAdd(s), CacheBytes > 0
      PROVE  Noticed'
  <2>1. pc'[s] = "readMain"
    BY <1>4, CacheBytesAssumption DEF CacheAdd, Goto, Types
  <2> QED
    BY SMTT(30), <2>1 DEF Noticed, Notices
<1>5. ASSUME NEW s \in Sessions, ReadMainBytes(s)
      PROVE  Noticed'
  <2>1. pc'[s] = "readHot" /\ mainBytes'[s] = nbytes["main"] /\ nbytes' = nbytes
    BY <1>5 DEF ReadMainBytes, Goto, Types
  <2>2. Notices(s)'
    BY <2>1 DEF Notices, Types, Caches
  <2> QED
    BY SMTT(30), <2>2 DEF Noticed
<1>6. ASSUME NEW s \in Sessions, ReadHotBytes(s), CacheBytes > 0
      PROVE  Noticed'
  <2>1. nbytes' = nbytes /\ mainBytes' = mainBytes /\ pc[s] = "readHot"
    BY SMTT(30), <1>6 DEF ReadHotBytes
  <2>2. \A t \in Sessions : t # s => pc'[t] = pc[t]
    BY SMTT(30), <1>6 DEF ReadHotBytes, Populated, FnReturns, Goto, Types
  <2>3. CASE ~Fits(s)
    <3>1. pc'[s] \in {"evictMain", "evictHot"}
      BY <1>6, <2>3 DEF ReadHotBytes, Victim, Goto, Types
    <3> QED
      BY SMTT(30), <3>1 DEF Noticed, Notices
  <2>4. CASE Fits(s) /\ mainBytes[s] >= nbytes["main"]
    <3>1. /\ nbytes["main"] \in Int /\ nbytes["hot"] \in Int /\ mainBytes[s] \in Int
          /\ CacheBytes \in Int
      BY CacheBytesAssumption DEF Types, Caches
    <3>2. ~(nbytes["main"] + nbytes["hot"] > Limit)
      BY SMTT(30), <1>6, <2>4, <3>1 DEF Fits, Limit
    <3> QED
      BY SMTT(30), <2>1, <3>2 DEF Noticed, Limit
  <2>5. CASE ~(mainBytes[s] >= nbytes["main"])
    <3>1. ~Notices(s)
      BY SMTT(30), <2>1, <2>5 DEF Notices
    <3>2. \A c \in Caches : nbytes'[c] <= nbytes[c]
      BY SMTT(30), <2>1 DEF Types
    <3> QED
      BY SMTT(30), <2>1, <2>2, <3>1, <3>2, NoticeFrame
  <2> QED
    BY SMTT(30), <2>3, <2>4, <2>5
<1>7. ASSUME NEW s \in Sessions, NEW here, NEW c, RemoveOldest(s, here, c)
      PROVE  Noticed'
  <2>1. pc'[s] = "readMain"
    BY <1>7 DEF RemoveOldest, Goto, Types
  <2> QED
    BY <2>1 DEF Noticed, Notices
<1>8. ASSUME NEW r \in Rings, Set(r)
      PROVE  Noticed'
  BY ZenonT(60), <1>8 DEF Set, Noticed, Notices, Limit
<1>9. CASE UNCHANGED vars
  BY <1>9 DEF vars, Noticed, Notices, Limit
<1>10. ASSUME NEW s \in Sessions, Step(s), CacheBytes > 0
      PROVE  Noticed'
  <2>1. CASE ~Populating(s) /\ pc[s] # "add"
    BY SMTT(30), <1>2, <1>10, <2>1
  <2>2. CASE Populating(s) \/ pc[s] = "add"
    <3>1. \/ CacheAdd(s) \/ ReadMainBytes(s) \/ ReadHotBytes(s)
          \/ RemoveOldest(s, "evictMain", "main") \/ RemoveOldest(s, "evictHot", "hot")
      BY ZenonT(60), <1>10, <2>2 DEF Step, Lookup, Load, Wait, Relookup, PickPeer, PeerFails,
        LocalFails, LocalPanics, PeerAnswers, PeerAnswersPopular, LocalLoads, Delete,
        Populating
    <3> QED
      BY SMTT(30), <1>4, <1>5, <1>6, <1>7, <1>10, <3>1
  <2> QED
    BY <2>1, <2>2
<1>11. CacheBytes <= 0 \/ CacheBytes > 0
  BY CacheBytesAssumption
<1> QED
  BY ZenonT(60), <1>0, <1>3, <1>8, <1>9, <1>10, <1>11 DEF Next

-----------------------------------------------------------------------------
\* A session that has missed the caches and is not yet counted.
Owes(s) ==
  \/ pc[s] \in {"pick", "peer", "local", "panicked"}
  \/ into[s] = "hot" /\ Loading(s)

Ended == Stats["PeerLoads"] + Stats["LocalLoads"] + Stats["LocalLoadErrs"]

\* A step of s that is counted as what it does to the sessions that owe.
LEMMA BalanceFrame ==
  ASSUME Types, Types', StatsBalance, NEW s \in Sessions,
         \A t \in Sessions : t # s => (Owes(t)' <=> Owes(t)),
         \/ /\ Owes(s)' <=> Owes(s)
            /\ Stats'["LoadsDeduped"] = Stats["LoadsDeduped"] /\ Ended' = Ended
         \/ /\ ~Owes(s) /\ Owes(s)'
            /\ Stats'["LoadsDeduped"] = Stats["LoadsDeduped"] + 1 /\ Ended' = Ended
         \/ /\ Owes(s) /\ ~Owes(s)'
            /\ Stats'["LoadsDeduped"] = Stats["LoadsDeduped"] /\ Ended' = Ended + 1
  PROVE  StatsBalance'
<1> DEFINE S == {t \in Sessions : Owes(t)}
<1> DEFINE T == {t \in Sessions : Owes(t)'}
<1>1. S = {t \in Sessions : pc[t] \in {"pick", "peer", "local", "panicked"}
                              \/ (into[t] = "hot" /\ Loading(t))}
  BY SMTT(30) DEF Owes
<1>2. T = {t \in Sessions : pc'[t] \in {"pick", "peer", "local", "panicked"}
                              \/ (into'[t] = "hot" /\ Loading(t)')}
  BY DEF Owes
<1>3. IsFiniteSet(S) /\ Cardinality(S) \in Nat
  BY SMTT(30), SessionsAssumption, FS_Subset, FS_CardinalityType
<1>4. /\ Stats["LoadsDeduped"] \in Nat /\ Ended \in Nat
      /\ Stats'["LoadsDeduped"] \in Nat /\ Ended' \in Nat
  BY SMTT(30) DEF Types, StatNames, Ended
<1>5. Stats["LoadsDeduped"] = Ended + Cardinality(S)
  BY SMTT(30), <1>1 DEF StatsBalance, Ended
<1>6. SUFFICES Stats'["LoadsDeduped"] = Ended' + Cardinality(T)
  BY SMTT(30), <1>2 DEF StatsBalance, Ended
<1> HIDE DEF StatsBalance
<1>7. CASE Owes(s)' <=> Owes(s)
  <2>1. T = S
    BY <1>7
  <2> HIDE DEF S, T
  <2> QED
    BY SMTT(30), <1>3, <1>4, <1>5, <1>7, <2>1
<1>8. CASE ~Owes(s) /\ Owes(s)'
  <2>1. T = S \cup {s} /\ s \notin S
    BY <1>8
  <2> HIDE DEF S, T
  <2>2. Cardinality(T) = Cardinality(S) + 1
    BY ZenonT(60), <1>3, <2>1, FS_AddElement
  <2> QED
    BY SMTT(30), <1>3, <1>4, <1>5, <1>8, <2>2
<1>9. CASE Owes(s) /\ ~Owes(s)'
  <2>1. T = S \ {s} /\ s \in S
    BY SMTT(30), <1>9
  <2> HIDE DEF S, T
  <2>2. Cardinality(T) = Cardinality(S) - 1
    BY SMTT(30), <1>3, <2>1, FS_RemoveElement
  <2> QED
    BY SMTT(30), <1>3, <1>4, <1>5, <1>9, <2>2
<1> QED
  BY SMTT(30), <1>7, <1>8, <1>9

\* What Count does to the counters of the balance.
LEMMA CountFacts ==
  ASSUME Types, NEW names, Count(names)
  PROVE  /\ "LoadsDeduped" \notin names => Stats'["LoadsDeduped"] = Stats["LoadsDeduped"]
         /\ "LoadsDeduped" \in names => Stats'["LoadsDeduped"] = Stats["LoadsDeduped"] + 1
         /\ names \cap {"PeerLoads", "LocalLoads", "LocalLoadErrs"} = {} => Ended' = Ended
         /\ names \in {{"PeerLoads"}, {"LocalLoads"}, {"LocalLoadErrs"}} => Ended' = Ended + 1
<1>1. \A n \in StatNames : /\ Stats[n] \in Nat
                           /\ n \in names => Stats'[n] = Stats[n] + 1
                           /\ n \notin names => Stats'[n] = Stats[n]
  BY DEF Types, Count
<1>2. {"LoadsDeduped", "PeerLoads", "LocalLoads", "LocalLoadErrs"} \subseteq StatNames
  BY SMTT(30) DEF StatNames
<1> QED
  BY SMTT(30), <1>1, <1>2 DEF Ended

\* Every step keeps the balance.
LEMMA BalanceStep ==
  ASSUME Types, Types', StatsBalance, [Next]_vars
  PROVE  StatsBalance'
<1> USE DEF caches, flight, populating
<1>1. ASSUME NEW s \in Sessions,
             \/ into' = into \/ \E c : into' = [into EXCEPT ![s] = c],
             \E l : pc' = [pc EXCEPT ![s] = l]
      PROVE  \A t \in Sessions : t # s => (Owes(t)' <=> Owes(t))
  <2>1. \A t \in Sessions : t # s => pc'[t] = pc[t] /\ into'[t] = into[t]
    BY <1>1 DEF Types
  <2> QED
    BY SMTT(30), <2>1 DEF Owes, Loading, Populating
<1>2. ASSUME NEW s \in Sessions, NEW names, Count(names),
             names \cap {"LoadsDeduped", "PeerLoads", "LocalLoads", "LocalLoadErrs"} = {},
             \/ into' = into \/ \E c : into' = [into EXCEPT ![s] = c],
             \E l : pc' = [pc EXCEPT ![s] = l], Owes(s)' <=> Owes(s)
      PROVE  StatsBalance'
  <2>1. Stats'["LoadsDeduped"] = Stats["LoadsDeduped"] /\ Ended' = Ended
    BY <1>2, CountFacts
  <2> QED
    BY ZenonT(60), <1>1, <1>2, <2>1, BalanceFrame
<1>3. ASSUME NEW s \in Sessions, Stats' = Stats,
             \/ into' = into \/ \E c : into' = [into EXCEPT ![s] = c],
             \E l : pc' = [pc EXCEPT ![s] = l], Owes(s)' <=> Owes(s)
      PROVE  StatsBalance'
  <2>1. Stats'["LoadsDeduped"] = Stats["LoadsDeduped"] /\ Ended' = Ended
    BY <1>3 DEF Ended
  <2> QED
    BY ZenonT(60), <1>1, <1>3, <2>1, BalanceFrame
<1>4. ASSUME NEW s \in Sessions, NEW names, Count(names),
             names \in {{"PeerLoads"}, {"LocalLoads"}, {"LocalLoadErrs"}},
             \/ into' = into \/ \E c : into' = [into EXCEPT ![s] = c],
             \E l : pc' = [pc EXCEPT ![s] = l], Owes(s), ~Owes(s)'
      PROVE  StatsBalance'
  <2>1. Stats'["LoadsDeduped"] = Stats["LoadsDeduped"] /\ Ended' = Ended + 1
    BY SMTT(30), <1>4, CountFacts
  <2> QED
    BY ZenonT(60), <1>1, <1>4, <2>1, BalanceFrame
<1>5. ASSUME NEW s \in Sessions, NEW k \in Asks[s], Get(s, k)
      PROVE  StatsBalance'
  <2>1. pc[s] = "idle" /\ pc'[s] = "main1" /\ pc' = [pc EXCEPT ![s] = "main1"]
    BY SMTT(30), <1>5 DEF Get, Goto, Types
  <2>2. Owes(s)' <=> Owes(s)
    BY <2>1 DEF Owes, Loading, Populating
  <2> QED
    BY ZenonT(60), <1>2, <1>5, <2>1, <2>2 DEF Get
<1>6. ASSUME NEW s \in Sessions, NEW v, Return(s, v), ~Owes(s),
             Stats' = Stats \/ Count({"Gets"}) \/ Count({"CacheHits"})
      PROVE  StatsBalance'
  <2>1. pc' = [pc EXCEPT ![s] = "end"] /\ into' = [into EXCEPT ![s] = "main"]
    BY SMTT(30), <1>6 DEF Return, Goto
  <2>2. ~Owes(s)'
    BY <2>1 DEF Owes, Loading, Populating, Types
  <2> QED
    BY ZenonT(60), <1>2, <1>3, <1>6, <2>1, <2>2
<1>7. ASSUME NEW s \in Sessions, GetNilDest(s) \/ Wait(s) \/ Delete(s)
      PROVE  StatsBalance'
  <2>1. ~Owes(s)
    BY ZenonT(60), <1>7 DEF GetNilDest, Wait, Delete, Owes, Loading, Populating
  <2> QED
    BY ZenonT(60), <1>6, <1>7, <2>1 DEF GetNilDest, Wait, Delete
<1>8. ASSUME NEW s \in Sessions, NEW here \in {"main1", "hot1"}, NEW c \in Caches,
             NEW miss \in {"hot1", "load"}, Lookup(s, here, c, miss)
      PROVE  StatsBalance'
  <2>1. ~Owes(s)
    BY SMTT(30), <1>8 DEF Lookup, Owes, Loading, Populating
  <2>2. CASE Hit(c, key[s])
    BY SMTT(30), <1>6, <1>8, <2>1, <2>2 DEF Lookup
  <2>3. CASE ~Hit(c, key[s])
    <3>1. pc' = [pc EXCEPT ![s] = miss] /\ into' = into /\ Stats' = Stats
      BY SMTT(30), <1>8, <2>3 DEF Lookup, Goto
    <3>2. ~Owes(s)'
      BY <3>1 DEF Owes, Loading, Populating, Types
    <3> QED
      BY ZenonT(60), <1>3, <2>1, <3>1, <3>2
  <2> QED
    BY SMTT(30), <2>2, <2>3
<1>9. ASSUME NEW s \in Sessions, Load(s)
      PROVE  StatsBalance'
  <2>1. \E l \in {"wait", "main2"} : pc' = [pc EXCEPT ![s] = l]
    BY ZenonT(60), <1>9 DEF Load, Goto
  <2>2. ~Owes(s) /\ ~Owes(s)'
    BY <1>9, <2>1 DEF Load, Owes, Loading, Populating, Types
  <2> QED
    BY ZenonT(60), <1>2, <1>9, <2>1, <2>2 DEF Load
<1>10. ASSUME NEW s \in Sessions, NEW here \in {"main2", "hot2"}, NEW c \in Caches,
              NEW miss, NEW counted, Relookup(s, here, c, miss, counted),
              (miss = "hot2" /\ counted = {}) \/ (miss = "pick" /\ counted = {"LoadsDeduped"})
      PROVE  StatsBalance'
  <2>1. ~Owes(s) /\ into' = into
    BY ZenonT(60), <1>10 DEF Relookup, Owes, Loading, Populating
  <2>2. CASE Hit(c, key[s])
    <3>1. pc' = [pc EXCEPT ![s] = "delete"] /\ Count({"CacheHits"})
      BY SMTT(30), <1>10, <2>2 DEF Relookup, FnReturns, Goto
    <3>2. ~Owes(s)'
      BY <3>1 DEF Owes, Loading, Populating, Types
    <3> QED
      BY ZenonT(60), <1>2, <2>1, <3>1, <3>2
  <2>3. CASE ~Hit(c, key[s])
    <3>1. pc' = [pc EXCEPT ![s] = miss] /\ pc'[s] = miss /\ Count(counted)
      BY <1>10, <2>3 DEF Relookup, Goto, Types
    <3>2. CASE miss = "hot2" /\ counted = {}
      <4>1. ~Owes(s)'
        BY <3>1, <3>2 DEF Owes, Loading, Populating
      <4> QED
        BY ZenonT(60), <1>2, <2>1, <3>1, <3>2, <4>1
    <3>3. CASE miss = "pick" /\ counted = {"LoadsDeduped"}
      <4>1. Owes(s)'
        BY SMTT(30), <3>1, <3>3 DEF Owes
      <4>2. Stats'["LoadsDeduped"] = Stats["LoadsDeduped"] + 1 /\ Ended' = Ended
        BY <3>1, <3>3, CountFacts
      <4> QED
        BY ZenonT(60), <1>1, <2>1, <3>1, <4>1, <4>2, BalanceFrame
    <3> QED
      BY SMTT(30), <1>10, <3>2, <3>3
  <2> QED
    BY <2>2, <2>3
<1>11. ASSUME NEW s \in Sessions, PickPeer(s) \/ PeerFails(s) \/ LocalPanics(s)
      PROVE  StatsBalance'
  <2>1. \E l \in {"peer", "local", "panicked"} : pc' = [pc EXCEPT ![s] = l]
    BY SMTT(30), <1>11 DEF PickPeer, PeerFails, LocalPanics, Goto
  <2>2. Owes(s) /\ Owes(s)'
    BY <1>11, <2>1 DEF PickPeer, PeerFails, LocalPanics, Owes, Types
  <2>3. into' = into /\ (Stats' = Stats \/ Count({"PeerErrors"}))
    BY ZenonT(60), <1>11 DEF PickPeer, PeerFails, LocalPanics
  <2> QED
    BY ZenonT(60), <1>2, <1>3, <2>1, <2>2, <2>3
<1>12. ASSUME NEW s \in Sessions, NEW v, LocalFails(s) \/ PeerAnswers(s, v)
      PROVE  StatsBalance'
  <2>1. pc' = [pc EXCEPT ![s] = "delete"] /\ into' = into
    BY SMTT(30), <1>12 DEF LocalFails, PeerAnswers, FnReturns, Goto
  <2>2. Owes(s)
    BY SMTT(30), <1>12 DEF LocalFails, PeerAnswers, Owes
  <2>3. ~Owes(s)'
    BY <2>1 DEF Owes, Loading, Populating, Types
  <2> QED
    BY ZenonT(60), <1>4, <1>12, <2>1, <2>2, <2>3 DEF LocalFails, PeerAnswers
<1>13. ASSUME NEW s \in Sessions, NEW v, PeerAnswersPopular(s, v)
      PROVE  StatsBalance'
  <2>1. /\ pc' = [pc EXCEPT ![s] = "add"] /\ into' = [into EXCEPT ![s] = "hot"]
        /\ pc[s] = "peer" /\ Stats' = Stats
    BY SMTT(30), <1>13 DEF PeerAnswersPopular, Populate, Goto
  <2>2. Owes(s) /\ Owes(s)'
    BY <2>1 DEF Owes, Loading, Types
  <2> QED
    BY ZenonT(60), <1>3, <2>1, <2>2
<1>14. ASSUME NEW s \in Sessions, NEW v, LocalLoads(s, v)
      PROVE  StatsBalance'
  <2>1. /\ pc' = [pc EXCEPT ![s] = "add"] /\ into' = [into EXCEPT ![s] = "main"]
        /\ pc[s] = "local" /\ Count({"LocalLoads"})
    BY <1>14 DEF LocalLoads, Populate, Goto
  <2>2. Owes(s)
    BY SMTT(30), <2>1 DEF Owes
  <2>3. ~Owes(s)'
    BY <2>1 DEF Owes, Types
  <2> QED
    BY ZenonT(60), <1>4, <2>1, <2>2, <2>3
<1>15. ASSUME NEW s \in Sessions, Loading(s), pc[s] \notin {"pick", "peer", "local"},
              Populated(s), into' = into
      PROVE  StatsBalance'
  <2>1. pc' = [pc EXCEPT ![s] = "delete"]
    BY SMTT(30), <1>15 DEF Populated, FnReturns, Goto
  <2>2. ~Owes(s)'
    BY <2>1 DEF Owes, Loading, Populating, Types
  <2>3. CASE into[s] = "hot"
    <3>1. Owes(s) /\ Count({"PeerLoads"})
      BY <1>15, <2>3 DEF Owes, Populated
    <3> QED
      BY ZenonT(60), <1>4, <1>15, <2>1, <2>2, <3>1
  <2>4. CASE into[s] # "hot"
    <3>1. Count({})
      BY SMTT(30), <1>15, <2>4 DEF Populated
    <3>2. ~Owes(s)
      BY <1>15, <2>4 DEF Owes, Loading, Populating
    <3> QED
      BY ZenonT(60), <1>2, <1>15, <2>1, <2>2, <3>1, <3>2
  <2> QED
    BY SMTT(30), <2>3, <2>4
<1>16. ASSUME NEW s \in Sessions, Loading(s), pc[s] \notin {"pick", "peer", "local"},
              NEW l \in {"readMain", "readHot", "evictMain", "evictHot"},
              Goto(s, l), Stats' = Stats, into' = into
      PROVE  StatsBalance'
  <2>1. pc' = [pc EXCEPT ![s] = l] /\ pc'[s] = l /\ into'[s] = into[s]
    BY SMTT(30), <1>16 DEF Goto, Types
  <2>2. Owes(s)' <=> Owes(s)
    BY SMTT(30), <1>16, <2>1 DEF Owes, Loading, Populating
  <2> QED
    BY ZenonT(60), <1>3, <1>16, <2>1, <2>2
<1>17. ASSUME NEW s \in Sessions, CacheAdd(s) \/ ReadHotBytes(s)
      PROVE  StatsBalance'
  <2>1. Loading(s) /\ pc[s] \notin {"pick", "peer", "local"} /\ into' = into
    BY SMTT(30), <1>17 DEF CacheAdd, ReadHotBytes, Loading, Populating
  <2>2. \/ Populated(s)
        \/ \E l \in {"readMain", "evictMain", "evictHot"} : Goto(s, l) /\ Stats' = Stats
    BY <1>17 DEF CacheAdd, ReadHotBytes, Victim
  <2> QED
    BY SMTT(30), <1>15, <1>16, <2>1, <2>2
<1>18. ASSUME NEW s \in Sessions, NEW here \in {"evictMain", "evictHot"}, NEW c,
              ReadMainBytes(s) \/ RemoveOldest(s, here, c)
      PROVE  StatsBalance'
  <2>1. Loading(s) /\ pc[s] \notin {"pick", "peer", "local"}
    BY SMTT(30), <1>18 DEF ReadMainBytes, RemoveOldest, Loading, Populating
  <2>2. \E l \in {"readHot", "readMain"} : Goto(s, l) /\ Stats' = Stats /\ into' = into
    BY SMTT(30), <1>18 DEF ReadMainBytes, RemoveOldest
  <2> QED
    BY SMTT(30), <1>16, <2>1, <2>2
<1>19. CASE UNCHANGED <<Stats, pc, into>>
  BY SMTT(30), <1>19 DEF StatsBalance, Loading, Populating
<1>20. ASSUME NEW s \in Sessions, Step(s)
      PROVE  StatsBalance'
  BY SMTT(30), <1>7, <1>8, <1>9, <1>10, <1>11, <1>12, <1>13, <1>14, <1>17, <1>18, <1>20
  DEF Step, Caches
<1> QED
  BY SMTT(30), <1>5, <1>7, <1>19, <1>20 DEF Next, vars, Set

-----------------------------------------------------------------------------
SInv == StoreInv /\ Noticed /\ StatsBalance

\* The caches of a new group are empty, and the counters are 0.
LEMMA InitStore == Init => SInv
<1> SUFFICES ASSUME Init PROVE SInv
  OBVIOUS
<1>1. \A c \in Caches : lru[c].cache = {} /\ nbytes[c] = 0
  BY DEF Init, LruNew
<1>2. \A s \in Sessions : pc[s] = "idle" /\ ~Populating(s) /\ into[s] = "main"
  BY SMTT(30) DEF Init, Populating
<1>3. StoreInv
  BY <1>1, <1>2 DEF StoreInv, Apart, Disabled, Missing, Caches
<1>4. Noticed
  <2>1. nbytes["main"] = 0 /\ nbytes["hot"] = 0
    BY <1>1 DEF Caches
  <2>2. Limit \in Int /\ Limit >= 0
    BY SMTT(30), CacheBytesAssumption DEF Limit
  <2> QED
    BY SMTT(30), <2>1, <2>2 DEF Noticed
<1>5. StatsBalance
  <2>1. {s \in Sessions : pc[s] \in {"pick", "peer", "local", "panicked"}
                            \/ (into[s] = "hot" /\ Loading(s))} = {}
    BY <1>2
  <2>2. \A n \in StatNames : Stats[n] = 0
    BY DEF Init
  <2>3. /\ Stats["LoadsDeduped"] = 0 /\ Stats["PeerLoads"] = 0
        /\ Stats["LocalLoads"] = 0 /\ Stats["LocalLoadErrs"] = 0
    BY <2>2 DEF StatNames
  <2> QED
    BY SMTT(30), <2>1, <2>3, FS_EmptySet DEF StatsBalance
<1> QED
  BY <1>3, <1>4, <1>5 DEF SInv

\* What a leader missed is missing until it adds it, while the caches are over
\* the limit somebody will notice, and the counters balance.
THEOREM Invariance == Spec => []SInv
<1>1. ASSUME Types /\ LoadInv, (Types /\ LoadInv)', SInv, [Next]_vars
      PROVE  SInv'
  <2>1. StoreInv'
    BY <1>1, StoreStep DEF SInv
  <2>2. Noticed'
    BY SMTT(30), <1>1, <2>1, NoticeStep DEF SInv
  <2>3. StatsBalance'
    BY <1>1, BalanceStep DEF SInv
  <2> QED
    BY SMTT(30), <2>1, <2>2, <2>3 DEF SInv
<1> QED
  BY <1>1, InitStore, LoadInvariance, PTL DEF Spec

\* A key is stored once in a process: the leader of a load found it in neither
\* cache, and nobody else adds it until the leader does.
THEOREM KeptOnce == Spec => []StoredOnce
<1>1. Types /\ SInv => StoredOnce
  <2> SUFFICES ASSUME Types, SInv PROVE StoredOnce
    OBVIOUS
  <2>1. \A c \in Caches :
          KeysIn(c) = lru[c].cache /\ Cardinality(KeysIn(c)) = Len(lru[c].ll)
    BY ZenonT(60), SoundCounts DEF Types, KeysIn
  <2> QED
    BY <2>1 DEF SInv, StoreInv, Apart, StoredOnce, Caches
<1> QED
  BY <1>1, LoadInvariance, Invariance, PTL

\* Outside populateCache the two caches are within cacheBytes: a caller that
\* leaves the eviction loop after reading a size that has changed leaves
\* somebody else in it.
THEOREM Bounded == Spec => []WithinLimit
<1>1. Types /\ SInv => WithinLimit
  <2> SUFFICES ASSUME Types, SInv, \A s \in Sessions : ~Populating(s)
               PROVE  nbytes["main"] + nbytes["hot"] <= Limit
    BY DEF WithinLimit, Limit
  <2>1. \A s \in Sessions : ~Notices(s)
    BY DEF Notices, Populating
  <2>2. nbytes["main"] \in Int /\ nbytes["hot"] \in Int /\ Limit \in Int
    BY CacheBytesAssumption DEF Types, Caches, Limit
  <2> QED
    BY <2>1, <2>2 DEF SInv, Noticed
<1> QED
  BY <1>1, LoadInvariance, Invariance, PTL

\* The counters of a Group account for every load.
THEOREM Balanced == Spec => []StatsBalance
<1>1. SInv => StatsBalance
  BY DEF SInv
<1> QED
  BY <1>1, Invariance, PTL

-----------------------------------------------------------------------------
(* What the caches hold and nbytes. *)

\* Every step changes nbytes by what it changes in the cache.
LEMMA BytesStep ==
  ASSUME Types, LoadInv, StoreInv, BytesExact, [Next]_vars
  PROVE  BytesExact'
<1> USE DEF caches, flight, populating
<1>1. ASSUME nbytes' = nbytes, \A c \in Caches : Stored(lru'[c]) = Stored(lru[c])
      PROVE  BytesExact'
  BY ZenonT(60), <1>1 DEF BytesExact
<1>2. ASSUME nbytes' = nbytes, lru' = lru
      PROVE  BytesExact'
  BY SMTT(30), <1>1, <1>2
<1>3. ASSUME NEW c \in Caches, NEW k, Touch(c, k), nbytes' = nbytes
      PROVE  BytesExact'
  <2>1. Stored(LruGet(lru[c], k)) = Stored(lru[c])
    BY LruGetStored DEF Types
  <2>2. lru' = lru \/ lru' = [lru EXCEPT ![c] = LruGet(lru[c], k)]
    BY <1>3 DEF Touch
  <2>3. \A d \in Caches : Stored(lru'[d]) = Stored(lru[d])
    BY ZenonT(60), <2>1, <2>2 DEF Types
  <2> QED
    BY SMTT(30), <1>1, <1>3, <2>3
<1>4. ASSUME NEW s \in Sessions, CacheAdd(s), CacheBytes > 0
      PROVE  BytesExact'
  <2> DEFINE c == into[s]
             n == SumFunction(Stored(lru[c]))
             d == LruAdd(lru[c], key[s], value[s])
  <2>1. pc[s] = "add" /\ c \in Caches /\ key[s] \in Keys /\ value[s] \in Sizes
    BY <1>4 DEF CacheAdd, Types, LoadInv, Local
  <2>2. key[s] \notin lru[c].cache
    BY SMTT(30), <2>1 DEF StoreInv, Missing, Caches
  <2>3. SumFunction(Stored(d)) = n + value[s]
    BY <2>1, <2>2, LruAddStored DEF Types
  <2>4. lru' = [lru EXCEPT ![c] = d] /\ nbytes' = [nbytes EXCEPT ![c] = nbytes[c] + value[s]]
    <3>1. ~(CacheBytes <= 0)
      BY SMTT(30), <1>4, CacheBytesAssumption
    <3> QED
      BY ZenonT(60), <1>4, <3>1 DEF CacheAdd
  <2>5. nbytes[c] = n
    BY SMTT(30), <2>1 DEF BytesExact
  <2> HIDE DEF c, d, n
  <2>6. lru'[c] = d /\ nbytes'[c] = n + value[s]
    BY <2>1, <2>4, <2>5 DEF Types
  <2>7. \A x \in Caches : x # c => lru'[x] = lru[x] /\ nbytes'[x] = nbytes[x]
    BY ZenonT(60), <2>4 DEF Types
  <2>8. ASSUME NEW x \in Caches PROVE nbytes'[x] = SumFunction(Stored(lru'[x]))
    <3>1. CASE x = c
      BY <2>3, <2>6, <3>1
    <3>2. CASE x # c
      BY ZenonT(60), <2>7, <3>2 DEF BytesExact
    <3> QED
      BY SMTT(30), <3>1, <3>2
  <2> QED
    BY SMTT(30), <2>8 DEF BytesExact
<1>5. ASSUME NEW s \in Sessions, NEW here, NEW c \in Caches, RemoveOldest(s, here, c)
      PROVE  BytesExact'
  <2>1. CASE lru[c].ll = <<>>
    <3>1. LruRemoveOldest(lru[c]) = lru[c]
      BY SMTT(30), <2>1 DEF LruRemoveOldest
    <3>2. lru' = lru /\ nbytes' = nbytes
      BY SMTT(30), <1>5, <2>1, <3>1 DEF RemoveOldest, Types
    <3> QED
      BY <1>2, <3>2
  <2>2. CASE lru[c].ll # <<>>
    <3> DEFINE n == SumFunction(Stored(lru[c]))
               d == LruRemoveOldest(lru[c])
               v == Last(lru[c].ll).value
    <3>1. SumFunction(Stored(d)) = n - v
      BY <2>2, LruRemoveStored DEF Types
    <3>2. lru' = [lru EXCEPT ![c] = d] /\ nbytes' = [nbytes EXCEPT ![c] = nbytes[c] - v]
      BY ZenonT(60), <1>5, <2>2 DEF RemoveOldest
    <3>3. nbytes[c] = n
      BY DEF BytesExact
    <3> HIDE DEF d, n, v
    <3>4. lru'[c] = d /\ nbytes'[c] = n - v
      BY <3>2, <3>3 DEF Types
    <3>5. \A x \in Caches : x # c => lru'[x] = lru[x] /\ nbytes'[x] = nbytes[x]
      BY ZenonT(60), <3>2 DEF Types
    <3>6. ASSUME NEW x \in Caches PROVE nbytes'[x] = SumFunction(Stored(lru'[x]))
      <4>1. CASE x = c
        BY SMTT(30), <3>1, <3>4, <4>1
      <4>2. CASE x # c
        BY ZenonT(60), <3>5, <4>2 DEF BytesExact
      <4> QED
        BY SMTT(30), <4>1, <4>2
    <3> QED
      BY <3>6 DEF BytesExact
  <2> QED
    BY <2>1, <2>2
<1>6. ASSUME NEW s \in Sessions, CacheAdd(s)
      PROVE  BytesExact'
  BY SMTT(30), <1>2, <1>4, <1>6, CacheBytesAssumption DEF CacheAdd
<1>7. ASSUME NEW s \in Sessions, NEW here, NEW c \in Caches, NEW miss, NEW counted,
             Lookup(s, here, c, miss) \/ Relookup(s, here, c, miss, counted)
      PROVE  BytesExact'
  BY ZenonT(60), <1>3, <1>7 DEF Lookup, Relookup
<1>8. ASSUME NEW s \in Sessions, Step(s)
      PROVE  BytesExact'
  <2>1. \/ \E here, miss, counted : \E c \in Caches :
             Lookup(s, here, c, miss) \/ Relookup(s, here, c, miss, counted)
        \/ CacheAdd(s)
        \/ \E here : \E c \in Caches : RemoveOldest(s, here, c)
        \/ nbytes' = nbytes /\ lru' = lru
    BY ZenonT(60), <1>8 DEF Step, Caches, Load, Wait, PickPeer, PeerFails, LocalFails,
      LocalPanics, PeerAnswers, PeerAnswersPopular, LocalLoads, ReadMainBytes,
      ReadHotBytes, Delete
  <2> QED
    BY ZenonT(60), <1>2, <1>5, <1>6, <1>7, <2>1
<1>9. ASSUME NEW s \in Sessions, GetNilDest(s) \/ \E k \in Asks[s] : Get(s, k)
      PROVE  BytesExact'
  BY ZenonT(60), <1>2, <1>9 DEF GetNilDest, Get
<1>10. ASSUME NEW r \in Rings, Set(r)
      PROVE  BytesExact'
  BY SMTT(30), <1>2, <1>10 DEF Set
<1>11. CASE UNCHANGED vars
  BY <1>2, <1>11 DEF vars
<1> QED
  BY ZenonT(60), <1>8, <1>9, <1>10, <1>11 DEF Next

\* cache.nbytes is the size of the entries in the cache, because a leader
\* adds a key only after it has missed it and before anybody else may.
THEOREM Sized == Spec => []BytesExact
<1>1. Init => BytesExact
  <2> SUFFICES ASSUME Init, NEW c \in Caches
               PROVE  nbytes[c] = SumFunction(Stored(lru[c]))
    BY DEF BytesExact
  <2>1. lru[c].cache = {} /\ nbytes[c] = 0
    BY SMTT(30) DEF Init, LruNew
  <2>2. DOMAIN Stored(lru[c]) = {} /\ Stored(lru[c]) = [x \in {} |-> Stored(lru[c])[x]]
    BY <2>1 DEF Stored
  <2> QED
    BY SMTT(30), <2>1, <2>2, SumEmpty
<1>2. Types /\ LoadInv /\ StoreInv /\ BytesExact /\ [Next]_vars => BytesExact'
  BY BytesStep
<1>3. Spec => []StoreInv
  BY Invariance, PTL DEF SInv
<1> QED
  BY <1>1, <1>2, <1>3, LoadInvariance, PTL DEF Spec

\* The byte counts are never negative.
LEMMA BytesNat ==
  ASSUME Types, BytesExact
  PROVE  nbytes \in [Caches -> Nat]
<1>1. ASSUME NEW c \in Caches PROVE nbytes[c] \in Nat
  <2>1. SumFunction(Stored(lru[c])) \in Nat
    BY StoredFacts, SumNat DEF Types
  <2> QED
    BY <2>1 DEF BytesExact
<1> QED
  BY <1>1 DEF Types

\* Every variable keeps its type; in particular no byte count is negative.
THEOREM TypeCorrect == Spec => []TypeOK
<1> DEFINE Rest == remote \in Rings /\ mainBytes \in [Sessions -> Nat]
<1>1. Init => Rest
  BY DEF Init
<1>2. ASSUME Types, BytesExact, Rest, [Next]_vars PROVE Rest'
  <2> USE DEF caches, flight, populating
  <2>1. remote' \in Rings
    BY ZenonT(60), <1>2 DEF Next, vars, Step, Lookup, Load, Wait, Relookup, PickPeer, PeerFails,
      LocalFails, LocalPanics, PeerAnswers, PeerAnswersPopular, LocalLoads, CacheAdd,
      ReadMainBytes, ReadHotBytes, RemoveOldest, Delete, Get, GetNilDest, Set
  <2>2. \/ mainBytes' = mainBytes
        \/ \E s \in Sessions : mainBytes' = [mainBytes EXCEPT ![s] = 0]
        \/ \E s \in Sessions : mainBytes' = [mainBytes EXCEPT ![s] = nbytes["main"]]
    BY ZenonT(60), <1>2 DEF Next, vars, Step, Lookup, Load, Wait, Relookup, PickPeer, PeerFails,
      LocalFails, LocalPanics, PeerAnswers, PeerAnswersPopular, LocalLoads, CacheAdd,
      ReadMainBytes, ReadHotBytes, RemoveOldest, Delete, Get, GetNilDest, Set, Return
  <2>3. nbytes["main"] \in Nat
    BY <1>2, BytesNat DEF Caches
  <2>4. mainBytes' \in [Sessions -> Nat]
    BY SMTT(30), <1>2, <2>2, <2>3
  <2> QED
    BY <2>1, <2>4
<1>3. ASSUME Types, BytesExact, Rest PROVE TypeOK
  <2>1. ASSUME NEW c \in Caches
        PROVE  lru[c].ll \in Seq([key : Keys, value : Sizes]) /\ lru[c].cache \subseteq Keys
    <3>1. lru[c].ll \in Seq(Entries)
      BY <1>3 DEF Types, Sound
    <3>2. \A i \in DOMAIN lru[c].ll : lru[c].ll[i] \in Entries
      BY <3>1
    <3>3. \A i \in DOMAIN lru[c].ll : lru[c].ll[i].key \in Keys
      BY SMTT(30), <3>2 DEF Entries
    <3>4. lru[c].cache = {lru[c].ll[i].key : i \in DOMAIN lru[c].ll}
      BY <1>3 DEF Types, Sound
    <3> QED
      BY ZenonT(60), <3>1, <3>3, <3>4 DEF Entries
  <2>2. nbytes \in [Caches -> Nat]
    BY <1>3, BytesNat
  <2> QED
    BY ZenonT(60), <1>3, <2>1, <2>2 DEF Types, TypeOK
<1> HIDE DEF Rest
<1>4. Spec => []Types
  BY LoadInvariance, PTL
<1> QED
  BY <1>1, <1>2, <1>3, <1>4, Sized, PTL DEF Spec
=============================================================================
