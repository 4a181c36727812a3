--------------------------------- MODULE Lru ---------------------------------
(***************************************************************************)
(* The operations of groupcache/lru/lru.go as operators on a cache         *)
(* c = [ll, cache]: the list of entries, most recently used first, and the *)
(* keys of the map.  The element a map entry points to is the list entry   *)
(* with its key.  A nil map and list are the empty ones.  MaxEntries is 0: *)
(* a Group sets no limit on the number of entries.                         *)
(***************************************************************************)
EXTENDS Integers, Sequences, SequencesExt

LruNew == [ll |-> <<>>, cache |-> {}]

(* the element that the map has for a key *)
At(ll, k) == CHOOSE i \in DOMAIN ll : ll[i].key = k

MoveToFront(ll, i) == <<ll[i]>> \o RemoveAt(ll, i)

ValueOf(c, k) == c.ll[At(c.ll, k)].value

removeElement(c, i) ==
  [ll |-> RemoveAt(c.ll, i), cache |-> c.cache \ {c.ll[i].key}]

LruRemoveOldest(c) ==
  IF c.ll = <<>> THEN c ELSE removeElement(c, Len(c.ll))

LruGet(c, k) ==
  IF k \in c.cache THEN [c EXCEPT !.ll = MoveToFront(c.ll, At(c.ll, k))] ELSE c

(* an entry of the key moves to the front and gets the value *)
LruAdd(c, k, v) ==
  LET rest == IF k \in c.cache THEN RemoveAt(c.ll, At(c.ll, k)) ELSE c.ll
  IN  [ll |-> <<[key |-> k, value |-> v]>> \o rest, cache |-> c.cache \cup {k}]
=============================================================================
