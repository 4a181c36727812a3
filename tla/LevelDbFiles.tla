---------------------------- MODULE LevelDbFiles ----------------------------
(***************************************************************************)
(* The files of a leveldb database: what log::Reader gets back from a log, *)
(* what an edit of the MANIFEST makes of a version, and what               *)
(* DBImpl::Recover rebuilds from the logs (leveldb-1.20/db/log_reader.cc,  *)
(* version_set.cc, db_impl.cc).                                            *)
(*                                                                         *)
(* A write is a number; what it stores is the pair of its sequence number  *)
(* and itself.  A record of a log holds the writes of one group, a record  *)
(* of the MANIFEST is an edit, and a version is the state that the edits   *)
(* describe: the number of the oldest log still needed, the next file      *)
(* number, the last sequence number, and the tables of level 0 and of the  *)
(* levels above.                                                           *)
(***************************************************************************)
EXTENDS Integers, FiniteSets, Sequences, SequencesExt

CONSTANT BufferSize           \* options_.write_buffer_size, in writes

(* A record of which Append wrote a part before it failed. *)
Torn == [seq |-> 0, ws |-> <<>>]

Entries(rec) == {<<rec.seq + i - 1, rec.ws[i]>> : i \in DOMAIN rec.ws}
EntriesOf(recs) == UNION {Entries(recs[i]) : i \in DOMAIN recs}
Writes(entries) == {e[2] : e \in entries}

TornAt(recs) == {i \in DOMAIN recs : recs[i] = Torn}
Intact(recs) == {i \in DOMAIN recs : \A j \in TornAt(recs) : i < j}
Subsequence(recs, I) == LET at == SetToSortSeq(I, <) IN [k \in DOMAIN at |-> recs[at[k]]]

(* What ReadRecord may return in turn: a torn record costs the rest of its *)
(* block, and the blocks behind it are not where the reader expects them   *)
(* (EmitPhysicalRecord moves block_offset_ on also when it fails).         *)
ReadRecords(recs) ==
  {Subsequence(recs, Intact(recs) \cup I) :
     I \in SUBSET (DOMAIN recs \ (Intact(recs) \cup TornAt(recs)))}

ApplyEdit(v, e) ==
  [log |-> e.log, next |-> e.next, seq |-> e.seq,
   l0 |-> (v.l0 \ e.deleted) \cup e.l0, l1 |-> (v.l1 \ e.deleted) \cup e.l1]

Files(v) == v.l0 \cup v.l1

(* The MANIFEST: the version up to the last Sync, and the records behind   *)
(* it.  The reader stops at a torn record.  If it is the last one it is    *)
(* taken for the end of the file; with a record behind it, it is that, or  *)
(* it is reported and Open fails, depending on the lengths.                *)
TornEdit == [log |-> 0, next |-> 0, seq |-> 0, l0 |-> {}, l1 |-> {}, deleted |-> {}]
IntactEdits(tail) ==
  LET torn == {i \in DOMAIN tail : tail[i] = TornEdit}
  IN  IF torn = {} THEN tail ELSE SubSeq(tail, 1, Min(torn) - 1)
Describes(manifest) == FoldLeft(ApplyEdit, manifest.version, IntactEdits(manifest.tail))
Corrupted(manifest) ==
  \E i \in DOMAIN manifest.tail : i < Len(manifest.tail) /\ manifest.tail[i] = TornEdit

ManifestSequence(seq, entries) == seq
MaxSequence(seq, entries) == IF entries = {} THEN seq ELSE Max({seq} \cup {e[1] : e \in entries})

(* The memtables that RecoverLogFile fills from the records of a log, one *)
(* after the other: one that is too large is written to a table at once.   *)
MemTables(recs) ==
  LET insert(m, rec) ==
        LET mem == m.mem \cup Entries(rec)
        IN  IF Cardinality(mem) > BufferSize
            THEN [full |-> Append(m.full, mem), mem |-> {}]
            ELSE [m EXCEPT !.mem = mem]
      m == FoldLeft(insert, [full |-> <<>>, mem |-> {}], recs)
  IN  IF m.mem = {} THEN m.full ELSE Append(m.full, m.mem)

(* Recover and RecoverLogFile: the logs in the order of their numbers, each *)
(* into tables of level 0.  read[n] is what the reader returned for log n.  *)
RecoverLogFile(r, n, recs) ==
  LET mems == MemTables(recs)
      used == r.next + Len(mems)
      new  == r.next..(used - 1)
  IN  [next |-> IF used <= n THEN n + 1 ELSE used,
       seq |-> MaxSequence(r.seq, EntriesOf(recs)),
       tables |-> [k \in DOMAIN r.tables \cup new |->
                     IF k \in new THEN mems[k - r.next + 1] ELSE r.tables[k]],
       added |-> r.added \cup new]

RecoverLogs(v, read, tables) ==
  FoldLeft(LAMBDA r, n : RecoverLogFile(r, n, read[n]),
           [next |-> v.next + 1, seq |-> v.seq, tables |-> tables, added |-> {}],
           SetToSortSeq(DOMAIN read, <))
=============================================================================
