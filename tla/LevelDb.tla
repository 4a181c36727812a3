------------------------------ MODULE LevelDb ------------------------------
(***************************************************************************)
(* The write path of leveldb and what survives a crash: DBImpl::Write with *)
(* its groups, the switch of memtables, the background thread that turns   *)
(* memtables into tables and merges tables, the deletion of files, and     *)
(* DB::Open after the process or the machine stopped at any moment         *)
(* (leveldb-1.20/db/db_impl.cc, version_set.cc).                           *)
(*                                                                         *)
(* A step is what a thread does while it holds mutex_, or one call on a    *)
(* file that it makes without it.  Options have their default values:      *)
(* reuse_logs and paranoid_checks are false.                               *)
(***************************************************************************)
EXTENDS LevelDbFiles

CONSTANTS
  Threads,
  MaxCalls,                   \* calls of Write and of TEST_CompactMemTable
  L0_CompactionTrigger, L0_SlowdownWritesTrigger, L0_StopWritesTrigger,
  MaxTroubles                 \* crashes, closes, and calls of the Env that fail

ASSUME TriggerAssumption ==
  /\ L0_CompactionTrigger \in Nat \ {0}
  /\ L0_CompactionTrigger <= L0_StopWritesTrigger

VARIABLES
  logs, tables, manifest,         \* the disk
  state,                          \* of the database handle
  versions, logfile_number_, mem_, imm_, bg_error_, scheduled,
  writers_, group,                \* the queue and the group being written
  pc, call,                       \* of each thread
  bg,                             \* the background thread
  issued, troubles,               \* bounds
  owed, durable, acked, failed    \* history: see OwedVisible and StatusTrue

disk == <<logs, tables, manifest>>
memory == <<versions, logfile_number_, mem_, imm_>>
queue == <<writers_, group>>
background == <<scheduled, bg_error_, bg>>
bounds == <<issued, troubles>>
history == <<owed, durable, acked, failed>>
vars == <<disk, state, memory, queue, background, pc, call, bounds, history>>

Null == 0      \* my_batch == nullptr, and no file
NoCall == [batch |-> Null, sync |-> FALSE, force |-> FALSE, allow_delay |-> FALSE,
           done |-> FALSE, ok |-> FALSE]
NoGroup == [n |-> 0, rec |-> Torn, status |-> "ok"]
BgIdle == [pc |-> "idle", out |-> Null, nested |-> FALSE, inputs |-> {},
           output |-> Null, edit |-> TornEdit]
NoVersion == [log |-> 0, next |-> 0, seq |-> 0, l0 |-> {}, l1 |-> {}]

Open == state \in {"open", "closing"}
shutting_down_ == state = "closing"

EmptyLog == [recs |-> <<>>, synced |-> 0]
log_ == logs[logfile_number_]
Trouble == troubles < MaxTroubles /\ troubles' = troubles + 1

Init ==
  /\ logs = (3 :> EmptyLog) /\ tables = <<>>
  /\ manifest = [version |-> [NoVersion EXCEPT !.log = 3, !.next = 4], tail |-> <<>>]
  /\ state = "open"
  /\ versions = [NoVersion EXCEPT !.log = 3, !.next = 4]
  /\ logfile_number_ = 3 /\ mem_ = {} /\ imm_ = {}
  /\ writers_ = <<>> /\ group = NoGroup
  /\ scheduled = FALSE /\ bg_error_ = FALSE /\ bg = BgIdle
  /\ pc = [t \in Threads |-> "idle"] /\ call = [t \in Threads |-> NoCall]
  /\ issued = 0 /\ troubles = 0
  /\ owed = {} /\ durable = {} /\ acked = {} /\ failed = {}

-----------------------------------------------------------------------------
(* MaybeScheduleCompaction, as the value it leaves in                      *)
(* background_compaction_scheduled_.                                       *)
NeedsCompaction(v) == Cardinality(v.l0) >= L0_CompactionTrigger

MaybeScheduleCompaction(was, error, imm, v) ==
  was \/ (~shutting_down_ /\ ~error /\ (imm # {} \/ NeedsCompaction(v)))

(* background_work_finished_signal_.SignalAll *)
SignalAll(p) ==
  [t \in Threads |-> CASE p[t] = "roomWait" -> "room"
                       [] p[t] = "flushWait" -> "flush"
                       [] OTHER -> p[t]]

DeleteFiles(v, live) ==
  /\ logs' = RestrictDomain(logs, LAMBDA n : n >= v.log)
  /\ tables' = RestrictDomain(tables, LAMBDA n : n \in Files(v) \cup live)

DeleteAfterError(error, v, live) == DeleteFiles(v, live)

DeleteObsoleteFiles(error, v, live) ==
  IF error THEN UNCHANGED <<logs, tables>> ELSE DeleteFiles(v, live)

-----------------------------------------------------------------------------
(* DBImpl::Write *)

(* The writer joins the queue, and waits unless it is its front. *)
Enqueue(t, batch, sync) ==
  /\ state = "open" /\ pc[t] = "idle"
  /\ writers_' = Append(writers_, t)
  /\ call' = [call EXCEPT ![t] = [NoCall EXCEPT !.batch = batch, !.sync = sync,
                                    !.force = batch = Null, !.allow_delay = batch # Null]]
  /\ pc' = [pc EXCEPT ![t] = IF writers_ = <<>> THEN "room" ELSE "wait"]
  /\ issued < MaxCalls /\ issued' = issued + 1
  /\ UNCHANGED <<disk, state, memory, group, background, troubles, history>>

Write(t) == \E sync \in BOOLEAN : Enqueue(t, issued + 1, sync)

(* TEST_CompactMemTable, which CompactRange calls: Write(nullptr), then a wait. *)
CompactMemTableNow(t) == Enqueue(t, Null, FALSE)

(* Where a call goes on when Write returns. *)
Returned(t, ok) == IF call[t].batch = Null /\ ok THEN "flush" ELSE "idle"

(* Write returns its status to the caller (history). *)
Answer(t, ok) ==
  LET write == {call[t].batch} \ {Null}
  IN  /\ acked' = IF ok THEN acked \cup write ELSE acked
      /\ failed' = IF ok THEN failed ELSE failed \cup write

(* The writer was signalled: it is done or it has become the front. *)
Awake(t) ==
  /\ pc[t] = "awake"
  /\ \/ /\ call[t].done
        /\ pc' = [pc EXCEPT ![t] = Returned(t, call[t].ok)]
        /\ call' = [call EXCEPT ![t] = NoCall]
        /\ Answer(t, call[t].ok)
     \/ /\ ~call[t].done /\ Head(writers_) = t
        /\ pc' = [pc EXCEPT ![t] = "room"]
        /\ UNCHANGED <<call, acked, failed>>
     \/ /\ ~call[t].done /\ Head(writers_) # t
        /\ pc' = [pc EXCEPT ![t] = "wait"]
        /\ UNCHANGED <<call, acked, failed>>
  /\ UNCHANGED <<disk, state, memory, queue, background, bounds, owed, durable>>

Wait(t) ==
  /\ pc[t] = "flush"
  /\ pc' = [pc EXCEPT ![t] = IF imm_ # {} /\ ~bg_error_ THEN "flushWait" ELSE "idle"]
  /\ UNCHANGED <<disk, state, memory, queue, background, call, bounds, history>>

(* The last part of Write: the group of the first n writers leaves the     *)
(* queue with its status, and the next writer is told that it leads.       *)
TellOk(u, ok) == [call[u] EXCEPT !.done = TRUE, !.ok = TRUE]
Tell(u, ok) == [call[u] EXCEPT !.done = TRUE, !.ok = ok]

NotifyNobody(rest) == {}
NotifyNewHead(rest) == IF rest = <<>> THEN {} ELSE {Head(rest)}

PopWriters(t, n, ok, signalled) ==
  LET done == {writers_[i] : i \in 1..n} \ {t}
      rest == SubSeq(writers_, n + 1, Len(writers_))
      awake == done \cup NotifyNewHead(rest)
  IN  /\ writers_' = rest
      /\ pc' = [u \in Threads |-> IF u = t THEN Returned(t, ok)
                                  ELSE IF u \in awake THEN "awake" ELSE signalled[u]]
      /\ call' = [u \in Threads |-> IF u = t THEN NoCall
                                    ELSE IF u \in done THEN Tell(u, ok) ELSE call[u]]
      /\ group' = NoGroup

-----------------------------------------------------------------------------
(* MakeRoomForWrite.  Only the front of the queue is here. *)
HasRoom(force, mem) == ~force /\ Cardinality(mem) <= BufferSize
MustDelay(t) == call[t].allow_delay /\ Cardinality(versions.l0) >= L0_SlowdownWritesTrigger

(* The sizes that BuildBatchGroup may give the group: a sync write is not  *)
(* taken by one that is not, and a batch may be too big to be added.       *)
BuildBatchGroup ==
  LET joins(i) == call[writers_[i]].sync => call[writers_[1]].sync
  IN  {n \in 1..Len(writers_) :
         /\ \A i \in 2..n : joins(i)
         /\ n < Len(writers_) => ~joins(n + 1) \/ call[writers_[n + 1]].batch # Null}

(* Room was made: Write goes on to the log, or ends if it has no batch. *)
Proceed(t) ==
  IF call[t].batch = Null
  THEN PopWriters(t, 1, TRUE, pc)
  ELSE /\ \E n \in BuildBatchGroup :
            group' = [n |-> n, status |-> "ok",
                      rec |-> [seq |-> versions.seq + 1,
                               ws |-> SelectSeq([i \in 1..n |-> call[writers_[i]].batch],
                                                LAMBDA b : b # Null)]]
       /\ pc' = [pc EXCEPT ![t] = "append"]
       /\ UNCHANGED <<writers_, call>>

Fail(t) ==
  /\ PopWriters(t, 1, FALSE, pc)
  /\ Answer(t, FALSE)
  /\ UNCHANGED <<owed, durable>>

RoomError(t) ==
  /\ pc[t] = "room" /\ bg_error_
  /\ Fail(t)
  /\ UNCHANGED <<disk, state, memory, background, bounds>>

Delay(t) ==
  /\ pc[t] = "room" /\ ~bg_error_ /\ MustDelay(t)
  /\ call' = [call EXCEPT ![t].allow_delay = FALSE]
  /\ UNCHANGED <<disk, state, memory, queue, background, pc, bounds, history>>

Room(t) ==
  /\ pc[t] = "room" /\ ~bg_error_ /\ ~MustDelay(t) /\ HasRoom(call[t].force, mem_)
  /\ Proceed(t)
  /\ UNCHANGED <<disk, state, memory, background, bounds, history>>

Full(t) == pc[t] = "room" /\ ~bg_error_ /\ ~MustDelay(t) /\ ~HasRoom(call[t].force, mem_)
TooMany == imm_ # {} \/ Cardinality(versions.l0) >= L0_StopWritesTrigger

RoomWait(t) ==
  /\ Full(t) /\ TooMany
  /\ pc' = [pc EXCEPT ![t] = "roomWait"]
  /\ UNCHANGED <<disk, state, memory, queue, background, call, bounds, history>>

(* A new log and a new memtable; the loop then finds room. *)
SwitchMemTable(t) ==
  /\ Full(t) /\ ~TooMany
  /\ logs' = logs @@ (versions.next :> EmptyLog)
  /\ logfile_number_' = versions.next
  /\ versions' = [versions EXCEPT !.next = @ + 1]
  /\ imm_' = {mem_} /\ mem_' = {}
  /\ scheduled' = MaybeScheduleCompaction(scheduled, FALSE, {mem_}, versions)
  /\ Proceed(t)
  /\ UNCHANGED <<tables, manifest, state, bg_error_, bg, bounds, history>>

NewLogFails(t) ==
  /\ Full(t) /\ ~TooMany
  /\ Trouble /\ Fail(t)
  /\ UNCHANGED <<disk, state, memory, background, issued>>

-----------------------------------------------------------------------------
(* The group is written without mutex_. *)
AddRecord(t) ==
  /\ pc[t] = "append"
  /\ logs' = [logs EXCEPT ![logfile_number_].recs = Append(@, group.rec)]
  /\ pc' = [pc EXCEPT ![t] = IF call[t].sync THEN "sync" ELSE "insert"]
  /\ UNCHANGED <<tables, manifest, state, memory, queue, background, call, bounds, history>>

(* The call fails after it wrote a part of the record, or nothing. *)
AddRecordFails(t) ==
  /\ pc[t] = "append" /\ Trouble
  /\ logs' = [logs EXCEPT ![logfile_number_].recs = Append(@, Torn)]
  /\ group' = [group EXCEPT !.status = "error"]
  /\ pc' = [pc EXCEPT ![t] = "insert"]
  /\ UNCHANGED <<tables, manifest, state, memory, writers_, background, call,
                 issued, history>>

Sync(t) ==
  /\ pc[t] = "sync"
  /\ logs' = [logs EXCEPT ![logfile_number_].synced = Len(log_.recs)]
  /\ pc' = [pc EXCEPT ![t] = "insert"]
  /\ UNCHANGED <<tables, manifest, state, memory, queue, background, call, bounds, history>>

SyncFails(t) ==
  /\ pc[t] = "sync" /\ Trouble
  /\ group' = [group EXCEPT !.status = "sync_error"]
  /\ pc' = [pc EXCEPT ![t] = "insert"]
  /\ UNCHANGED <<disk, state, memory, writers_, background, call,
                 issued, history>>

InsertInto(ok) == IF ok THEN mem_ \cup Entries(group.rec) ELSE mem_

(* InsertInto, and the rest of Write under mutex_. *)
Insert(t) ==
  LET ok   == group.status = "ok"
      ws   == Writes(Entries(group.rec))
      dies == group.status = "sync_error"
  IN  /\ pc[t] = "insert"
      /\ mem_' = InsertInto(ok)
      /\ bg_error_' = (bg_error_ \/ dies)
      /\ versions' = [versions EXCEPT !.seq = @ + Len(group.rec.ws)]
      /\ PopWriters(t, group.n, ok, IF dies THEN SignalAll(pc) ELSE pc)
      /\ owed' = IF ok /\ TornAt(log_.recs) = {} THEN owed \cup ws ELSE owed
      /\ durable' = IF ok /\ call[t].sync
                    THEN durable \cup Writes(EntriesOf(Subsequence(log_.recs, Intact(log_.recs))))
                    ELSE durable
      /\ Answer(t, ok)
      /\ UNCHANGED <<disk, state, logfile_number_, imm_, scheduled, bg, bounds>>

-----------------------------------------------------------------------------
(* The background thread: BackgroundCall and BackgroundCompaction *)

EndUnscheduled(error, imm, v) ==
  /\ bg' = BgIdle /\ scheduled' = FALSE
  /\ pc' = SignalAll(pc)

EndBackgroundCall(error, imm, v) ==
  /\ bg' = BgIdle
  /\ scheduled' = MaybeScheduleCompaction(FALSE, error, imm, v)
  /\ pc' = SignalAll(pc)

(* CompactMemTable up to the call of BuildTable. *)
StartMemTable(nested) ==
  /\ bg' = [bg EXCEPT !.pc = "build", !.out = versions.next, !.nested = nested]
  /\ versions' = [versions EXCEPT !.next = @ + 1]
  /\ UNCHANGED <<scheduled, pc>>

(* An edit, with the numbers that LogAndApply adds to it. *)
Edit(l0, l1, deleted) ==
  [log |-> versions.log, next |-> versions.next, seq |-> versions.seq,
   l0 |-> l0, l1 |-> l1, deleted |-> deleted]

IsTrivialMove(l0, l1) == Cardinality(l0) = 1 /\ l1 = {}

(* PickCompaction takes files of level 0 that overlap each other and what  *)
(* they overlap above.                                                     *)
BackgroundCall ==
  /\ Open /\ scheduled /\ bg.pc = "idle"
  /\ \/ /\ shutting_down_ \/ bg_error_ \/ (imm_ = {} /\ ~NeedsCompaction(versions))
        /\ EndBackgroundCall(bg_error_, imm_, versions)
        /\ UNCHANGED versions
     \/ /\ ~shutting_down_ /\ ~bg_error_ /\ imm_ # {}
        /\ StartMemTable(FALSE)
     \/ /\ ~shutting_down_ /\ ~bg_error_ /\ imm_ = {} /\ NeedsCompaction(versions)
        /\ \E l0 \in SUBSET versions.l0 \ {{}}, l1 \in {{}, versions.l1} :
             \/ bg' = [bg EXCEPT !.pc = "loop", !.inputs = l0 \cup l1]
             \/ IsTrivialMove(l0, l1) /\ bg' = [bg EXCEPT !.pc = "move", !.edit = Edit({}, l0, l0)]
        /\ UNCHANGED <<versions, scheduled, pc>>
  /\ UNCHANGED <<disk, state, logfile_number_, mem_, imm_, queue, bg_error_, call,
                 bounds, history>>

(* CompactMemTable returns, to BackgroundCall or to the loop of            *)
(* DoCompactionWork, which signals too.                                    *)
EndMemTable(error, imm, v) ==
  IF bg.nested
  THEN /\ bg' = [bg EXCEPT !.pc = "loop", !.out = Null, !.nested = FALSE, !.edit = TornEdit]
       /\ pc' = SignalAll(pc)
       /\ UNCHANGED scheduled
  ELSE EndBackgroundCall(error, imm, v)

(* WriteLevel0Table; LogAndApply then takes the numbers of this moment.    *)
BuildTable ==
  LET table == IF UNION imm_ = {} THEN {} ELSE {bg.out}
  IN  /\ bg.pc = "build"
      /\ tables' = [n \in DOMAIN tables \cup table |->
                      IF n \in table THEN UNION imm_ ELSE tables[n]]
      /\ IF shutting_down_
         THEN bg_error_' = TRUE /\ EndMemTable(TRUE, imm_, versions)
         ELSE /\ \E l0 \in SUBSET table :      \* PickLevelForMemTableOutput
                   bg' = [bg EXCEPT !.pc = "apply",
                            !.edit = [Edit(l0, table \ l0, {}) EXCEPT !.log = logfile_number_]]
              /\ UNCHANGED <<bg_error_, scheduled, pc>>
      /\ UNCHANGED <<logs, manifest, state, memory, queue, call, bounds, history>>

BuildTableFails ==
  /\ bg.pc = "build" /\ Trouble
  /\ bg_error_' = TRUE /\ EndMemTable(TRUE, imm_, versions)
  /\ UNCHANGED <<disk, state, memory, queue, call, issued, history>>

(* DoCompactionWork: the merged table is written, memtables come first. *)
CompactionMemTable ==
  /\ bg.pc = "loop" /\ state = "open" /\ imm_ # {}
  /\ StartMemTable(TRUE)
  /\ UNCHANGED <<disk, state, logfile_number_, mem_, imm_, queue, bg_error_, call,
                 bounds, history>>

CompactionOutput ==
  /\ bg.pc = "loop" /\ state = "open" /\ bg.output = Null
  /\ tables' = [n \in DOMAIN tables \cup {versions.next} |->
                  IF n = versions.next THEN UNION {tables[i] : i \in bg.inputs}
                  ELSE tables[n]]
  /\ bg' = [bg EXCEPT !.output = versions.next]
  /\ versions' = [versions EXCEPT !.next = @ + 1]
  /\ UNCHANGED <<logs, manifest, state, logfile_number_, mem_, imm_, queue, scheduled,
                 bg_error_, pc, call, bounds, history>>

(* An output cannot be written, or the database is being closed. *)
CompactionFails ==
  /\ bg.pc = "loop"
  /\ IF shutting_down_ THEN UNCHANGED troubles ELSE Trouble
  /\ bg_error_' = TRUE
  /\ DeleteObsoleteFiles(TRUE, versions, {})
  /\ EndBackgroundCall(TRUE, imm_, versions)
  /\ UNCHANGED <<manifest, state, memory, queue, call, issued, history>>

InstallCompactionResults ==
  /\ bg.pc = "loop" /\ state = "open" /\ bg.output # Null
  /\ bg' = [bg EXCEPT !.pc = "install", !.edit = Edit({}, {bg.output}, bg.inputs)]
  /\ UNCHANGED <<disk, state, memory, queue, scheduled, bg_error_, pc, call,
                 bounds, history>>

-----------------------------------------------------------------------------
(* VersionSet::LogAndApply, from the write to the MANIFEST on, and what    *)
(* CompactMemTable or BackgroundCompaction do with its result.             *)
LogAndApply ==
  LET applied == [versions EXCEPT !.log = bg.edit.log,
                    !.l0 = ApplyEdit(versions, bg.edit).l0,
                    !.l1 = ApplyEdit(versions, bg.edit).l1]
      tail    == Append(manifest.tail, bg.edit)
      torn    == Corrupted([manifest EXCEPT !.tail = tail])
      landed  == IF torn THEN {} ELSE Writes(UNION imm_)
  IN  /\ bg.pc \in {"apply", "install", "move"}
      /\ manifest' = IF torn
                     THEN [manifest EXCEPT !.tail = tail]
                     ELSE [version |-> Describes([manifest EXCEPT !.tail = tail]),
                           tail |-> <<>>]
      /\ versions' = applied
      /\ \/ /\ bg.pc = "apply"
            /\ imm_' = {}
            /\ DeleteObsoleteFiles(bg_error_, applied, bg.inputs \cup {bg.output})
            /\ EndMemTable(bg_error_, {}, applied)
            /\ durable' = durable \cup landed
            /\ owed' = owed \cup landed
         \/ /\ bg.pc = "install"
            /\ DeleteObsoleteFiles(bg_error_, applied, {})
            /\ EndBackgroundCall(bg_error_, imm_, applied)
            /\ UNCHANGED <<imm_, durable, owed>>
         \/ /\ bg.pc = "move"
            /\ EndBackgroundCall(bg_error_, imm_, applied)
            /\ UNCHANGED <<logs, tables, imm_, durable, owed>>
      /\ UNCHANGED <<state, logfile_number_, mem_, queue, bg_error_, call, bounds, acked,
                     failed>>

(* The record may be missing, torn, or complete without being synced. *)
LogAndApplyFails ==
  /\ bg.pc \in {"apply", "install", "move"} /\ Trouble
  /\ \E tail \in {manifest.tail, Append(manifest.tail, TornEdit),
                  Append(manifest.tail, bg.edit)} :
       manifest' = [manifest EXCEPT !.tail = tail]
  /\ bg_error_' = TRUE
  /\ \/ /\ bg.pc \in {"apply", "move"}
        /\ EndMemTable(TRUE, imm_, versions)
        /\ UNCHANGED <<logs, tables>>
     \/ /\ bg.pc = "install"
        /\ DeleteObsoleteFiles(TRUE, versions, {})
        /\ EndBackgroundCall(TRUE, imm_, versions)
  /\ UNCHANGED <<state, memory, queue, call, issued, history>>

-----------------------------------------------------------------------------
(* The process ends: what it kept in memory is gone. *)
Forget ==
  /\ state' = "down"
  /\ versions' = NoVersion /\ logfile_number_' = Null /\ mem_' = {} /\ imm_' = {}
  /\ writers_' = <<>> /\ group' = NoGroup
  /\ scheduled' = FALSE /\ bg_error_' = FALSE /\ bg' = BgIdle
  /\ pc' = [t \in Threads |-> "idle"] /\ call' = [t \in Threads |-> NoCall]
  /\ acked' = {} /\ failed' = {}

(* The process crashes; the system keeps what it was given. *)
ProcessCrash ==
  /\ state \in {"open", "closing", "opening"}
  /\ Trouble
  /\ Forget
  /\ UNCHANGED <<disk, issued, owed, durable>>

(* The machine crashes: every file keeps what was synced and some of the rest. *)
MachineCrash ==
  /\ state \in {"open", "closing", "opening"}
  /\ Trouble
  /\ Forget
  /\ \E keep \in [DOMAIN logs -> 0..MaxCalls + MaxTroubles] :
       /\ \A n \in DOMAIN logs : keep[n] \in logs[n].synced..Len(logs[n].recs)
       /\ logs' = [n \in DOMAIN logs |-> [recs |-> SubSeq(logs[n].recs, 1, keep[n]),
                                          synced |-> keep[n]]]
  /\ \E k \in 0..Len(manifest.tail) :
       /\ Corrupted(manifest) => k = Len(manifest.tail)
       /\ manifest' = [manifest EXCEPT !.tail = SubSeq(@, 1, k)]
  /\ owed' = owed \cap durable
  /\ UNCHANGED <<tables, issued, durable>>

(* ~DBImpl: no call is running; it waits for the background thread. *)
Close ==
  /\ state = "open" /\ \A t \in Threads : pc[t] = "idle"
  /\ Trouble
  /\ state' = "closing"
  /\ UNCHANGED <<disk, memory, queue, background, pc, call, issued, history>>

Closed ==
  /\ state = "closing" /\ ~scheduled
  /\ Forget
  /\ UNCHANGED <<disk, bounds, owed, durable>>

-----------------------------------------------------------------------------
LaterLogs(v) == {n \in DOMAIN logs : n > v.log}
NeededLogs(v) == {n \in DOMAIN logs : n >= v.log}

(* DB::Open up to LogAndApply: Recover reads the MANIFEST and the logs,    *)
(* writes what the logs held to tables, and a new log is made.             *)
Recover ==
  LET v == Describes(manifest)
      missing == Files(v) \ (DOMAIN tables \cup DOMAIN logs)
      needed == NeededLogs(v)
  IN  /\ state = "down"
      /\ \/ /\ Corrupted(manifest) \/ missing # {}
            /\ state' = "failed"
            /\ UNCHANGED <<logs, tables, versions, logfile_number_, bg>>
         \/ /\ missing = {}
            /\ \E read \in [needed -> UNION {ReadRecords(logs[n].recs) : n \in needed}] :
                 /\ \A n \in needed : read[n] \in ReadRecords(logs[n].recs)
                 /\ LET r == RecoverLogs(v, read, tables)
                    IN  /\ tables' = r.tables
                        /\ logs' = logs @@ (r.next :> EmptyLog)
                        /\ logfile_number_' = r.next
                        /\ versions' = [v EXCEPT !.next = r.next + 1, !.seq = r.seq]
                        /\ bg' = [BgIdle EXCEPT !.edit =
                                    [log |-> r.next, next |-> r.next + 1, seq |-> r.seq,
                                     l0 |-> r.added, l1 |-> {}, deleted |-> {}]]
            /\ state' = "opening"
      /\ UNCHANGED <<manifest, mem_, imm_, queue, scheduled, bg_error_, pc, call, bounds,
                     history>>

(* The rest of DB::Open: a new MANIFEST is written and CURRENT renamed. *)
OpenInstalls ==
  LET v == ApplyEdit(versions, bg.edit)
  IN  /\ state = "opening"
      /\ manifest' = [version |-> v, tail |-> <<>>]
      /\ versions' = v
      /\ DeleteObsoleteFiles(FALSE, v, {})
      /\ scheduled' = MaybeScheduleCompaction(FALSE, FALSE, {}, v)
      /\ bg' = BgIdle
      /\ state' = "open"
      /\ durable' = durable \cup Writes(UNION {tables[n] : n \in Files(v)})
      /\ owed' = owed \cup Writes(UNION {tables[n] : n \in Files(v)})
      /\ UNCHANGED <<logfile_number_, mem_, imm_, queue, bg_error_, pc, call, bounds,
                     acked, failed>>

OpenFails ==
  /\ state = "opening" /\ Trouble
  /\ Forget
  /\ UNCHANGED <<disk, issued, owed, durable>>

-----------------------------------------------------------------------------
ThreadStep(t) ==
  \/ Awake(t) \/ Wait(t) \/ RoomError(t) \/ Delay(t) \/ Room(t) \/ RoomWait(t)
  \/ SwitchMemTable(t) \/ NewLogFails(t) \/ AddRecord(t) \/ AddRecordFails(t)
  \/ Sync(t) \/ SyncFails(t) \/ Insert(t)

BackgroundStep ==
  \/ BackgroundCall \/ BuildTable \/ BuildTableFails \/ CompactionMemTable
  \/ CompactionOutput \/ CompactionFails \/ InstallCompactionResults
  \/ LogAndApply \/ LogAndApplyFails

OpenStep == Closed \/ Recover \/ OpenInstalls \/ OpenFails

Next ==
  \/ \E t \in Threads : Write(t) \/ CompactMemTableNow(t) \/ ThreadStep(t)
  \/ BackgroundStep
  \/ ProcessCrash \/ MachineCrash \/ Close \/ OpenStep

Spec == Init /\ [][Next]_vars

(* A thread that can run does: the writers, the background thread, and the *)
(* one that closes the database.                                           *)
Fairness ==
  /\ \A t \in Threads : WF_vars(ThreadStep(t))
  /\ WF_vars(BackgroundStep) /\ WF_vars(Closed)

FairSpec == Spec /\ Fairness

-----------------------------------------------------------------------------
TypeOK ==
  /\ state \in {"open", "closing", "down", "opening", "failed"}
  /\ \A n \in DOMAIN logs : logs[n].synced \in 0..Len(logs[n].recs)
  /\ logfile_number_ \in DOMAIN logs \cup {Null}
  /\ Cardinality(imm_) <= 1
  /\ pc \in [Threads -> {"idle", "wait", "awake", "room", "roomWait", "append", "sync",
                         "insert", "flush", "flushWait"}]
  /\ bg.pc \in {"idle", "build", "apply", "loop", "install", "move"}
  /\ issued \in 0..MaxCalls /\ troubles \in 0..MaxTroubles

Stored == mem_ \cup UNION imm_ \cup UNION {tables[n] : n \in Files(versions)}

(* No acknowledged write is lost: a write that Write acknowledged is in a  *)
(* memtable or in a live table for as long as the machine runs, whatever   *)
(* process crashes come between; and also after a crash of the machine if  *)
(* its record had been synced (by its own sync or by a later one of the    *)
(* same log) or its memtable had been written to a table.  A write whose   *)
(* log had a torn record before it is owed only once it is in a table, and *)
(* a table counts only if no torn record precedes it in the MANIFEST: the  *)
(* reader may drop what follows a torn record.                             *)
OwedVisible == Open => owed \subseteq Writes(Stored)

(* As long as the process runs, the status that Write returned is true:    *)
(* a write told "OK" is in the database, and one told of an error is not - *)
(* whoever led its group.  The followers get the status that the leader    *)
(* copied to them, and the group is inserted only if its record was        *)
(* written (and synced).                                                   *)
StatusTrue == Open => /\ acked \subseteq Writes(Stored)
                      /\ failed \cap Writes(Stored) = {}

(* Sequence numbers name writes: no two writes stored have the same one,   *)
(* none has two, and none is above LastSequence, so that the next write    *)
(* gets a new one - also after the logs were replayed.                     *)
SequenceExact ==
  Open => \A a, b \in Stored : /\ (a[1] = b[1]) <=> (a[2] = b[2])
                               /\ a[1] <= versions.seq

(* Open succeeds after a crash at any moment: every table that the MANIFEST *)
(* names, with or without its records not yet synced, is on the disk; Open  *)
(* fails only if a record was appended behind a torn one.                   *)
Reopens ==
  /\ state = "failed" => Corrupted(manifest)
  /\ \A k \in 0..Len(manifest.tail) :
       Files(Describes([manifest EXCEPT !.tail = SubSeq(@, 1, k)])) \subseteq DOMAIN tables

(* Every call of Write and of TEST_CompactMemTable returns (or ends with   *)
(* the process): no writer misses the signal of the writer that led its    *)
(* group or went before it, or of the background thread.                   *)
WriteReturns == \A t \in Threads : (pc[t] # "idle") ~> (pc[t] = "idle")

(* A memtable that was switched out is written to a table, unless the      *)
(* database stops or has recorded an error: merging does not keep it out.  *)
MemTableWritten == (imm_ # {}) ~> (imm_ = {} \/ bg_error_)
=============================================================================
