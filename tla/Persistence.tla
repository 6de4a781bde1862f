---------------------------- MODULE Persistence ----------------------------
(***************************************************************************)
(* A table with a write-ahead log and snapshots (engine/src/wal.cpp,       *)
(* snapshot.cpp and the end of hash_table.cpp), the process around it and  *)
(* the files that outlive it. The process checkpoints and recovers as      *)
(* bench_persistence.cpp and test_snapshot.cpp do: flush_wal,              *)
(* create_snapshot, truncate_wal; after a restart load_snapshot and        *)
(* replay_wal into a table without a log, then enable_wal.                 *)
(***************************************************************************)
EXTENDS Recovery

CONSTANTS
    Policy,           \* "LRU" or "LFU"
    Batch,            \* batch_size given to enable_wal
    DefaultBatch,     \* its default, used by truncate_wal
    Tears,            \* may a crash leave half of a record in the file?
    MaxLog,           \* bound on the records logged between truncations
    MaxCrashes

ASSUME PersistenceConstants ==
    /\ Policy \in {"LRU", "LFU"}
    /\ Tears \in BOOLEAN
    /\ {Batch, DefaultBatch} \subseteq Nat \ {0}
    /\ {MaxLog, MaxCrashes} \subseteq Nat

VARIABLES
    phase,      \* "serving", "snapshot", "truncate" or "down"
    table,      \* empty while the process is down
    buffer,     \* buffer_ of the WAL writer
    batch,      \* batch_size_
    wal,        \* the log file: the records in it
    snap,       \* the snapshot file
    crashes,
    pending,    \* history: the contents since the last flush, the oldest first
    cut         \* history: did the crash hit a snapshot that replaced another?

vars == <<phase, table, buffer, batch, wal, snap, crashes, pending, cut>>

-----------------------------------------------------------------------------
\* Mutant: the batch is flushed one record late.
AppendRecord_Late(w, r) ==
    LET b == Append(w.buffer, r)
    IN  IF Len(b) > batch THEN [wal |-> w.wal \o b, buffer |-> << >>]
                          ELSE [w EXCEPT !.buffer = b]

\* WALWriter::append, on a writer's file and buffer.
AppendRecord(w, r) ==
    LET b == Append(w.buffer, r)
    IN  IF Len(b) >= batch THEN [wal |-> w.wal \o b, buffer |-> << >>]
                           ELSE [w EXCEPT !.buffer = b]

\* The file and the buffer once the records of log have been appended.
Logged(log) ==
    LET after[n \in 0 .. Len(log)] ==
            IF n = 0 THEN [wal |-> wal, buffer |-> buffer]
                     ELSE AppendRecord(after[n - 1], log[n])
    IN  after[Len(log)]

\* The tables that the calls may leave, one after another, of a new one.
Built(calls) ==
    LET after[n \in 0 .. Len(calls)] ==
            IF n = 0 THEN {NewTable(Policy)}
                     ELSE UNION {Called(t, calls[n]) : t \in after[n - 1]}
    IN  after[Len(calls)]

\* load_snapshot, then replay_wal of the records read.
Rebuilt(s, records) ==
    Built([i \in DOMAIN s.entries |-> LoadCall(s.entries[i])]
            \o [i \in DOMAIN records |-> ReplayCall(records[i])])

-----------------------------------------------------------------------------
Init ==
    /\ phase = "serving"
    /\ table = NewTable(Policy)
    /\ buffer = << >>
    /\ batch = Batch
    /\ wal = << >>
    /\ snap = [state |-> "none", entries |-> << >>]
    /\ crashes = 0
    /\ pending = <<Contents(NewTable(Policy))>>
    /\ cut = FALSE

\* An operation of the table that ends in run r.
Apply(r) ==
    /\ phase = "serving"
    /\ Len(wal) + Len(buffer) + Len(r.log) <= MaxLog
    /\ table' = r.table
    /\ wal' = Logged(r.log).wal
    /\ buffer' = Logged(r.log).buffer
    /\ pending' = IF buffer' = << >> THEN <<Contents(r.table)>>
                                     ELSE Append(pending, Contents(r.table))
    /\ UNCHANGED <<phase, batch, snap, crashes, cut>>

Set(k, v) == \E r \in Inserted(Run(table), k, Entry(v, 0)) : Apply(r)

Delete(k) == Apply(Removed(Run(table), k))

\* A lookup is not logged.
Get(k) ==
    /\ phase = "serving"
    /\ Found(table, k)
    /\ table' = Accessed(table, k)
    /\ UNCHANGED <<phase, buffer, batch, wal, snap, crashes, pending, cut>>

Flushed ==
    /\ wal' = wal \o buffer
    /\ buffer' = << >>
    /\ pending' = <<Contents(table)>>

\* flush_wal
Flush ==
    /\ phase = "serving"
    /\ buffer # << >>
    /\ Flushed
    /\ UNCHANGED <<phase, table, batch, snap, crashes, cut>>

\* Mutant: a snapshot is taken without flushing the log first.
BeginSnapshot_NoFlush ==
    /\ phase = "serving"
    /\ phase' = "snapshot"
    /\ snap' = [state |-> IF snap.state \in {"none", "first"} THEN "first" ELSE "again",
                entries |-> << >>]
    /\ UNCHANGED <<table, buffer, batch, wal, crashes, pending, cut>>

\* A checkpoint begins: flush_wal, and the SnapshotWriter truncates the file.
BeginSnapshot ==
    /\ phase = "serving"
    /\ Flushed
    /\ phase' = "snapshot"
    /\ snap' = [state |-> IF snap.state \in {"none", "first"} THEN "first" ELSE "again",
                entries |-> << >>]
    /\ UNCHANGED <<table, batch, crashes, cut>>

\* SnapshotWriter::write, to its end.
WriteSnapshot ==
    /\ phase = "snapshot"
    /\ phase' = "truncate"
    /\ snap' = [state |-> "whole", entries |-> Listing(Pairs(table))]
    /\ UNCHANGED <<table, buffer, batch, wal, crashes, pending, cut>>

\* The old writer flushes as it goes, the file is emptied, and the new writer has
\* the default batch size.
TruncateWal ==
    /\ phase = "truncate"
    /\ phase' = "serving"
    /\ wal' = << >>
    /\ buffer' = << >>
    /\ batch' = DefaultBatch
    /\ UNCHANGED <<table, snap, crashes, pending, cut>>

\* The destructor of the writer flushes.
Close ==
    /\ phase = "serving"
    /\ Flushed
    /\ phase' = "down"
    /\ table' = NewTable(Policy)
    /\ UNCHANGED <<batch, snap, crashes, cut>>

\* May a flush stop within the record that follows the first n of the buffer? That is
\* one of the buffer, or the record whose append filled the batch.
Tearable(n) ==
    /\ Tears
    /\ n < Len(buffer) \/ (phase = "serving" /\ Len(buffer) + 1 = batch)

\* The process dies. Records of a flush that was going on may have reached the
\* file, and so may a part of a snapshot that was being written.
Crash(n, torn, m) ==
    /\ phase # "down"
    /\ crashes < MaxCrashes
    /\ crashes' = crashes + 1
    /\ phase' = "down"
    /\ n <= Len(buffer)
    /\ torn => Tearable(n)
    /\ wal' = wal \o SubSeq(buffer, 1, n) \o (IF torn THEN <<Torn>> ELSE << >>)
    /\ IF phase = "snapshot"
         THEN /\ m <= table.entries
              /\ snap' = [snap EXCEPT !.entries = SubSeq(Listing(Pairs(table)), 1, m)]
         ELSE m = 0 /\ UNCHANGED snap
    /\ cut' = (phase = "snapshot" /\ snap.state = "again")
    /\ table' = NewTable(Policy)
    /\ buffer' = << >>
    /\ UNCHANGED <<batch, pending>>

\* A restart. Whether load_snapshot succeeds is not looked at.
Recover ==
    /\ phase = "down"
    /\ phase' = "serving"
    /\ \E records \in Readings(wal) : table' \in Rebuilt(snap, records)
    /\ buffer' = << >>
    /\ batch' = Batch
    /\ pending' = <<Contents(table')>>
    /\ cut' = FALSE
    /\ UNCHANGED <<wal, snap, crashes>>

Next ==
    \/ \E k \in Key, v \in Value : Set(k, v)
    \/ \E k \in Key : Delete(k) \/ Get(k)
    \/ Flush
    \/ BeginSnapshot
    \/ WriteSnapshot
    \/ TruncateWal
    \/ Close
    \/ \E n \in 0 .. MaxLog, m \in 0 .. Cardinality(Key), torn \in BOOLEAN :
          Crash(n, torn, m)
    \/ Recover

Spec == Init /\ [][Next]_vars

-----------------------------------------------------------------------------
\* The values each variable takes; a full batch never waits in the buffer.
TypeOK ==
    /\ phase \in {"serving", "snapshot", "truncate", "down"}
    /\ Range(wal) \subseteq Whole \union {Torn}
    /\ Range(buffer) \subseteq Whole
    /\ Len(buffer) < batch
    /\ batch \in {Batch, DefaultBatch}
    /\ snap.state \in {"none", "first", "again", "whole"}
    /\ crashes \in 0 .. MaxCrashes
    /\ pending # << >>
    /\ cut \in BOOLEAN

\* Write-ahead logging: whenever operations are served, whatever checkpoints, crashes
\* and restarts it has been through, the table holds exactly what replaying the
\* log over the snapshot would give, unless records lie behind a torn one.
LogComplete ==
    phase = "serving" /\ Sound(wal \o buffer) =>
        \A records \in Readings(wal \o buffer) :
            \A t \in Rebuilt(snap, records) : Contents(t) = Contents(table)

Restarts == phase = "down" /\ phase' # "down"

\* A restart restores the contents at one moment since the last flush: no flushed
\* operation is lost, and none is applied without those before it. A torn record at
\* the end of the log does no harm. Records behind one do, until the next
\* checkpoint truncates the log.
RecoversPrefix ==
    [][Restarts /\ Sound(wal) /\ ~cut => Contents(table') \in Range(pending)]_vars

\* A crash while a snapshot is overwritten may lose keys, but only those that the
\* log does not mention: all that was set or removed since the last checkpoint is
\* restored, and nothing comes back that was not there.
SnapshotLoss ==
    [][Restarts /\ Sound(wal) /\ cut =>
          \A k \in Key :
             \/ Contents(table')[k] = Back(pending)[k]
             \/ /\ Contents(table')[k] = None
                /\ \A i \in 1 .. Len(wal) : wal[i] # Torn => wal[i].key # k]_vars

\* A restart after all operations were flushed finds every key with its value.
ZeroDataLoss ==
    [][phase = "down" /\ phase' # "down" /\ Len(pending) = 1 =>
          \A k \in Key : pending[1][k] # None => Contents(table')[k] = pending[1][k]]_vars

=============================================================================
