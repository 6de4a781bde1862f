------------------------------ MODULE Recovery ------------------------------
(***************************************************************************)
(* What is in a log file, what reading it delivers after a crash (the      *)
(* reader in engine/src/wal.cpp), and the calls on a table that            *)
(* load_snapshot and replay_wal make of a snapshot and of the records.     *)
(***************************************************************************)
EXTENDS TableOps, FiniteSetsExt

\* A record cut short. At the end of the file read_next finds it incomplete, and
\* the replay is over. With records behind it, its missing bytes are taken from
\* theirs: it then reads as any record, or as none. Replay goes on behind it at an
\* arbitrary byte; one such record stands for all it may find.
Torn == [op |-> "TORN"]

Whole ==
    [op : {"SET"}, key : Key, value : Value, expiry : {0}]
      \union [op : {"DELETE"}, key : Key]

\* Nothing was written behind a torn record.
Sound(file) == \A i \in 1 .. Len(file) - 1 : file[i] # Torn

\* Mutant: the reader takes the last record for the end of the file.
Readings_EarlyEnd(file) ==
    LET whole == SelectSeq(file, LAMBDA r : r # Torn)
    IN  {SubSeq(whole, 1, Len(whole) - 1)}

\* The sequences of records that reading file may deliver.
Readings(file) ==
    LET torn == {i \in DOMAIN file : file[i] = Torn}
        prefix == SubSeq(file, 1, Min(torn) - 1)
    IN  IF torn = {} THEN {file}
        ELSE {prefix} \union IF Sound(file) THEN {} ELSE {Append(prefix, r) : r \in Whole}

\* load_snapshot inserts an entry as soon as it has read it: those before the end
\* of a cut file stay.
LoadCall(kv) == [op |-> "insert", key |-> kv.key, entry |-> kv.entry]

\* One turn of replay_wal. Its case for EXPIRE records is left out: nothing writes them.
ReplayCall(r) ==
    IF r.op = "SET" THEN [op |-> "insert", key |-> r.key, entry |-> Entry(r.value, r.expiry)]
                    ELSE [op |-> "remove", key |-> r.key]

\* Mutant: deletes are not replayed.
Called_NoRemove(t, c) ==
    IF c.op = "insert" THEN {r.table : r \in Inserted(Run(t), c.key, c.entry)} ELSE {t}

\* The tables that a call on table t, which has no log, may leave.
Called(t, c) ==
    IF c.op = "insert" THEN {r.table : r \in Inserted(Run(t), c.key, c.entry)}
                       ELSE {Removed(Run(t), c.key).table}

=============================================================================
