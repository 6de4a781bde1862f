---------------------------- MODULE HashTableMC ----------------------------
EXTENDS HashTable

\* Value i has i bytes.
Bytes == [v \in Value |-> v]

\* 1 and 3 share a bucket of 2, and part when there are 4.
Identity == [k \in Key |-> k]

\* Bound on the stale entries in LFU's heap.
MaxStale == 2

FewStale == Cardinality(table.pol.heap \ Valid(table.pol)) <= MaxStale

\* No operation looks at the scanner's state, and a running scanner may do nothing: a
\* stopped one adds no behaviour of the table and need not be followed once there
\* are entries.
ScannerStarted == scanner = "running" \/ table.entries = 0

\* No step depends on the call made before it.
Lasting == <<table, now, scanner, expired, older>>

=============================================================================
