--------------------------- MODULE PersistenceMC ---------------------------
EXTENDS Persistence

\* Value i has i bytes.
Bytes == [v \in Value |-> v]

Identity == [k \in Key |-> k]

=============================================================================
