--------------------------- MODULE EpollServerMC ---------------------------
(* Instances of EpollServer for TLC. *)
EXTENDS EpollServer

CONSTANTS c1, c2

Requests(n, wait, s1, s2) ==
  [limit |-> n, polite |-> wait, script |-> [c \in Clients |-> IF c = c1 THEN s1 ELSE s2]]

Command == Array(<<BulkString(<<"a">>)>>)

\* A bulk string with a CRLF in it and a number after it; a command; two requests
\* sent without waiting; two connections with a short request each, which have a
\* descriptor each or only one.
Mixed ==
  {Requests(1, TRUE, <<BulkString(CRLF), Integer(1)>>, <<>>),
   Requests(1, TRUE, <<Command>>, <<>>),
   Requests(1, FALSE, <<SimpleString(<<>>), Integer(2)>>, <<>>),
   Requests(1, TRUE, <<SimpleString(<<>>)>>, <<NullBulkString>>),
   Requests(2, TRUE, <<SimpleString(<<>>)>>, <<NullBulkString>>)}

Commands == {Requests(1, TRUE, <<Command>>, <<>>)}
=============================================================================
