-------------------------------- MODULE Resp --------------------------------
(***************************************************************************)
(* The RESP protocol of engine/src/resp.cpp: values, their encoding, and   *)
(* the incremental parser each connection of the epoll server owns.        *)
(*                                                                         *)
(* A stream is a sequence of tokens.  A type byte, CR, LF and a byte of    *)
(* text are one token each; the decimal digits of one number are a single  *)
(* token, since the parser only looks at a number once its line is         *)
(* complete.  The parser is a record with the fields of RESPParser, and    *)
(* ParseLoop is a function of it.  std::optional is a sequence of at most  *)
(* one value.                                                              *)
(***************************************************************************)
EXTENDS Integers, Sequences, FiniteSetsExt, TLC

CONSTANTS
  MaxNumber,   \* numbers of a stream are -1 .. MaxNumber
  MaxNesting   \* how deep the arrays of a stream are nested (bound)

CRLF == <<"CR", "LF">>
Nullopt == <<>>

\* The sequences in parts, one behind the other.
Concatenated(parts) ==
  LET first[n \in 0..Len(parts)] == IF n = 0 THEN <<>> ELSE first[n - 1] \o parts[n]
  IN first[Len(parts)]

Value(t, s, i, a) ==
  [type |-> t, string_value |-> s, int_value |-> i, array_value |-> a]

SimpleString(s) == Value("SimpleString", s, 0, <<>>)
Error(s)        == Value("Error", s, 0, <<>>)
Integer(i)      == Value("Integer", <<>>, i, <<>>)
BulkString(s)   == Value("BulkString", s, 0, <<>>)
NullBulkString  == Value("NullBulkString", <<>>, 0, <<>>)
Array(a)        == Value("Array", <<>>, 0, a)

\* The values whose arrays are nested at most d deep.
Values[d \in Nat] ==
  [type : STRING, string_value : Seq(STRING), int_value : Int,
   array_value : IF d = 0 THEN {<<>>} ELSE Seq(Values[d - 1])]

SerializeNested[d \in Nat] == [v \in Values[d] |->
  CASE v.type = "SimpleString"   -> <<"+">> \o v.string_value \o CRLF
    [] v.type = "Error"          -> <<"-">> \o v.string_value \o CRLF
    [] v.type = "Integer"        -> <<":", ToString(v.int_value)>> \o CRLF
    [] v.type = "BulkString"     -> <<"$", ToString(Len(v.string_value))>> \o CRLF
                                      \o v.string_value \o CRLF
    [] v.type = "NullBulkString" -> <<"$", ToString(-1)>> \o CRLF
    [] v.type = "Array"          ->
         <<"*", ToString(Len(v.array_value))>> \o CRLF
           \o Concatenated([i \in 1..Len(v.array_value) |->
                              SerializeNested[d - 1][v.array_value[i]]])]
Serialize(v) == SerializeNested[MaxNesting][v]

-----------------------------------------------------------------------------
(* bulk_read_ is always 0 in the code and is left out. *)
NewParser ==
  [state |-> "Start", buffer |-> <<>>, bulk_len |-> 0,
   array_len |-> 0, array_elements |-> <<>>]

\* The parsers.  An element of an array is never a non-empty array: see ParseLoop.
Parsers ==
  [state : {"Start", "SimpleString", "Error", "Integer", "BulkStringLen",
            "BulkStringData", "ArrayLen", "ArrayElement"},
   buffer : Seq(STRING), bulk_len : Int, array_len : Int,
   array_elements : Seq(Values[0])]

\* reset(): every field, the unread bytes of the buffer included.
Reset(p) == NewParser

Outcome(p, v) == [parser |-> p, value |-> v]
Waiting(p)    == Outcome(p, Nullopt)
Invalid(p)    == Outcome(Reset(p), Nullopt)
Completed(p, v) == Outcome(Reset(p), <<v>>)

LineEnds(buffer) ==
  {i \in 1..Len(buffer) - 1 : SubSeq(buffer, i, i + 1) = CRLF}

\* read_line(): the line and the buffer behind it, or nothing without a CRLF.
ReadLine(buffer) ==
  IF LineEnds(buffer) = {} THEN Nullopt
  ELSE LET pos == Min(LineEnds(buffer)) IN
       <<[line |-> SubSeq(buffer, 1, pos - 1),
          rest |-> SubSeq(buffer, pos + 2, Len(buffer))]>>

\* parse_integer(): std::stoll takes the number a line starts with, whatever
\* follows it, and throws on a line that starts with none.
ParseInteger(line) ==
  LET numbers == {n \in -1..MaxNumber : line # <<>> /\ Head(line) = ToString(n)}
  IN IF numbers = {} THEN Nullopt ELSE <<CHOOSE n \in numbers : TRUE>>

TypeState ==
  [b \in {"+", "-", ":", "$", "*"} |->
     CASE b = "+" -> "SimpleString" [] b = "-" -> "Error" [] b = ":" -> "Integer"
       [] b = "$" -> "BulkStringLen" [] b = "*" -> "ArrayLen"]

\* A length that forgets the CRLF behind the data.
BulkNeededWithoutCRLF(p) == p.bulk_len
BulkNeeded(p) == p.bulk_len + 2

\* A complete line in one of the five states that wait for one.  The result is
\* final ("done") or the loop of parse() goes on with the new state.
OnLine(p, line) ==
  LET num  == ParseInteger(line)
      done(o) == [done |-> TRUE, outcome |-> o]
      goOn(q) == [done |-> FALSE, outcome |-> Waiting(q)]
  IN CASE p.state = "SimpleString" -> done(Completed(p, SimpleString(line)))
       [] p.state = "Error"        -> done(Completed(p, Error(line)))
       [] num = Nullopt            -> done(Invalid(p))
       [] p.state = "Integer"      -> done(Completed(p, Integer(num[1])))
       [] p.state = "BulkStringLen" /\ num[1] = -1 -> done(Completed(p, NullBulkString))
       [] p.state = "BulkStringLen" ->
            goOn([p EXCEPT !.bulk_len = num[1], !.state = "BulkStringData"])
       [] p.state = "ArrayLen" /\ num[1] < 0 -> done(Invalid(p))
       [] p.state = "ArrayLen" /\ num[1] = 0 -> done(Completed(p, Array(<<>>)))
       [] p.state = "ArrayLen" ->
            goOn([p EXCEPT !.array_len = num[1], !.array_elements = <<>>,
                           !.state = "ArrayElement"])

\* The loop of parse().  An element of an array is parsed by the same parser:
\* its reset() clears array_len_ and the elements before the array is looked at
\* again, so that no array but the empty one is ever complete.
ParseLoop[p \in Parsers] ==
  CASE p.buffer = <<>> -> Waiting(p)
    [] p.buffer # <<>> /\ p.state = "Start" ->
         IF Head(p.buffer) \notin DOMAIN TypeState THEN Invalid(p)
         ELSE ParseLoop[[p EXCEPT !.state = TypeState[Head(p.buffer)],
                                  !.buffer = Tail(p.buffer)]]
    [] p.buffer # <<>> /\ p.state = "BulkStringData" ->
         IF Len(p.buffer) < BulkNeeded(p) THEN Waiting(p)
         ELSE Completed(p, BulkString(SubSeq(p.buffer, 1, p.bulk_len)))
    [] p.buffer # <<>> /\ p.state = "ArrayElement" ->
         LET inner == ParseLoop[[p EXCEPT !.state = "Start"]]
             grown == [inner.parser EXCEPT
                         !.array_elements = @ \o inner.value, !.state = "ArrayElement"]
         IN CASE inner.value = Nullopt ->
                   Waiting([inner.parser EXCEPT !.state = "ArrayElement"])
              [] inner.value # Nullopt /\ Len(grown.array_elements) = grown.array_len ->
                   Completed(grown, Array(grown.array_elements))
              [] OTHER -> ParseLoop[grown]
    [] OTHER ->
         LET read == ReadLine(p.buffer) IN
         IF read = Nullopt THEN Waiting(p)
         ELSE LET step == OnLine([p EXCEPT !.buffer = read[1].rest], read[1].line)
              IN IF step.done THEN step.outcome ELSE ParseLoop[step.outcome.parser]

\* parse() first appends what came in; parse("", 0) appends nothing.
Buffered(p, data) == [p EXCEPT !.buffer = @ \o data]

\* ::toupper on each byte: the letters of a stream are "a" and "A".
Upper(s) == [i \in DOMAIN s |-> IF s[i] = "a" THEN "A" ELSE s[i]]

\* to_command(): a non-empty array of bulk strings, the first one upper-cased.
ToCommand(v) ==
  IF v.type # "Array" \/ v.array_value = <<>>
       \/ \E i \in 1..Len(v.array_value) : v.array_value[i].type # "BulkString"
  THEN Nullopt
  ELSE <<[command |-> Upper(Head(v.array_value).string_value),
          args |-> [i \in 1..Len(v.array_value) - 1 |-> v.array_value[i + 1].string_value]]>>
=============================================================================
