---------------------------- MODULE EpollServer ----------------------------
(***************************************************************************)
(* The edge-triggered event loop of engine/src/epoll_server.cpp, between   *)
(* the sockets of its clients and the RESP parser of each connection.      *)
(*                                                                         *)
(* One step of the loop is one system call with the code up to the next    *)
(* one (an epoll_ctl goes with the recv or send before it).  The kernel is *)
(* modelled from how the code uses it: `ready' is the epoll ready list.  A *)
(* descriptor enters it when something happens to its socket, and when     *)
(* epoll_ctl finds it ready; epoll_wait takes it off the list whether or   *)
(* not the loop then does all there is to do.  A writable edge needs a     *)
(* send or a poll that found no room before (`nospace').                   *)
(*                                                                         *)
(* A client connects once, sends the encoding of its script in chunks of   *)
(* any size and reads the replies.  A polite client sends a request only   *)
(* when it has the replies to the ones before.                             *)
(***************************************************************************)
EXTENDS Resp, FiniteSets

CONSTANTS
  Clients,      \* connections that may be made
  Workloads,    \* records: the script of values each client sends, whether it waits
                \* for a reply before the next request (polite), and how many
                \* descriptors the process may have for clients (limit)
  BUFFER_SIZE,  \* bytes one recv() takes at most
  ReplySize,    \* bytes of one reply
  SendRoom      \* bytes the kernel holds for a client that does not read

ASSUME ServerAssumption ==
  /\ \A w \in Workloads : w.limit \in Nat \ {0} /\ w.polite \in BOOLEAN
  /\ {BUFFER_SIZE, ReplySize, SendRoom} \subseteq Nat \ {0}

VARIABLES
  pc,        \* where run() is: "down" before start() and after stop()
  event,     \* the epoll_event being handled
  batch,     \* the events of this epoll_wait() still to handle
  clients,   \* clients_: the ClientConnection of each descriptor in use
  interest,  \* the events each descriptor is registered for
  ready,     \* the ready list of the epoll instance
  backlog,   \* connections waiting for accept()
  sock,      \* the socket of each client, as the kernel and the client see it
  decoded,   \* history: the values parsed on each client's connection
  limit      \* descriptors for clients, drawn once

loop == <<pc, event, batch>>
vars == <<pc, event, batch, clients, interest, ready, backlog, sock, decoded, limit>>

Listen == 0
Fds == 1..limit
NoClient == [client |-> {}, parser |-> NewParser, write_buffer |-> 0, should_close |-> FALSE]
NoEvent == [fd |-> Listen, ev |-> {}]

InUse(f) == clients[f].client # {}
ClientOf(f) == CHOOSE c \in clients[f].client : TRUE
FdsOf(c) == {f \in Fds : c \in clients[f].client}
Free == {f \in Fds : ~InUse(f)}

-----------------------------------------------------------------------------
(* The streams of the clients. *)

\* The encoding of the first i of the values, and what a client sends: its values,
\* their bytes, and where the encoding of the first i ends.
Encoding(values, i) == Concatenated([j \in 1..i |-> Serialize(values[j])])
Script(values) ==
  [values |-> values, bytes |-> Encoding(values, Len(values)),
   ends |-> [i \in 0..Len(values) |-> Len(Encoding(values, i))]]

\* The requests whose bytes all lie in the first n.
CompleteIn(script, n) == Cardinality({i \in 1..Len(script.values) : script.ends[i] <= n})

Unread(c) == sock[c].sent - sock[c].taken
Answered(c) == sock[c].got \div ReplySize

\* How far client c may send: one request beyond the replies it has read.
SendLimit(c) ==
  LET script == sock[c].script IN
  IF sock[c].polite /\ Answered(c) < Len(script.values)
  THEN script.ends[Answered(c) + 1] ELSE Len(script.bytes)

-----------------------------------------------------------------------------
(* What epoll finds when it polls a socket in state s. *)

Revents(s) ==
  (IF s.sent > s.taken \/ s.end # "open" THEN {"IN"} ELSE {})
    \cup (IF s.out < SendRoom \/ s.end = "rst" THEN {"OUT"} ELSE {})
    \cup (IF s.end = "rst" THEN {"HUP"} ELSE {})

Reported(s, events) == Revents(s) \cap (events \cup {"HUP"})

\* epoll_ctl ADD or MOD on f for `events': the socket is polled, and a poll for
\* OUT that finds no room asks for a wakeup.
Polled(s, events) == [s EXCEPT !.nospace = @ \/ ("OUT" \in events /\ s.out = SendRoom)]
Control(f, c, s, events) ==
  /\ interest' = [interest EXCEPT ![f] = events]
  /\ ready' = IF Reported(s, events) # {} THEN ready \cup {f} ELSE ready
  /\ sock' = [sock EXCEPT ![c] = Polled(s, events)]

\* A wakeup of client c's socket for `events'.
Wake(c, events) == ready \cup {f \in FdsOf(c) : (interest[f] \cup {"HUP"}) \cap events # {}}

-----------------------------------------------------------------------------
\* A socket in a given state whose streams are still empty.  A connection that is
\* closed goes back to it: nobody looks at its counters again.
Fresh(state, script, polite) ==
  [state |-> state, script |-> script, polite |-> polite, sent |-> 0, taken |-> 0,
   end |-> "open", out |-> 0, got |-> 0, nospace |-> FALSE]
Closed(c) == Fresh("closed", sock[c].script, sock[c].polite)

Init ==
  /\ pc = "down" /\ event = NoEvent /\ batch = {}
  /\ \E w \in Workloads :
       /\ limit = w.limit
       /\ sock = [c \in Clients |-> Fresh("idle", Script(w.script[c]), w.polite)]
  /\ clients = [f \in Fds |-> NoClient]
  /\ interest = [f \in Fds |-> {}]
  /\ ready = {} /\ backlog = <<>>
  /\ decoded = [c \in Clients |-> <<>>]

(* start(), called by the thread that then enters run().  A start() that fails
   closes what it opened and leaves no trace. *)
Start ==
  /\ pc = "down"
  /\ pc' = "wait"
  /\ UNCHANGED <<event, batch, clients, interest, ready, backlog, sock, decoded, limit>>

(* stop() while run() sleeps in epoll_wait().  Closing the listening socket
   resets the connections nobody accepted. *)
Stop ==
  /\ pc = "wait"
  /\ pc' = "down"
  /\ clients' = [f \in Fds |-> NoClient]
  /\ interest' = [f \in Fds |-> {}]
  /\ ready' = {} /\ backlog' = <<>>
  /\ sock' = [c \in Clients |-> IF sock[c].state = "idle" THEN sock[c] ELSE Closed(c)]
  /\ decoded' = [c \in Clients |-> <<>>]
  /\ UNCHANGED <<event, batch, limit>>

\* The event epoll_wait() reports for descriptor f, if any.
EventsOf(f) ==
  LET ev == IF f = Listen THEN (IF backlog # <<>> THEN {"IN"} ELSE {})
            ELSE Reported(sock[ClientOf(f)], interest[f])
  IN IF ev = {} THEN {} ELSE {[fd |-> f, ev |-> ev]}

EpollWait ==
  /\ pc = "wait" /\ ready # {}
  /\ batch' = UNION {EventsOf(f) : f \in ready}
  /\ ready' = {}
  /\ sock' = [c \in Clients |->
                IF \E f \in ready \cap FdsOf(c) : "OUT" \in interest[f]
                THEN Polled(sock[c], {"OUT"}) ELSE sock[c]]
  /\ pc' = "next"
  /\ UNCHANGED <<event, clients, interest, backlog, decoded, limit>>

\* A close_client() that forgets to erase the entry of clients_.
CloseClientKeepsEntry(f) ==
  /\ interest' = [interest EXCEPT ![f] = {}]
  /\ ready' = ready \ {f}
  /\ sock' = [sock EXCEPT ![ClientOf(f)] = Closed(ClientOf(f))]
  /\ UNCHANGED <<clients, backlog, decoded, limit>>

\* close_client(f): close() also takes f off the epoll instance.
CloseClient(f) ==
  /\ clients' = [clients EXCEPT ![f] = NoClient]
  /\ interest' = [interest EXCEPT ![f] = {}]
  /\ ready' = ready \ {f}
  /\ sock' = [sock EXCEPT ![ClientOf(f)] = Closed(ClientOf(f))]
  /\ decoded' = [decoded EXCEPT ![ClientOf(f)] = <<>>]
  /\ UNCHANGED <<backlog, limit>>

BatchDone ==
  /\ pc = "next" /\ batch = {}
  /\ pc' = "wait"
  /\ UNCHANGED <<event, batch, clients, interest, ready, backlog, sock, decoded, limit>>

(* The body of run()'s loop.  An event's descriptor is always in clients_:
   only the handling of that very event can close it. *)
Dispatch ==
  /\ pc = "next"
  /\ \E e \in batch :
       /\ batch' = batch \ {e}
       /\ \/ /\ e.fd = Listen
             /\ pc' = "accept" /\ event' = e
             /\ UNCHANGED <<clients, interest, ready, backlog, sock, decoded, limit>>
          \/ /\ e.fd # Listen /\ "HUP" \in e.ev
             /\ pc' = "next" /\ event' = NoEvent
             /\ CloseClient(e.fd)
          \/ /\ e.fd # Listen /\ "HUP" \notin e.ev
             /\ pc' = (IF "IN" \in e.ev THEN "read" ELSE "write") /\ event' = e
             /\ UNCHANGED <<clients, interest, ready, backlog, sock, decoded, limit>>

-----------------------------------------------------------------------------
(* accept_connection() *)

\* A loop that does not leave on EAGAIN.
AcceptNoneGoesOn ==
  /\ pc = "accept" /\ backlog = <<>>
  /\ UNCHANGED vars

AcceptNone ==
  /\ pc = "accept" /\ backlog = <<>>
  /\ pc' = "next" /\ event' = NoEvent
  /\ UNCHANGED <<batch, clients, interest, ready, backlog, sock, decoded, limit>>

\* EMFILE: accept() fails and the connection stays first in the backlog.
AcceptFails ==
  /\ pc = "accept" /\ backlog # <<>> /\ Free = {}
  /\ UNCHANGED vars

Accept ==
  /\ pc = "accept" /\ backlog # <<>> /\ Free # {}
  /\ LET f == Min(Free)
         c == Head(backlog)
     IN /\ Control(f, c, [sock[c] EXCEPT !.state = "open"], {"IN"})
        /\ clients' = [clients EXCEPT ![f] = [NoClient EXCEPT !.client = {c}]]
  /\ backlog' = Tail(backlog)
  /\ UNCHANGED <<pc, event, batch, decoded, limit>>

\* set_nonblocking() or add_to_epoll() fails.
AcceptDrops ==
  /\ pc = "accept" /\ backlog # <<>> /\ Free # {}
  /\ backlog' = Tail(backlog)
  /\ sock' = [sock EXCEPT ![Head(backlog)] = Closed(Head(backlog))]
  /\ UNCHANGED <<pc, event, batch, clients, interest, ready, decoded, limit>>

-----------------------------------------------------------------------------
(* handle_client_read() *)

AfterRead == IF "OUT" \in event.ev THEN "write" ELSE "check"

\* parse() until it has no value left: the values, and the parser then.
ParseAll[p \in Parsers] ==
  LET r == ParseLoop[p] IN
  IF r.value = Nullopt THEN [parser |-> r.parser, values |-> <<>>]
  ELSE LET more == ParseAll[r.parser]
       IN [more EXCEPT !.values = r.value \o @]

RecvSize(c) == Min({Unread(c), BUFFER_SIZE})

\* After a recv() that returned data: round the loop again, until EAGAIN.
AfterRecv == "read"

\* If there is data to write, ask for EPOLLOUT.
NeverEnableOut(f, c, s, pending) ==
  sock' = [sock EXCEPT ![c] = s] /\ UNCHANGED <<interest, ready>>
EnableOut(f, c, s, pending) ==
  \/ pending > 0 /\ Control(f, c, s, {"IN", "OUT"})
  \/ pending = 0 /\ sock' = [sock EXCEPT ![c] = s] /\ UNCHANGED <<interest, ready>>

\* A value is answered by the command handler or by "ERR invalid command": one
\* reply either way.  A recv() brings at most as many values as bytes.
Recv ==
  /\ pc = "read" /\ Unread(ClientOf(event.fd)) > 0
  /\ LET f == event.fd
         c == ClientOf(f)
         s == [sock[c] EXCEPT !.taken = @ + RecvSize(c)]
         chunk == SubSeq(s.script.bytes, sock[c].taken + 1, s.taken)
     IN \E parsed \in {ParseAll[Buffered(clients[f].parser, chunk)]}, replies \in 0..RecvSize(c) :
        LET pending == clients[f].write_buffer + ReplySize * replies IN
        /\ replies = Len(parsed.values)
        /\ clients' = [clients EXCEPT ![f].parser = parsed.parser,
                                      ![f].write_buffer = pending]
        /\ decoded' = [decoded EXCEPT ![c] = @ \o parsed.values]
        /\ EnableOut(f, c, s, pending)
  /\ pc' = AfterRecv
  /\ UNCHANGED <<event, batch, backlog, limit>>

\* EAGAIN, the end of the stream, or an error.
RecvNothing ==
  /\ pc = "read" /\ Unread(ClientOf(event.fd)) = 0
  /\ clients' = [clients EXCEPT ![event.fd].should_close =
                   @ \/ sock[ClientOf(event.fd)].end # "open"]
  /\ pc' = AfterRead
  /\ UNCHANGED <<event, batch, interest, ready, backlog, sock, decoded, limit>>

-----------------------------------------------------------------------------
(* handle_client_write().  An OUT event finds a write_buffer to send: only
   this handler empties it, and it then gives OUT up. *)

\* After a send() that left `pending' bytes: round the loop again, or done.
AfterSendOnce(pending) == "check"
AfterSend(pending) == IF pending > 0 THEN "write" ELSE "check"

Send ==
  /\ pc = "write"
  /\ LET f == event.fd
         c == ClientOf(f)
         n == Min({clients[f].write_buffer, SendRoom - sock[c].out})
         s == [sock[c] EXCEPT !.out = @ + n]
         pending == clients[f].write_buffer - n
     IN /\ n > 0 /\ sock[c].end # "rst"
        /\ clients' = [clients EXCEPT ![f].write_buffer = pending]
        /\ IF pending = 0 THEN Control(f, c, s, {"IN"})
           ELSE sock' = [sock EXCEPT ![c] = s] /\ UNCHANGED <<interest, ready>>
        /\ pc' = AfterSend(pending)
  /\ UNCHANGED <<event, batch, backlog, decoded, limit>>

\* EAGAIN
SendBlocked ==
  /\ pc = "write"
  /\ LET c == ClientOf(event.fd) IN
       /\ sock[c].out = SendRoom /\ sock[c].end # "rst"
       /\ sock' = [sock EXCEPT ![c].nospace = TRUE]
  /\ pc' = "check"
  /\ UNCHANGED <<event, batch, clients, interest, ready, backlog, decoded, limit>>

SendFails ==
  /\ pc = "write" /\ sock[ClientOf(event.fd)].end = "rst"
  /\ clients' = [clients EXCEPT ![event.fd].should_close = TRUE]
  /\ pc' = "check"
  /\ UNCHANGED <<event, batch, interest, ready, backlog, sock, decoded, limit>>

Check ==
  /\ pc = "check"
  /\ pc' = "next" /\ event' = NoEvent
  /\ \/ clients[event.fd].should_close /\ CloseClient(event.fd)
     \/ /\ ~clients[event.fd].should_close
        /\ UNCHANGED <<clients, interest, ready, backlog, sock, decoded, limit>>
  /\ UNCHANGED batch

-----------------------------------------------------------------------------
(* The clients, and the kernel on their behalf. *)

Connected(c) == sock[c].state \in {"backlog", "open"}

Connect(c) ==
  /\ pc # "down" /\ sock[c].state = "idle" /\ sock[c].script.values # <<>>
  /\ sock' = [sock EXCEPT ![c].state = "backlog"]
  /\ backlog' = Append(backlog, c)
  /\ ready' = ready \cup {Listen}
  /\ UNCHANGED <<loop, clients, interest, decoded, limit>>

\* The next n bytes of the stream of c arrive.
Deliver(c, n) ==
  /\ Connected(c) /\ sock[c].end = "open"
  /\ sock[c].sent + n <= SendLimit(c)
  /\ sock' = [sock EXCEPT ![c].sent = @ + n]
  /\ ready' = Wake(c, {"IN"})
  /\ UNCHANGED <<loop, clients, interest, backlog, decoded, limit>>

\* c shuts down its sending half, or resets the connection.
End(c, how) ==
  /\ Connected(c) /\ sock[c].end # "rst" /\ sock[c].end # how
  /\ sock' = [sock EXCEPT ![c].end = how]
  /\ ready' = Wake(c, IF how = "rst" THEN {"IN", "OUT", "HUP"} ELSE {"IN"})
  /\ UNCHANGED <<loop, clients, interest, backlog, decoded, limit>>

\* c takes what the kernel holds for it.
ReadReply(c) ==
  /\ Connected(c) /\ sock[c].end # "rst" /\ sock[c].out > 0
  /\ sock' = [sock EXCEPT ![c].got = @ + sock[c].out, ![c].out = 0, ![c].nospace = FALSE]
  /\ ready' = IF sock[c].nospace THEN Wake(c, {"OUT"}) ELSE ready
  /\ UNCHANGED <<loop, clients, interest, backlog, decoded, limit>>

\* accept() fails for want of a descriptor.
Spinning == pc = "accept" /\ backlog # <<>> /\ Free = {}

Loop ==
  \/ EpollWait \/ BatchDone \/ Dispatch
  \/ AcceptNone \/ AcceptFails \/ Accept \/ AcceptDrops
  \/ Recv \/ RecvNothing \/ Send \/ SendBlocked \/ SendFails \/ Check

Next ==
  \/ Start \/ Stop \/ Loop
  \/ \E c \in Clients :
       \/ Connect(c) \/ ReadReply(c)
       \/ \E n \in 1..SendLimit(c) : Deliver(c, n)
       \/ \E how \in {"fin", "rst"} : End(c, how)

Spec == Init /\ [][Next]_vars /\ WF_vars(Loop) /\ \A c \in Clients : WF_vars(ReadReply(c))

-----------------------------------------------------------------------------
\* The types, and the books kept on a descriptor: clients_, the epoll instance and
\* the sockets agree on the descriptors in use.
TypeOK ==
  /\ pc \in {"down", "wait", "next", "accept", "read", "write", "check"}
  /\ \A e \in batch \cup {event} : e.fd \in Fds \cup {Listen} /\ e.ev \subseteq {"IN", "OUT", "HUP"}
  /\ \A f \in Fds : /\ InUse(f) => \E c \in Clients : /\ clients[f].client = {c}
                                                     /\ sock[c].state = "open"
                    /\ clients[f].write_buffer \in Nat
                    /\ clients[f].should_close \in BOOLEAN
                    /\ interest[f] \in IF InUse(f) THEN {{"IN"}, {"IN", "OUT"}} ELSE {{}}
  /\ ready \subseteq (Fds \ Free) \cup {Listen}
  /\ \A c \in Clients : /\ sock[c].taken \in 0..sock[c].sent /\ sock[c].out \in 0..SendRoom
                        /\ sock[c].got \in Nat /\ sock[c].nospace \in BOOLEAN
                        /\ sock[c].state \in {"idle", "backlog", "open", "closed"}
                        /\ sock[c].end \in {"open", "fin", "rst"}
  /\ backlog \in Seq({c \in Clients : sock[c].state = "backlog"})
  /\ limit \in Nat \ {0}

\* The loop will still look at descriptor f for one of `events'.
Noticed(f, events) == f \in ready \/ \E e \in batch : e.fd = f /\ e.ev \cap events # {}

\* With edge-triggered epoll an edge comes once.  Bytes nobody has read, the end
\* of a stream or a reset on an accepted connection always have an event pending,
\* or handle_client_read() is at work on them: no input is forgotten, whenever it
\* arrives (in the backlog, between epoll_wait() and recv(), behind a last recv()).
NoLostInput ==
  \A f \in Fds : InUse(f) /\ "IN" \in Revents(sock[ClientOf(f)]) =>
    \/ Noticed(f, {"IN", "HUP"}) \/ clients[f].should_close
    \/ pc = "read" /\ event.fd = f

\* A reply in a write_buffer has EPOLLOUT armed, and it has an event pending, is
\* being sent, or waits for the client to make room, which will raise the edge.
NoStuckOutput ==
  \A f \in Fds : clients[f].write_buffer > 0 =>
    /\ interest[f] = {"IN", "OUT"}
    /\ \/ Noticed(f, {"OUT", "HUP"}) \/ clients[f].should_close
       \/ pc = "write" /\ event.fd = f
       \/ sock[ClientOf(f)].out = SendRoom /\ sock[ClientOf(f)].nospace
       \/ pc = "read" /\ event.fd = f /\ AfterRead = "write"

Scalar(c) ==
  \A i \in 1..Len(sock[c].script.values) : sock[c].script.values[i].array_value = <<>>

\* A client that waits for its replies and sends no arrays has its stream decoded
\* exactly: the server has parsed the requests whose last byte it has received,
\* each once and in order, however the stream was cut into packets and recv()s and
\* whatever bytes a bulk string holds.
DecodesRequests ==
  \A c \in Clients : sock[c].polite /\ Scalar(c) =>
    decoded[c] = SubSeq(sock[c].script.values, 1, CompleteIn(sock[c].script, sock[c].taken))

\* The calls of command_handler_ for the values parsed on a connection.
Handled(values) ==
  SelectSeq([i \in 1..Len(values) |-> ToCommand(values[i])], LAMBDA cmd : cmd # Nullopt)

\* Every command whose bytes the server has read goes to the command handler:
\* "Parse RESP commands", the pipelined ones too.  Stated when the loop is back in
\* epoll_wait().
CommandsAnswered ==
  pc = "wait" => \A f \in Fds : InUse(f) =>
    LET script == sock[ClientOf(f)].script
    IN Handled(decoded[ClientOf(f)])
         = Handled(SubSeq(script.values, 1, CompleteIn(script, sock[ClientOf(f)].taken)))

Outstanding(c) ==
  /\ Connected(c) /\ sock[c].end = "open"
  /\ CompleteIn(sock[c].script, sock[c].sent) > Answered(c)

\* A request of such a client is answered in the end, across partial sends, full
\* socket buffers and other connections, unless the client or stop() ends the
\* connection first or the process has run out of descriptors.
RequestsAnswered ==
  \A c \in Clients :
    (sock[c].polite /\ Scalar(c) /\ Outstanding(c)) ~> (~Outstanding(c) \/ Spinning)

\* Between clients that wait for their replies no handler keeps the loop for ever:
\* run() comes back to epoll_wait(), unless it has run out of descriptors.  Then
\* accept_connection() retries the same accept() without end ("Error, try next").
LoopReturns ==
  (\A c \in Clients : sock[c].polite) =>
    ((pc \notin {"down", "wait"}) ~> (pc \in {"down", "wait"} \/ Spinning))
=============================================================================
