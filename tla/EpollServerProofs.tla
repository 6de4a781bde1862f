-------------------------- MODULE EpollServerProofs --------------------------
(***************************************************************************)
(* Theorems about the event loop of engine/src/epoll_server.cpp: for any   *)
(* number of connections, of descriptors and of requests, no input and no  *)
(* reply is forgotten by the edge-triggered loop.  They hold whatever the  *)
(* parser returns, so nothing about it is used.                            *)
(*                                                                         *)
(* First the inductive invariant; then the steps of the read and write     *)
(* handlers and of the clients; then the backlog, the dispatch of the      *)
(* events, start() and stop().                                             *)
(***************************************************************************)
EXTENDS EpollServer, SequenceTheorems, WellFoundedInduction, TLAPS

-----------------------------------------------------------------------------
(* The inductive invariant.                                                *)

Sockets ==
  [state : {"idle", "backlog", "open", "closed"},
   script : {Script(w.script[c]) : w \in Workloads, c \in Clients}, polite : BOOLEAN,
   sent : Nat, taken : Nat, end : {"open", "fin", "rst"}, out : 0..SendRoom,
   got : Nat, nospace : BOOLEAN]

SockInv == sock \in [Clients -> Sockets] /\ \A c \in Clients : sock[c].taken <= sock[c].sent

\* What is known of a ClientConnection: its parser may be anything.
Connection(x) ==
  /\ {"client", "parser", "write_buffer", "should_close"} \subseteq DOMAIN x
  /\ x.client = {} \/ \E c \in Clients : x.client = {c}
  /\ x.write_buffer \in Nat /\ x.should_close \in BOOLEAN
  /\ x.client = {} => x.write_buffer = 0

\* clients_ and the epoll instance agree on the descriptors in use, and a client
\* has one of them.
ConnInv ==
  /\ limit \in Nat \ {0}
  /\ clients = [f \in Fds |-> clients[f]] /\ interest \in [Fds -> {{}, {"IN"}, {"IN", "OUT"}}]
  /\ \A f \in Fds : Connection(clients[f]) /\ (interest[f] = {} <=> clients[f].client = {})
  /\ \A f \in Fds : \A c \in clients[f].client :
       sock[c].state = "open" /\ \A g \in Fds : c \in clients[g].client => g = f
  /\ ready \subseteq {f \in Fds : clients[f].client # {}} \cup {Listen}

BacklogInv ==
  /\ backlog \in Seq(Clients)
  /\ \A i \in 1..Len(backlog) :
       /\ sock[backlog[i]].state = "backlog"
       /\ \A j \in 1..Len(backlog) : backlog[i] = backlog[j] => i = j

IsEvent(e) == e.fd \in Fds \cup {Listen} /\ e.ev \subseteq {"IN", "OUT", "HUP"}

\* The events at hand are of different descriptors, which are in use: none is
\* closed before its own event is handled.
EventInv ==
  /\ pc \in {"down", "wait", "next", "accept", "read", "write", "check"}
  /\ \A e \in batch \cup {event} : IsEvent(e)
  /\ \A e \in batch : /\ e.fd # Listen => clients[e.fd].client # {}
                      /\ \A d \in batch : d.fd = e.fd => d = e
  /\ pc \in {"down", "wait"} => batch = {}
  /\ pc \in {"read", "write", "check"} =>
       /\ event.fd # Listen /\ clients[event.fd].client # {}
       /\ \A e \in batch : e.fd # event.fd

Books == SockInv /\ ConnInv /\ BacklogInv /\ EventInv

\* NoLostInput and NoStuckOutput, of one descriptor.
Watched(f) ==
  InUse(f) /\ "IN" \in Revents(sock[ClientOf(f)]) =>
    \/ Noticed(f, {"IN", "HUP"}) \/ clients[f].should_close
    \/ pc = "read" /\ event.fd = f

Flushed(f) ==
  clients[f].write_buffer > 0 =>
    /\ interest[f] = {"IN", "OUT"}
    /\ \/ Noticed(f, {"OUT", "HUP"}) \/ clients[f].should_close
       \/ pc = "write" /\ event.fd = f
       \/ sock[ClientOf(f)].out = SendRoom /\ sock[ClientOf(f)].nospace
       \/ pc = "read" /\ event.fd = f /\ AfterRead = "write"

Inv == Books /\ \A f \in Fds : Watched(f) /\ Flushed(f)

-----------------------------------------------------------------------------
(* Facts about the operators of the model.                                 *)

\* The minimum is one of the numbers and at most each.
LEMMA MinFacts ==
  /\ \A S \in SUBSET Nat : S # {} => Min(S) \in S
  /\ \A a, b \in Nat : Min({a, b}) \in {a, b} /\ Min({a, b}) <= a /\ Min({a, b}) <= b
<1>1. ASSUME NEW S \in SUBSET Nat, S # {} PROVE \E x \in S : \A y \in S : x <= y
  <2>1. PICK x \in S : \A y \in S : ~(<<y, x>> \in OpToRel(<, Nat))
    BY <1>1, NatLessThanWellFounded, WFMin, Zenon
  <2>2. \A y \in S : ~(y < x)
    BY <2>1, Zenon DEF OpToRel
  <2> QED
    BY <2>2
<1>2. ASSUME NEW S \in SUBSET Nat, S # {} PROVE Min(S) \in S /\ \A y \in S : Min(S) <= y
  BY <1>1, <1>2, Zenon DEF Min
<1> QED
  BY <1>2

\* The client of a descriptor is the one it was accepted for.
LEMMA ClientOfIs ==
  ASSUME NEW f, NEW c, clients[f].client = {c}
  PROVE  ClientOf(f) = c
  BY DEF ClientOf

\* A step that does not concern descriptor f keeps what holds of it.
LEMMA Passive ==
  ASSUME NEW f \in Fds, Watched(f), Flushed(f), Connection(clients[f]),
         clients'[f] = clients[f], interest'[f] = interest[f],
         f \in ready => f \in ready',
         \A e \in batch : e.fd = f => e \in batch',
         clients[f].client # {} => sock'[ClientOf(f)] = sock[ClientOf(f)],
         pc \in {"read", "write"} /\ event.fd = f => pc' = pc /\ event' = event
  PROVE  (Watched(f) /\ Flushed(f))'
<1>1. (ClientOf(f))' = ClientOf(f)
  BY Zenon DEF ClientOf
<1>2. \A E : Noticed(f, E) => (f \in ready' \/ \E e \in batch' : e.fd = f /\ e.ev \cap E # {})
  BY Zenon DEF Noticed
<1>3. Watched(f)'
  <2> SUFFICES ASSUME clients[f].client # {}, "IN" \in Revents(sock[ClientOf(f)])
               PROVE  \/ f \in ready' \/ \E e \in batch' : e.fd = f /\ e.ev \cap {"IN", "HUP"} # {}
                      \/ clients[f].should_close
                      \/ pc' = "read" /\ event'.fd = f
    BY <1>1, Zenon DEF Watched, InUse, Noticed, Revents
  <2>1. \/ Noticed(f, {"IN", "HUP"}) \/ clients[f].should_close
        \/ pc = "read" /\ event.fd = f
    BY Zenon DEF Watched, InUse
  <2> QED
    BY <1>2, <2>1, Zenon
<1>4. Flushed(f)'
  <2> SUFFICES ASSUME clients[f].write_buffer > 0
               PROVE  /\ interest[f] = {"IN", "OUT"}
                      /\ \/ f \in ready' \/ \E e \in batch' : e.fd = f /\ e.ev \cap {"OUT", "HUP"} # {}
                         \/ clients[f].should_close
                         \/ pc' = "write" /\ event'.fd = f
                         \/ sock'[ClientOf(f)].out = SendRoom /\ sock'[ClientOf(f)].nospace
                         \/ pc' = "read" /\ event'.fd = f /\ (AfterRead = "write")'
    BY <1>1, Zenon DEF Flushed, Noticed
  <2>1. clients[f].client # {}
    BY DEF Connection
  <2>2. /\ interest[f] = {"IN", "OUT"}
        /\ \/ Noticed(f, {"OUT", "HUP"}) \/ clients[f].should_close
           \/ pc = "write" /\ event.fd = f
           \/ sock[ClientOf(f)].out = SendRoom /\ sock[ClientOf(f)].nospace
           \/ pc = "read" /\ event.fd = f /\ AfterRead = "write"
    BY Zenon DEF Flushed
  <2>3. event' = event => (AfterRead = "write" <=> (AfterRead = "write")')
    BY Zenon DEF AfterRead
  <2> QED
    BY <1>2, <2>1, <2>2, <2>3, Zenon
<1> QED
  BY <1>3, <1>4

\* A descriptor in use belongs to one client.
LEMMA Holder ==
  ASSUME ConnInv, NEW f \in Fds, clients[f].client # {}
  PROVE  /\ ClientOf(f) \in Clients /\ clients[f].client = {ClientOf(f)}
         /\ sock[ClientOf(f)].state = "open"
         /\ \A g \in Fds : clients[g].client # {} /\ ClientOf(g) = ClientOf(f) => g = f
<1>1. \A g \in Fds : clients[g].client # {} =>
         ClientOf(g) \in Clients /\ clients[g].client = {ClientOf(g)}
  <2> SUFFICES ASSUME NEW g \in Fds, clients[g].client # {}
               PROVE  ClientOf(g) \in Clients /\ clients[g].client = {ClientOf(g)}
    OBVIOUS
  <2>1. PICK c \in Clients : clients[g].client = {c}
    BY Zenon DEF ConnInv, Connection
  <2>2. ClientOf(g) = c
    BY <2>1, ClientOfIs, Zenon
  <2> QED
    BY <2>1, <2>2
<1>2. \A g \in Fds : \A c \in clients[g].client :
         sock[c].state = "open" /\ \A h \in Fds : c \in clients[h].client => h = g
  BY DEF ConnInv
<1>3. ClientOf(f) \in clients[f].client /\ ClientOf(f) \in Clients /\ clients[f].client = {ClientOf(f)}
  BY <1>1
<1>4. ASSUME NEW g \in Fds, clients[g].client # {}, ClientOf(g) = ClientOf(f) PROVE g = f
  BY <1>1, <1>2, <1>3, <1>4
<1> QED
  BY <1>2, <1>3, <1>4

\* The event being handled is of a descriptor in use.
LEMMA AtHand ==
  ASSUME Books, pc \in {"read", "write", "check"}
  PROVE  /\ event.fd \in Fds /\ event.fd # Listen /\ clients[event.fd].client # {}
         /\ ClientOf(event.fd) \in Clients
<1>1. event.fd \in Fds /\ event.fd # Listen /\ clients[event.fd].client # {}
  BY Zenon DEF Books, EventInv, IsEvent
<1> QED
  BY <1>1, Holder, Zenon DEF Books

\* So is every event of the batch that is not the listening socket's.
LEMMA InBatch ==
  ASSUME Books, NEW e \in batch, e.fd # Listen
  PROVE  e.fd \in Fds /\ clients[e.fd].client # {} /\ ClientOf(e.fd) \in Clients
<1>1. e.fd \in Fds /\ clients[e.fd].client # {}
  BY Zenon DEF Books, EventInv, IsEvent
<1> QED
  BY <1>1, Holder, Zenon DEF Books

-----------------------------------------------------------------------------
(* The sockets.                                                            *)

\* A socket that a client, a recv() or a send() moves on.
LEMMA SocketEdits ==
  ASSUME NEW s \in Sockets, s.taken <= s.sent
  PROVE  /\ \A b \in BOOLEAN : LET t == [s EXCEPT !.nospace = b] IN t \in Sockets /\ t.taken <= t.sent
         /\ \A x \in {"backlog", "open"} :
              LET t == [s EXCEPT !.state = x] IN t \in Sockets /\ t.taken <= t.sent
         /\ \A n \in Nat : LET t == [s EXCEPT !.sent = @ + n] IN t \in Sockets /\ t.taken <= t.sent
         /\ \A n \in 0..(s.sent - s.taken) :
              LET t == [s EXCEPT !.taken = @ + n] IN t \in Sockets /\ t.taken <= t.sent
         /\ \A n \in 0..(SendRoom - s.out) :
              LET t == [s EXCEPT !.out = @ + n] IN t \in Sockets /\ t.taken <= t.sent
         /\ \A x \in {"fin", "rst"} :
              LET t == [s EXCEPT !.end = x] IN t \in Sockets /\ t.taken <= t.sent
         /\ LET t == [s EXCEPT !.got = @ + s.out, !.out = 0, !.nospace = FALSE]
            IN t \in Sockets /\ t.taken <= t.sent
         /\ LET t == Fresh("closed", s.script, s.polite) IN t \in Sockets /\ t.taken <= t.sent
<1> DEFINE Good(t) == t \in Sockets /\ t.taken <= t.sent
<1>1. SendRoom \in Nat \ {0}
  BY ServerAssumption
<1>2. \A b \in BOOLEAN : Good([s EXCEPT !.nospace = b])
  BY DEF Sockets
<1>3. \A x \in {"backlog", "open"} : Good([s EXCEPT !.state = x])
  BY DEF Sockets
<1>4. \A n \in Nat : Good([s EXCEPT !.sent = @ + n])
  BY DEF Sockets
<1>5. \A n \in 0..(s.sent - s.taken) : Good([s EXCEPT !.taken = @ + n])
  BY DEF Sockets
<1>6. \A n \in 0..(SendRoom - s.out) : Good([s EXCEPT !.out = @ + n])
  BY <1>1 DEF Sockets
<1>7. \A x \in {"fin", "rst"} : Good([s EXCEPT !.end = x])
  BY DEF Sockets
<1>8. Good([s EXCEPT !.got = @ + s.out, !.out = 0, !.nospace = FALSE])
  <2> DEFINE k == s.got + s.out
  <2>1. k \in Nat /\ 0 \in 0..SendRoom /\ FALSE \in BOOLEAN
    BY <1>1 DEF Sockets
  <2> SUFFICES Good([s EXCEPT !.got = k, !.out = 0, !.nospace = FALSE])
    OBVIOUS
  <2> HIDE DEF k
  <2>2. \A t \in Sockets : [t EXCEPT !.got = k] \in Sockets
    BY <2>1 DEF Sockets
  <2>3. \A t \in Sockets : [t EXCEPT !.out = 0] \in Sockets
    BY <2>1 DEF Sockets
  <2>4. \A t \in Sockets, b \in BOOLEAN : [t EXCEPT !.nospace = b] \in Sockets
    BY <2>1 DEF Sockets
  <2>5. [s EXCEPT !.got = k, !.out = 0, !.nospace = FALSE] \in Sockets
    BY <2>2, <2>3, <2>4, Zenon
  <2> QED
    BY <2>5 DEF Sockets
<1>9. Good(Fresh("closed", s.script, s.polite))
  BY <1>1 DEF Sockets, Fresh
<1> QED
  BY <1>2, <1>3, <1>4, <1>5, <1>6, <1>7, <1>8, <1>9, Zenon

\* A poll of a socket may ask for a wakeup.
LEMMA PolledSocket ==
  ASSUME NEW s \in Sockets, s.taken <= s.sent, NEW E
  PROVE  /\ Polled(s, E) \in Sockets /\ Polled(s, E).taken <= Polled(s, E).sent
         /\ Polled(s, E).state = s.state /\ Polled(s, E).out = s.out
         /\ Polled(s, E).sent = s.sent /\ Polled(s, E).taken = s.taken /\ Polled(s, E).end = s.end
         /\ s.nospace => Polled(s, E).nospace
         /\ "OUT" \in E /\ s.out = SendRoom => Polled(s, E).nospace
<1> DEFINE b == s.nospace \/ ("OUT" \in E /\ s.out = SendRoom)
<1>1. b \in BOOLEAN /\ (s.nospace => b) /\ ("OUT" \in E /\ s.out = SendRoom => b)
  BY DEF Sockets
<1>2. Polled(s, E) = [s EXCEPT !.nospace = b]
  BY Zenon DEF Polled
<1> HIDE DEF b
<1>3. Polled(s, E) \in Sockets /\ Polled(s, E).taken <= Polled(s, E).sent
  BY <1>1, <1>2, SocketEdits, Zenon
<1>4. LET t == [s EXCEPT !.nospace = b] IN
      /\ t.state = s.state /\ t.out = s.out /\ t.sent = s.sent /\ t.taken = s.taken
      /\ t.end = s.end /\ t.nospace = b
  BY <1>1 DEF Sockets
<1> QED
  BY <1>1, <1>2, <1>3, <1>4, Zenon

\* Replacing one socket leaves the others.
LEMMA SockUpdate ==
  ASSUME SockInv, NEW c \in Clients, NEW t \in Sockets, t.taken <= t.sent,
         sock' = [sock EXCEPT ![c] = t]
  PROVE  /\ SockInv'
         /\ sock'[c] = t /\ \A d \in Clients \ {c} : sock'[d] = sock[d]
<1>1. Sockets' = Sockets
  OBVIOUS
<1> QED
  BY <1>1 DEF SockInv

\* A socket has its type and gave out no more than it was sent.
LEMMA SockOf ==
  ASSUME SockInv, NEW c \in Clients
  PROVE  sock[c] \in Sockets /\ sock[c].taken <= sock[c].sent
  BY DEF SockInv

-----------------------------------------------------------------------------
(* The books.                                                              *)

\* A step that opens and closes no connection and takes no event keeps them.
LEMMA Quiet ==
  ASSUME Books, SockInv', limit' = limit, backlog' = backlog, batch' = batch,
         clients' = [f \in Fds |-> clients'[f]],
         \A f \in Fds : Connection(clients'[f]) /\ clients'[f].client = clients[f].client,
         interest' \in [Fds -> {{}, {"IN"}, {"IN", "OUT"}}],
         \A f \in Fds : interest'[f] = {} <=> interest[f] = {},
         \A c \in Clients : sock'[c].state = sock[c].state,
         ready' \subseteq ready \cup {f \in Fds : clients[f].client # {}},
         pc' \in {"down", "wait", "next", "accept", "read", "write", "check"}, IsEvent(event'),
         pc' \in {"down", "wait"} => batch = {},
         pc' \in {"read", "write", "check"} =>
           pc \in {"read", "write", "check"} /\ event' = event
  PROVE  Books'
<1>0. Fds' = Fds
  BY DEF Fds
<1>1. ConnInv'
  <2>1. (\A f \in Fds : Connection(clients[f]))'
    BY <1>0 DEF Connection
  <2>2. (\A f \in Fds : interest[f] = {} <=> clients[f].client = {})'
    BY <1>0, Zenon DEF Books, ConnInv
  <2>3. ASSUME NEW f \in Fds, NEW c \in clients'[f].client
        PROVE  sock'[c].state = "open" /\ \A g \in Fds : c \in clients'[g].client => g = f
    <3>1. c \in clients[f].client
      BY <2>3
    <3>2. sock[c].state = "open" /\ \A g \in Fds : c \in clients[g].client => g = f
      BY <3>1 DEF Books, ConnInv
    <3>3. c \in Clients
      BY <3>1, Holder DEF Books
    <3> QED
      BY <3>2, <3>3
  <2>4. ready' \subseteq {f \in Fds : clients'[f].client # {}} \cup {Listen}
    BY DEF Books, ConnInv
  <2>5. limit' \in Nat \ {0}
    BY DEF Books, ConnInv
  <2>6. clients' = [f \in Fds' |-> clients'[f]] /\ interest' \in [Fds' -> {{}, {"IN"}, {"IN", "OUT"}}]
    BY <1>0
  <2> QED
    BY <1>0, <2>1, <2>2, <2>3, <2>4, <2>5, <2>6, ZenonT(60) DEF ConnInv, Listen
<1>2. BacklogInv'
  <2>1. backlog \in Seq(Clients)
    BY DEF Books, BacklogInv
  <2>2. \A i \in 1..Len(backlog) : backlog[i] \in Clients
    BY <2>1
  <2> QED
    BY <2>1, <2>2 DEF Books, BacklogInv
<1>3. EventInv'
  <2>1. (\A e \in batch \cup {event} : IsEvent(e))'
    BY <1>0 DEF Books, EventInv, IsEvent
  <2>2. (\A e \in batch : /\ e.fd # Listen => clients[e.fd].client # {}
                          /\ \A d \in batch : d.fd = e.fd => d = e)'
    <3> SUFFICES ASSUME NEW e \in batch
                 PROVE  /\ e.fd # Listen => clients'[e.fd].client # {}
                        /\ \A d \in batch : d.fd = e.fd => d = e
      BY Zenon DEF Listen
    <3>1. e.fd # Listen => e.fd \in Fds /\ clients[e.fd].client # {}
      BY InBatch, Zenon
    <3> QED
      BY <3>1 DEF Books, EventInv
  <2>3. pc' \in {"read", "write", "check"} =>
         /\ event'.fd # Listen /\ clients'[event'.fd].client # {}
         /\ \A e \in batch : e.fd # event'.fd
    BY AtHand DEF Books, EventInv
  <2> QED
    BY <2>1, <2>2, <2>3, Zenon DEF EventInv, Listen
<1> QED
  BY <1>1, <1>2, <1>3, Zenon DEF Books

\* What the other lemmas need of a step that changes nothing but the loop's place.
LEMMA Standing ==
  ASSUME Books
  PROVE  /\ SockInv /\ clients = [f \in Fds |-> clients[f]] /\ \A f \in Fds : Connection(clients[f])
         /\ interest \in [Fds -> {{}, {"IN"}, {"IN", "OUT"}}]
         /\ ready \subseteq {f \in Fds : clients[f].client # {}} \cup {Listen}
         /\ IsEvent(event)
  BY Zenon DEF Books, ConnInv, EventInv

\* A step that only moves the loop on.
LEMMA Moving ==
  ASSUME Inv, UNCHANGED <<batch, clients, interest, ready, backlog, sock, decoded, limit>>,
         \/ Start \/ BatchDone \/ AcceptNone \/ AcceptFails
  PROVE  Inv'
<1>0. Books /\ Fds' = Fds /\ \A f \in Fds : Watched(f) /\ Flushed(f)
  BY DEF Inv, Fds
<1>1. Books'
  <2>1. SockInv'
    BY <1>0 DEF Books, SockInv
  <2>2. IsEvent(event') /\ IsEvent(NoEvent)
    BY <1>0, Standing DEF Start, BatchDone, AcceptNone, AcceptFails, vars, IsEvent, NoEvent, Fds
  <2>3. /\ pc' \in {"wait", "next", "accept"}
        /\ pc' = "wait" => batch = {}
    BY <1>0 DEF Start, BatchDone, AcceptNone, AcceptFails, vars, Books, EventInv
  <2> QED
    BY <1>0, <2>1, <2>2, <2>3, Standing, Quiet, SMTT(30)
<1>2. pc \notin {"read", "write"}
  BY DEF Start, BatchDone, AcceptNone, AcceptFails
<1>3. ASSUME NEW f \in Fds PROVE (Watched(f) /\ Flushed(f))'
  BY <1>0, <1>2, Passive, Standing, ZenonT(60)
<1> QED
  BY <1>0, <1>1, <1>3, Zenon DEF Inv

\* A step on behalf of client c, which may have descriptor f, keeps what holds of
\* the other descriptors.
LEMMA Others ==
  ASSUME Inv, NEW f, NEW c, \A g \in Fds \ {f} : c \notin clients[g].client,
         \A g \in Fds \ {f} : clients'[g] = clients[g] /\ interest'[g] = interest[g],
         ready \ {f} \subseteq ready', \A e \in batch : e.fd # f => e \in batch',
         \A d \in Clients \ {c} : sock'[d] = sock[d],
         pc \in {"read", "write"} /\ event.fd # f => pc' = pc /\ event' = event
  PROVE  \A g \in Fds \ {f} : (Watched(g) /\ Flushed(g))'
<1> SUFFICES ASSUME NEW g \in Fds, g # f PROVE (Watched(g) /\ Flushed(g))'
  BY Zenon
<1>1. Books /\ Connection(clients[g]) /\ Watched(g) /\ Flushed(g)
  BY Standing, Zenon DEF Inv
<1>2. clients[g].client # {} => ClientOf(g) \in Clients \ {c}
  BY <1>1, Holder DEF Books
<1>3. clients[g].client # {} => sock'[ClientOf(g)] = sock[ClientOf(g)]
  BY <1>2, Zenon
<1>4. (g \in ready => g \in ready') /\ \A e \in batch : e.fd = g => e \in batch'
  BY Zenon
<1>5. pc \in {"read", "write"} /\ event.fd = g => pc' = pc /\ event' = event
  BY Zenon
<1>6. clients'[g] = clients[g] /\ interest'[g] = interest[g]
  BY Zenon
<1> QED
  BY <1>1, <1>3, <1>4, <1>5, <1>6, Passive, Zenon

\* A step of the read or of the write handler.
LEMMA Serving ==
  ASSUME Inv, pc \in {"read", "write"}, NEW f, f = event.fd,
         NEW t \in Sockets, t.taken <= t.sent, t.state = "open",
         sock' = [sock EXCEPT ![ClientOf(f)] = t],
         NEW x, Connection(x), x.client = clients[f].client, clients' = [clients EXCEPT ![f] = x],
         NEW E \in {{"IN"}, {"IN", "OUT"}}, interest' = [interest EXCEPT ![f] = E],
         ready \subseteq ready', ready' \subseteq ready \cup {f},
         pc' \in {"read", "write", "check"}, UNCHANGED <<event, batch, backlog, limit>>,
         (Watched(f) /\ Flushed(f))'
  PROVE  Inv'
<1>0. Books /\ Fds' = Fds
  BY DEF Inv, Fds
<1>1. /\ f \in Fds /\ clients[f].client # {} /\ ClientOf(f) \in Clients
      /\ clients[f].client = {ClientOf(f)} /\ sock[ClientOf(f)].state = "open"
      /\ \A g \in Fds \ {f} : ClientOf(f) \notin clients[g].client
  <2>1. f \in Fds /\ clients[f].client # {}
    BY <1>0, AtHand
  <2>2. ConnInv
    BY <1>0 DEF Books
  <2>3. \A g \in Fds : \A d \in clients[g].client : \A h \in Fds : d \in clients[h].client => h = g
    BY <2>2, SMTT(30) DEF ConnInv
  <2>4. /\ ClientOf(f) \in Clients /\ clients[f].client = {ClientOf(f)}
        /\ sock[ClientOf(f)].state = "open"
    BY <2>1, <2>2, Holder
  <2> QED
    BY <2>1, <2>3, <2>4
<1>2. SockInv' /\ sock'[ClientOf(f)] = t /\ \A d \in Clients \ {ClientOf(f)} : sock'[d] = sock[d]
  <2>1. SockInv
    BY <1>0 DEF Books
  <2> QED
    BY <1>1, <2>1, SockUpdate, ZenonT(60)
<1>3. /\ clients' = [g \in Fds |-> clients'[g]] /\ clients'[f] = x
      /\ \A g \in Fds \ {f} : clients'[g] = clients[g]
  BY <1>0, <1>1, Standing, Zenon
<1>4. /\ interest' \in [Fds -> {{}, {"IN"}, {"IN", "OUT"}}] /\ interest'[f] = E
      /\ \A g \in Fds \ {f} : interest'[g] = interest[g]
  BY <1>0, <1>1, Standing
<1>5. interest[f] # {}
  BY <1>0, <1>1 DEF Books, ConnInv
<1>6. Books'
  <2>1. \A g \in Fds : Connection(clients'[g]) /\ clients'[g].client = clients[g].client
    BY <1>0, <1>3, Standing, SMTT(30)
  <2>2. \A g \in Fds : interest'[g] = {} <=> interest[g] = {}
    BY <1>4, <1>5
  <2>3. \A d \in Clients : sock'[d].state = sock[d].state
    BY <1>1, <1>2
  <2>4. ready' \subseteq ready \cup {g \in Fds : clients[g].client # {}}
    BY <1>1
  <2>5. IsEvent(event')
    BY <1>0, Standing
  <2> QED
    BY <1>0, <1>2, <1>3, <1>4, <2>1, <2>2, <2>3, <2>4, <2>5, Quiet, SMTT(30)
<1>7. \A g \in Fds \ {f} : (Watched(g) /\ Flushed(g))'
  <2>1. /\ \A e \in batch : e.fd # f => e \in batch'
        /\ ready \ {f} \subseteq ready'
    OBVIOUS
  <2> QED
    BY <1>1, <1>2, <1>3, <1>4, <2>1, Others, ZenonT(60)
<1> QED
  BY <1>0, <1>6, <1>7, ZenonT(60) DEF Inv

\* Marking a connection for closing changes nothing else of it.
LEMMA CloseEdit ==
  ASSUME NEW x, Connection(x), x.client # {}, NEW b \in BOOLEAN, NEW y, y = [x EXCEPT !.should_close = b]
  PROVE  /\ Connection(y) /\ y.client = x.client
         /\ y.write_buffer = x.write_buffer /\ y.should_close = b
  BY DEF Connection

\* What the handlers know of the descriptor they serve.
LEMMA Served ==
  ASSUME Inv, pc \in {"read", "write", "check"}, NEW f, f = event.fd
  PROVE  /\ f \in Fds /\ Connection(clients[f]) /\ clients[f].client # {}
         /\ DOMAIN clients = Fds /\ clients = [clients EXCEPT ![f] = clients[f]]
         /\ DOMAIN interest = Fds /\ interest = [interest EXCEPT ![f] = interest[f]]
         /\ interest[f] \in {{"IN"}, {"IN", "OUT"}}
         /\ ClientOf(f) \in Clients /\ sock[ClientOf(f)] \in Sockets
         /\ sock[ClientOf(f)].taken <= sock[ClientOf(f)].sent
         /\ sock[ClientOf(f)].state = "open" /\ DOMAIN sock = Clients
         /\ sock = [sock EXCEPT ![ClientOf(f)] = sock[ClientOf(f)]]
         /\ Watched(f) /\ Flushed(f)
<1>0. Books
  BY DEF Inv
<1>1. f \in Fds /\ clients[f].client # {} /\ ClientOf(f) \in Clients
  BY <1>0, AtHand
<1>2. SockInv /\ ConnInv
  BY <1>0 DEF Books
<1>3. sock[ClientOf(f)].state = "open"
  BY <1>1, <1>2, Holder
<1>4. Connection(clients[f]) /\ interest[f] \in {{"IN"}, {"IN", "OUT"}}
  BY <1>1, <1>2 DEF ConnInv
<1>5. /\ DOMAIN clients = Fds /\ clients = [clients EXCEPT ![f] = clients[f]]
      /\ DOMAIN interest = Fds /\ interest = [interest EXCEPT ![f] = interest[f]]
  BY <1>1, <1>2 DEF ConnInv
<1>6. DOMAIN sock = Clients /\ sock = [sock EXCEPT ![ClientOf(f)] = sock[ClientOf(f)]]
  BY <1>1, <1>2 DEF SockInv
<1> QED
  BY <1>1, <1>2, <1>3, <1>4, <1>5, <1>6, SockOf, ZenonT(60) DEF Inv

\* recv that finds nothing keeps Inv.
LEMMA RecvNothingStep == ASSUME Inv, RecvNothing PROVE Inv'
<1>0. PICK f, c : f = event.fd /\ c = ClientOf(f)
  OBVIOUS
<1>1. /\ f \in Fds /\ Connection(clients[f]) /\ clients[f].client # {}
      /\ DOMAIN clients = Fds /\ interest = [interest EXCEPT ![f] = interest[f]]
      /\ sock = [sock EXCEPT ![c] = sock[c]]
      /\ interest[f] \in {{"IN"}, {"IN", "OUT"}} /\ c \in Clients
      /\ sock[c] \in Sockets /\ sock[c].taken <= sock[c].sent /\ sock[c].state = "open"
      /\ Watched(f) /\ Flushed(f)
  BY <1>0, Served, Zenon DEF RecvNothing
<1> DEFINE ends == clients[f].should_close \/ sock[c].end # "open"
<1>2. PICK b, x : b = ends /\ x = [clients[f] EXCEPT !.should_close = b]
  BY Zenon
<1>3. /\ pc = "read" /\ pc' = AfterRead /\ pc' \in {"write", "check"}
      /\ UNCHANGED <<event, batch, backlog, limit, interest, ready, sock>>
      /\ sock[c].sent - sock[c].taken = 0
  BY <1>0 DEF RecvNothing, AfterRead, Unread
<1>4. clients' = [clients EXCEPT ![f] = x]
  BY <1>0, <1>2, Zenon DEF RecvNothing
<1>6. b \in BOOLEAN /\ (clients[f].should_close => b) /\ (sock[c].end # "open" => b)
  BY <1>1, <1>2, Zenon DEF Connection
<1>7. /\ Connection(x) /\ x.client = clients[f].client
      /\ x.write_buffer = clients[f].write_buffer /\ x.should_close = b
  <2>1. x = [clients[f] EXCEPT !.should_close = b] /\ b \in BOOLEAN
    BY <1>2, <1>6
  <2>2. Connection(clients[f]) /\ clients[f].client # {}
    BY <1>1
  <2> QED
    BY <2>1, <2>2, CloseEdit, SMTT(30)
<1>8. clients'[f] = x
  BY <1>1, <1>4, Zenon
<1>9. (ClientOf(f))' = c
  BY <1>0, <1>7, <1>8, Zenon DEF ClientOf
<1>10. Watched(f)'
  <2>1. "IN" \in Revents(sock[c]) => b
    BY <1>1, <1>3, <1>6, SMTT(30) DEF Revents, Sockets
  <2> QED
    BY <1>3, <1>7, <1>8, <1>9, <2>1, Zenon DEF Watched, InUse, Revents
<1>11. Flushed(f)'
  <2>1. (Noticed(f, {"OUT", "HUP"}))' = Noticed(f, {"OUT", "HUP"})
    BY <1>3, Zenon DEF Noticed
  <2>2. clients[f].write_buffer > 0 =>
          /\ interest[f] = {"IN", "OUT"}
          /\ \/ Noticed(f, {"OUT", "HUP"}) \/ clients[f].should_close
             \/ sock[c].out = SendRoom /\ sock[c].nospace
             \/ pc' = "write" /\ event.fd = f
    BY <1>0, <1>1, <1>3, ZenonT(60) DEF Flushed
  <2> QED
    BY <1>3, <1>6, <1>7, <1>8, <1>9, <2>1, <2>2, ZenonT(60) DEF Flushed
<1> QED
  BY <1>0, <1>1, <1>3, <1>4, <1>7, <1>10, <1>11, Serving, Zenon
\* send that fails keeps Inv.
LEMMA SendFailsStep == ASSUME Inv, SendFails PROVE Inv'
<1>0. PICK f, c : f = event.fd /\ c = ClientOf(f)
  OBVIOUS
<1>1. /\ f \in Fds /\ Connection(clients[f]) /\ clients[f].client # {}
      /\ DOMAIN clients = Fds /\ interest = [interest EXCEPT ![f] = interest[f]]
      /\ interest[f] \in {{"IN"}, {"IN", "OUT"}} /\ c \in Clients
      /\ sock[c] \in Sockets /\ sock[c].taken <= sock[c].sent /\ sock[c].state = "open"
      /\ sock = [sock EXCEPT ![c] = sock[c]] /\ Flushed(f)
  BY <1>0, Served, Zenon DEF SendFails
<1>2. PICK b, x : b = TRUE /\ x = [clients[f] EXCEPT !.should_close = b]
  BY Zenon
<1>3. /\ pc = "write" /\ pc' = "check" /\ clients' = [clients EXCEPT ![f] = x]
      /\ UNCHANGED <<event, batch, backlog, limit, interest, ready, sock>>
  BY <1>0, <1>2, ZenonT(60) DEF SendFails
<1>4. /\ Connection(x) /\ x.client = clients[f].client
      /\ x.write_buffer = clients[f].write_buffer /\ x.should_close
  <2>1. x = [clients[f] EXCEPT !.should_close = b] /\ b \in BOOLEAN
    BY <1>2
  <2>2. Connection(clients[f]) /\ clients[f].client # {}
    BY <1>1
  <2>3. /\ Connection(x) /\ x.client = clients[f].client
        /\ x.write_buffer = clients[f].write_buffer /\ x.should_close = b
    BY <2>1, <2>2, CloseEdit, SMTT(30)
  <2> QED
    BY <1>2, <2>3
<1>5. clients'[f] = x
  BY <1>1, <1>3, Zenon
<1>6. Watched(f)'
  BY <1>4, <1>5, ZenonT(60) DEF Watched
<1>7. Flushed(f)'
  BY <1>1, <1>3, <1>4, <1>5, ZenonT(60) DEF Flushed
<1> QED
  BY <1>0, <1>1, <1>3, <1>4, <1>6, <1>7, Serving, ZenonT(60)

\* send that finds no room keeps Inv.
LEMMA SendBlockedStep == ASSUME Inv, SendBlocked PROVE Inv'
<1>0. PICK f, c : f = event.fd /\ c = ClientOf(f)
  OBVIOUS
<1>1. /\ f \in Fds /\ Connection(clients[f])
      /\ clients = [clients EXCEPT ![f] = clients[f]]
      /\ interest = [interest EXCEPT ![f] = interest[f]]
      /\ interest[f] \in {{"IN"}, {"IN", "OUT"}} /\ c \in Clients
      /\ sock[c] \in Sockets /\ sock[c].taken <= sock[c].sent /\ sock[c].state = "open"
      /\ DOMAIN sock = Clients /\ Watched(f) /\ Flushed(f)
  BY <1>0, Served, Zenon DEF SendBlocked
<1>2. PICK t : t = [sock[c] EXCEPT !.nospace = TRUE]
  BY Zenon
<1>3. /\ pc = "write" /\ pc' = "check" /\ sock' = [sock EXCEPT ![c] = t]
      /\ sock[c].out = SendRoom
      /\ UNCHANGED <<event, batch, backlog, limit, interest, ready, clients>>
  BY <1>0, <1>2, ZenonT(60) DEF SendBlocked
<1>4. t \in Sockets /\ t.taken <= t.sent
  BY <1>1, <1>2, SocketEdits, ZenonT(60)
<1>5. /\ t.nospace /\ t.out = SendRoom /\ t.state = "open"
      /\ t.sent = sock[c].sent /\ t.taken = sock[c].taken /\ t.end = sock[c].end
  BY <1>1, <1>2, <1>3 DEF Sockets
<1>6. sock'[c] = t /\ (ClientOf(f))' = c
  BY <1>0, <1>1, <1>3, ZenonT(60) DEF ClientOf
<1>7. Watched(f)'
  <2>1. "IN" \in Revents(t) => "IN" \in Revents(sock[c])
    BY <1>5 DEF Revents
  <2>2. InUse(f) /\ "IN" \in Revents(sock[c]) =>
          Noticed(f, {"IN", "HUP"}) \/ clients[f].should_close
    BY <1>0, <1>1, <1>3, ZenonT(60) DEF Watched
  <2>3. (Noticed(f, {"IN", "HUP"}))' = Noticed(f, {"IN", "HUP"})
    BY <1>3, Zenon DEF Noticed
  <2>4. (Revents(sock[ClientOf(f)]))' = Revents(t)
    BY <1>6, Zenon DEF Revents
  <2> QED
    BY <1>3, <2>1, <2>2, <2>3, <2>4, ZenonT(60) DEF Watched, InUse
<1>8. Flushed(f)'
  BY <1>1, <1>3, <1>5, <1>6, ZenonT(60) DEF Flushed
<1> QED
  BY <1>0, <1>1, <1>3, <1>4, <1>5, <1>7, <1>8, Serving, Zenon

\* recv takes no more than is there.
LEMMA RecvSizeIs ==
  ASSUME NEW c, sock[c] \in Sockets, sock[c].taken <= sock[c].sent
  PROVE  RecvSize(c) \in 0..(sock[c].sent - sock[c].taken)
<1>1. Unread(c) \in Nat /\ Unread(c) = sock[c].sent - sock[c].taken
  BY DEF Unread, Sockets
<1>2. BUFFER_SIZE \in Nat
  BY ServerAssumption
<1>3. RecvSize(c) \in {Unread(c), BUFFER_SIZE} /\ RecvSize(c) <= Unread(c)
  BY <1>1, <1>2, MinFacts, ZenonT(60) DEF RecvSize
<1> QED
  BY <1>1, <1>2, <1>3

\* What epoll_ctl() does to a socket, which is then in state u: it finds room and
\* reports it, or none and asks for a wakeup.
Controlled(f, c, s, E, u) ==
  /\ interest' = [interest EXCEPT ![f] = E]
  /\ ready \subseteq ready' /\ ready' \subseteq ready \cup {f}
  /\ sock' = [sock EXCEPT ![c] = u]
  /\ u \in Sockets /\ u.taken <= u.sent /\ u.state = s.state
  /\ "IN" \in Revents(u) => f \in ready'
  /\ "OUT" \in E => f \in ready' \/ (u.out = SendRoom /\ u.nospace)

\* epoll_ctl makes a descriptor ready that has what it asks for.
LEMMA ControlOut ==
  ASSUME NEW f, NEW c, NEW s \in Sockets, s.taken <= s.sent,
         NEW E, "IN" \in E, Control(f, c, s, E)
  PROVE  Controlled(f, c, s, E, Polled(s, E))
<1>1. /\ interest' = [interest EXCEPT ![f] = E] /\ sock' = [sock EXCEPT ![c] = Polled(s, E)]
      /\ ready' = IF Reported(s, E) # {} THEN ready \cup {f} ELSE ready
  BY Zenon DEF Control
<1>2. Polled(s, E) \in Sockets /\ Polled(s, E).taken <= Polled(s, E).sent
  BY PolledSocket
<1>3. /\ Polled(s, E).state = s.state /\ Polled(s, E).out = s.out /\ Polled(s, E).sent = s.sent
      /\ Polled(s, E).taken = s.taken /\ Polled(s, E).end = s.end
      /\ "OUT" \in E /\ s.out = SendRoom => Polled(s, E).nospace
  BY PolledSocket, Zenon
<1>4. "IN" \in Revents(Polled(s, E)) => "IN" \in Reported(s, E)
  BY <1>3 DEF Revents, Reported
<1>5. "OUT" \in E => "OUT" \in Reported(s, E) \/ s.out = SendRoom
  <2>1. s.out < SendRoom \/ s.out = SendRoom
    BY ServerAssumption DEF Sockets
  <2> QED
    BY <2>1 DEF Revents, Reported
<1>6. ready \subseteq ready' /\ ready' \subseteq ready \cup {f} /\ (Reported(s, E) # {} => f \in ready')
  BY <1>1
<1>7. "IN" \in Revents(Polled(s, E)) => f \in ready'
  BY <1>4, <1>6
<1>8. "OUT" \in E => f \in ready' \/ (Polled(s, E).out = SendRoom /\ Polled(s, E).nospace)
  <2>1. CASE "OUT" \in Reported(s, E)
    BY <1>6, <2>1
  <2>2. CASE "OUT" \in E /\ s.out = SendRoom
    BY <1>3, <2>2, ZenonT(60)
  <2> QED
    BY <1>5, <2>1, <2>2, ZenonT(60)
<1> QED
  BY <1>1, <1>2, <1>3, <1>6, <1>7, <1>8, SMTT(30) DEF Controlled

\* recv, with the parsing and the replies that follow, keeps Inv.
LEMMA RecvStep == ASSUME Inv, Recv PROVE Inv'
<1>0. PICK f, c : f = event.fd /\ c = ClientOf(f)
  OBVIOUS
<1>1. /\ f \in Fds /\ Connection(clients[f]) /\ clients[f].client # {} /\ DOMAIN clients = Fds
      /\ interest = [interest EXCEPT ![f] = interest[f]]
      /\ interest[f] \in {{"IN"}, {"IN", "OUT"}} /\ c \in Clients
      /\ sock[c] \in Sockets /\ sock[c].taken <= sock[c].sent /\ sock[c].state = "open"
  BY <1>0, Served, ZenonT(60) DEF Recv
<1>2. PICK t : t = [sock[c] EXCEPT !.taken = @ + RecvSize(c)]
  BY Zenon
<1>3. t \in Sockets /\ t.taken <= t.sent /\ t.state = "open"
  <2>1. RecvSize(c) \in 0..(sock[c].sent - sock[c].taken)
    BY <1>1, RecvSizeIs
  <2>2. t \in Sockets /\ t.taken <= t.sent
    BY <1>1, <1>2, <2>1, SocketEdits, Zenon
  <2> QED
    BY <1>1, <1>2, <2>2, SMTT(30) DEF Sockets
<1>4. PICK p, replies, w :
        /\ replies \in 0..RecvSize(c) /\ w = clients[f].write_buffer + ReplySize * replies
        /\ clients' = [clients EXCEPT ![f].parser = p, ![f].write_buffer = w]
        /\ EnableOut(f, c, t, w)
  <2>1. PICK p, r :
          /\ r \in 0..RecvSize(ClientOf(event.fd))
          /\ clients' = [clients EXCEPT ![event.fd].parser = p,
               ![event.fd].write_buffer = clients[event.fd].write_buffer + ReplySize * r]
          /\ EnableOut(event.fd, ClientOf(event.fd),
               [sock[ClientOf(event.fd)] EXCEPT !.taken = @ + RecvSize(ClientOf(event.fd))],
               clients[event.fd].write_buffer + ReplySize * r)
    BY Zenon DEF Recv
  <2> QED
    BY <1>0, <1>2, <2>1, ZenonT(60)
<1>5. w \in Nat
  <2>1. RecvSize(c) \in Nat
    BY <1>1, RecvSizeIs DEF Sockets
  <2> QED
    BY <1>1, <1>4, <2>1, ServerAssumption, SMTT(30) DEF Connection
<1>6. PICK x : x = [clients[f] EXCEPT !.parser = p, !.write_buffer = w]
  BY Zenon
<1>7. clients' = [clients EXCEPT ![f] = x]
  BY <1>1, <1>4, <1>6, ZenonT(60)
<1>8. Connection(x) /\ x.client = clients[f].client /\ x.write_buffer = w
  <2>1. Connection(clients[f]) /\ clients[f].client # {}
    BY <1>1, SMTT(30)
  <2>2. x = [clients[f] EXCEPT !.parser = p, !.write_buffer = w] /\ w \in Nat
    BY <1>5, <1>6, SMTT(30)
  <2> QED
    BY <2>1, <2>2, SMTT(30) DEF Connection
<1>9. /\ pc = "read" /\ pc' = "read" /\ UNCHANGED <<event, batch, backlog, limit>>
  BY DEF Recv, AfterRecv
<1>10. clients'[f] = x /\ (ClientOf(f))' = c
  BY <1>0, <1>1, <1>7, <1>8, ZenonT(60) DEF ClientOf
<1>11. Watched(f)'
  BY <1>0, <1>9, Zenon DEF Watched
<1>12. CASE w > 0 /\ Control(f, c, t, {"IN", "OUT"})
  <2>1. PICK u : u = Polled(t, {"IN", "OUT"})
    BY Zenon
  <2>2. /\ interest' = [interest EXCEPT ![f] = {"IN", "OUT"}]
        /\ ready \subseteq ready' /\ ready' \subseteq ready \cup {f}
        /\ sock' = [sock EXCEPT ![c] = u] /\ u \in Sockets /\ u.taken <= u.sent /\ u.state = "open"
        /\ f \in ready' \/ (u.out = SendRoom /\ u.nospace)
    <3>1. "IN" \in {"IN", "OUT"} /\ "OUT" \in {"IN", "OUT"}
      OBVIOUS
    <3>2. Controlled(f, c, t, {"IN", "OUT"}, Polled(t, {"IN", "OUT"}))
      BY <1>3, <1>12, <3>1, ControlOut, ZenonT(60)
    <3>3. Controlled(f, c, t, {"IN", "OUT"}, u)
      BY <2>1, <3>2, SMTT(30)
    <3> QED
      BY <1>3, <3>1, <3>3, ZenonT(60) DEF Controlled
  <2>3. sock'[c] = u /\ interest'[f] = {"IN", "OUT"}
    <3>1. SockInv /\ f \in Fds /\ interest \in [Fds -> {{}, {"IN"}, {"IN", "OUT"}}]
      BY <1>1, Standing, Zenon DEF Inv
    <3> QED
      BY <1>1, <2>2, <3>1 DEF SockInv
  <2>4. Flushed(f)'
    BY <1>10, <2>2, <2>3, ZenonT(60) DEF Flushed, Noticed
  <2> QED
    BY <1>0, <1>7, <1>8, <1>9, <1>11, <2>2, <2>4, Serving, Zenon
<1>13. CASE w = 0 /\ sock' = [sock EXCEPT ![c] = t] /\ UNCHANGED <<interest, ready>>
  <2>1. Flushed(f)'
    BY <1>8, <1>10, <1>13, SMTT(30) DEF Flushed
  <2>2. interest' = [interest EXCEPT ![f] = interest[f]] /\ ready' = ready
    BY <1>1, <1>13, ZenonT(60)
  <2> QED
    BY <1>0, <1>1, <1>3, <1>7, <1>8, <1>9, <1>11, <1>13, <2>1, <2>2, Serving, ZenonT(60)
<1> QED
  BY <1>4, <1>12, <1>13, Zenon DEF EnableOut

\* send of a part or all of the buffer keeps Inv.
LEMMA SendStep == ASSUME Inv, Send PROVE Inv'
<1>0. PICK f, c, n, t, w :
        /\ f = event.fd /\ c = ClientOf(f)
        /\ n = Min({clients[f].write_buffer, SendRoom - sock[c].out})
        /\ t = [sock[c] EXCEPT !.out = @ + n] /\ w = clients[f].write_buffer - n
  BY Zenon
<1>1. /\ f \in Fds /\ Connection(clients[f]) /\ clients[f].client # {} /\ DOMAIN clients = Fds
      /\ interest = [interest EXCEPT ![f] = interest[f]]
      /\ interest[f] \in {{"IN"}, {"IN", "OUT"}} /\ c \in Clients
      /\ sock[c] \in Sockets /\ sock[c].taken <= sock[c].sent /\ sock[c].state = "open"
      /\ DOMAIN sock = Clients /\ Watched(f) /\ Flushed(f)
  BY <1>0, Served, Zenon DEF Send
<1>2. n \in 0..(SendRoom - sock[c].out) /\ n \in 0..clients[f].write_buffer
  <2>1. clients[f].write_buffer \in Nat /\ SendRoom - sock[c].out \in Nat
    BY <1>1, ServerAssumption DEF Connection, Sockets
  <2>2. /\ n \in {clients[f].write_buffer, SendRoom - sock[c].out}
        /\ n <= clients[f].write_buffer /\ n <= SendRoom - sock[c].out
    BY <1>0, <2>1, MinFacts, Zenon
  <2> QED
    BY <2>1, <2>2
<1>3. t \in Sockets /\ t.taken <= t.sent
  BY <1>0, <1>1, <1>2, SocketEdits, Zenon
<1>4. /\ t.state = "open" /\ t.sent = sock[c].sent /\ t.taken = sock[c].taken
      /\ t.end = sock[c].end
  <2>1. t = [sock[c] EXCEPT !.out = @ + n]
    BY <1>0
  <2> QED
    BY <1>1, <2>1 DEF Sockets
<1>5. PICK x : x = [clients[f] EXCEPT !.write_buffer = w]
  BY Zenon
<1>6. /\ Connection(x) /\ x.client = clients[f].client
      /\ x.write_buffer = w /\ x.should_close = clients[f].should_close
  <2>1. w \in Nat
    BY <1>0, <1>1, <1>2 DEF Connection
  <2>2. Connection(clients[f]) /\ clients[f].client # {}
    BY <1>1
  <2> QED
    BY <1>5, <2>1, <2>2, SMTT(30) DEF Connection
<1>7. /\ pc = "write" /\ clients' = [clients EXCEPT ![f] = x]
      /\ pc' = (IF w > 0 THEN "write" ELSE "check")
      /\ IF w = 0 THEN Control(f, c, t, {"IN"})
         ELSE sock' = [sock EXCEPT ![c] = t] /\ UNCHANGED <<interest, ready>>
      /\ UNCHANGED <<event, batch, backlog, limit>>
  BY <1>0, <1>5, ZenonT(60) DEF Send, AfterSend
<1>8. clients'[f] = x /\ (ClientOf(f))' = c
  BY <1>0, <1>1, <1>6, <1>7, Zenon DEF ClientOf
<1>9. ASSUME NEW u \in Sockets, sock'[c] = u, ready \subseteq ready',
             "IN" \in Revents(u) => f \in ready' \/ "IN" \in Revents(sock[c])
      PROVE  Watched(f)'
  <2>1. (Noticed(f, {"IN", "HUP"}) => Noticed(f, {"IN", "HUP"})') /\ (f \in ready' => Noticed(f, {"IN", "HUP"})')
    BY <1>7, <1>9, ZenonT(60) DEF Noticed
  <2>2. "IN" \in Revents(sock[c]) => Noticed(f, {"IN", "HUP"}) \/ clients[f].should_close
    BY <1>0, <1>1, <1>7, ZenonT(60) DEF Watched, InUse
  <2>3. (Revents(sock[ClientOf(f)]))' = Revents(u)
    BY <1>8, <1>9, Zenon DEF Revents
  <2> QED
    BY <1>6, <1>8, <1>9, <2>1, <2>2, <2>3, Zenon DEF Watched
<1>10. CASE w = 0
  <2>1. PICK E \in {{"IN"}, {"IN", "OUT"}} : E = {"IN"} /\ "IN" \in E
    BY Zenon
  <2>2. PICK u : u = Polled(t, E)
    BY Zenon
  <2>3. Control(f, c, t, E)
    BY <1>7, <1>10, <2>1, Zenon
  <2>4. /\ interest' = [interest EXCEPT ![f] = E]
        /\ ready \subseteq ready' /\ ready' \subseteq ready \cup {f}
        /\ sock' = [sock EXCEPT ![c] = u] /\ u \in Sockets /\ u.taken <= u.sent
        /\ u.state = t.state /\ ("IN" \in Revents(u) => f \in ready')
    <3>1. Controlled(f, c, t, E, Polled(t, E))
      BY <1>3, <2>1, <2>3, ControlOut, Zenon
    <3> QED
      BY <2>2, <3>1, Zenon DEF Controlled
  <2>5. sock'[c] = u
    BY <1>1, <2>4, Zenon
  <2>6. Watched(f)'
    BY <1>9, <2>4, <2>5, ZenonT(60)
  <2>7. Flushed(f)'
    BY <1>6, <1>8, <1>10 DEF Flushed
  <2>8. pc' = "check"
    BY <1>7, <1>10
  <2> QED
    BY <1>0, <1>4, <1>6, <1>7, <2>4, <2>6, <2>7, <2>8, Serving, ZenonT(60)
<1>11. CASE w # 0
  <2>0. w > 0 /\ clients[f].write_buffer > 0
    BY <1>0, <1>1, <1>2, <1>11 DEF Connection
  <2>1. /\ sock' = [sock EXCEPT ![c] = t] /\ pc' = "write" /\ UNCHANGED <<interest, ready>>
    BY <1>7, <1>11, <2>0, ZenonT(60)
  <2>2. interest' = [interest EXCEPT ![f] = interest[f]] /\ ready \subseteq ready'
        /\ ready' \subseteq ready \cup {f}
    BY <1>1, <2>1, ZenonT(60)
  <2>3. sock'[c] = t
    BY <1>1, <2>1, ZenonT(60)
  <2>4. "IN" \in Revents(t) => "IN" \in Revents(sock[c])
    BY <1>4 DEF Revents
  <2>5. Watched(f)'
    BY <1>3, <1>9, <2>2, <2>3, <2>4, ZenonT(60)
  <2>6. Flushed(f)'
    BY <1>0, <1>1, <1>7, <2>0, <2>1, ZenonT(60) DEF Flushed
  <2> QED
    BY <1>0, <1>1, <1>3, <1>4, <1>6, <1>7, <2>1, <2>2, <2>5, <2>6, Serving, Zenon
<1> QED
  BY <1>10, <1>11

-----------------------------------------------------------------------------
(* The clients.                                                            *)

\* A step of client c moves its socket to state t and may wake its descriptor.
LEMMA ClientMoves ==
  ASSUME Inv, NEW c \in Clients, NEW t \in Sockets, t.taken <= t.sent, t.state = sock[c].state,
         sock' = [sock EXCEPT ![c] = t], ready \subseteq ready', ready' \subseteq ready \cup FdsOf(c),
         UNCHANGED <<loop, clients, interest, backlog, limit>>,
         \A f \in FdsOf(c) : (Watched(f) /\ Flushed(f))'
  PROVE  Inv'
<1>0. Books /\ Fds' = Fds /\ \A f \in Fds : Watched(f) /\ Flushed(f)
  BY DEF Inv, Fds
<1>1. SockInv' /\ sock'[c] = t /\ \A d \in Clients \ {c} : sock'[d] = sock[d]
  BY <1>0, SockUpdate, Zenon DEF Books
<1>2. pc' = pc /\ event' = event /\ batch' = batch
  BY DEF loop
<1>3. Books'
  <2>1. \A d \in Clients : sock'[d].state = sock[d].state
    BY <1>1
  <2>2. ready' \subseteq ready \cup {f \in Fds : clients[f].client # {}}
    BY DEF FdsOf
  <2>3. /\ \A f \in Fds : Connection(clients'[f]) /\ clients'[f].client = clients[f].client
        /\ clients' = [f \in Fds |-> clients'[f]]
        /\ interest' \in [Fds -> {{}, {"IN"}, {"IN", "OUT"}}]
        /\ \A f \in Fds : interest'[f] = {} <=> interest[f] = {}
        /\ IsEvent(event')
    BY <1>0, <1>2, Standing
  <2>4. /\ pc' \in {"down", "wait", "next", "accept", "read", "write", "check"}
        /\ pc' \in {"down", "wait"} => batch = {}
        /\ pc' \in {"read", "write", "check"} =>
             pc \in {"read", "write", "check"} /\ event' = event
    BY <1>0, <1>2 DEF Books, EventInv
  <2> QED
    BY <1>0, <1>1, <1>2, <2>1, <2>2, <2>3, <2>4, Quiet, SMTT(30)
<1>4. ASSUME NEW f \in Fds, f \notin FdsOf(c) PROVE (Watched(f) /\ Flushed(f))'
  <2>1. clients[f].client # {} => ClientOf(f) \in Clients \ {c}
    BY <1>0, <1>4, Holder DEF Books, FdsOf
  <2>2. clients[f].client # {} => sock'[ClientOf(f)] = sock[ClientOf(f)]
    BY <1>1, <2>1, Zenon
  <2>3. Connection(clients[f]) /\ (f \in ready => f \in ready')
    BY <1>0, Standing
  <2> QED
    BY <1>0, <1>2, <2>2, <2>3, Passive, ZenonT(60)
<1> QED
  BY <1>0, <1>3, <1>4, Zenon DEF Inv

\* A client's descriptor, if it has one, is registered for input.
LEMMA Registered ==
  ASSUME Inv, NEW c \in Clients, NEW f \in FdsOf(c)
  PROVE  /\ f \in Fds /\ clients[f].client # {} /\ ClientOf(f) = c
         /\ "IN" \in interest[f] /\ Watched(f) /\ Flushed(f)
<1>1. ConnInv /\ f \in Fds /\ c \in clients[f].client /\ Watched(f) /\ Flushed(f)
  BY DEF Inv, Books, FdsOf
<1>2. clients[f].client # {} /\ ClientOf(f) = c
  BY <1>1, Holder
<1>3. "IN" \in interest[f]
  BY <1>1, <1>2 DEF ConnInv
<1> QED
  BY <1>1, <1>2, <1>3

\* An edge makes the descriptors ready that listen to it, and no others.
LEMMA WakeIs ==
  ASSUME NEW c, NEW E
  PROVE  /\ ready \subseteq Wake(c, E) /\ Wake(c, E) \subseteq ready \cup FdsOf(c)
         /\ \A f \in FdsOf(c) : interest[f] \cap E # {} => f \in Wake(c, E)
  BY DEF Wake

\* An event raised for a descriptor reaches it.
LEMMA Raised ==
  ASSUME NEW f, Flushed(f), f \in ready', UNCHANGED <<clients, interest>>
  PROVE  (Watched(f) /\ Flushed(f))'
  BY Zenon DEF Watched, Flushed, Noticed

\* Bytes that arrive keep Inv.
LEMMA DeliverStep ==
  ASSUME Inv, NEW c \in Clients, NEW n \in 1..SendLimit(c), Deliver(c, n)
  PROVE  Inv'
<1>1. PICK t : t = [sock[c] EXCEPT !.sent = @ + n]
  BY Zenon
<1>2. sock[c] \in Sockets /\ sock[c].taken <= sock[c].sent
  BY SockOf DEF Inv, Books
<1>3. t \in Sockets /\ t.taken <= t.sent /\ t.state = sock[c].state
  <2>1. n \in Nat
    OBVIOUS
  <2>2. t \in Sockets /\ t.taken <= t.sent
    BY <1>1, <1>2, <2>1, SocketEdits, ZenonT(60)
  <2> QED
    BY <1>1, <1>2, <2>2 DEF Sockets
<1>4. /\ sock' = [sock EXCEPT ![c] = t] /\ ready' = Wake(c, {"IN"})
      /\ UNCHANGED <<loop, clients, interest, backlog, limit>>
  BY <1>1, Zenon DEF Deliver
<1>5. ready \subseteq ready' /\ ready' \subseteq ready \cup FdsOf(c)
  BY <1>4, WakeIs
<1>6. ASSUME NEW f \in FdsOf(c) PROVE (Watched(f) /\ Flushed(f))'
  <2>1. "IN" \in interest[f] /\ Flushed(f)
    BY Registered
  <2>2. f \in ready'
    BY <1>4, <2>1, WakeIs
  <2> QED
    BY <1>4, <2>1, <2>2, Raised, ZenonT(60)
<1> QED
  BY <1>3, <1>4, <1>5, <1>6, ClientMoves, ZenonT(60)

\* A client that shuts down or resets keeps Inv.
LEMMA EndStep ==
  ASSUME Inv, NEW c \in Clients, NEW how \in {"fin", "rst"}, End(c, how)
  PROVE  Inv'
<1>1. PICK t, E : /\ t = [sock[c] EXCEPT !.end = how]
                  /\ E = IF how = "rst" THEN {"IN", "OUT", "HUP"} ELSE {"IN"}
  BY Zenon
<1>2. sock[c] \in Sockets /\ sock[c].taken <= sock[c].sent
  BY SockOf DEF Inv, Books
<1>3. t \in Sockets /\ t.taken <= t.sent /\ t.state = sock[c].state
  <2>1. t \in Sockets /\ t.taken <= t.sent
    BY <1>1, <1>2, SocketEdits, Zenon
  <2> QED
    BY <1>1, <1>2, <2>1 DEF Sockets
<1>4. /\ sock' = [sock EXCEPT ![c] = t] /\ ready' = Wake(c, E)
      /\ UNCHANGED <<loop, clients, interest, backlog, limit>>
  BY <1>1, Zenon DEF End
<1>5. ready \subseteq ready' /\ ready' \subseteq ready \cup FdsOf(c)
  BY <1>4, WakeIs
<1>6. ASSUME NEW f \in FdsOf(c) PROVE (Watched(f) /\ Flushed(f))'
  <2>1. "IN" \in interest[f] /\ Flushed(f)
    BY Registered
  <2>2. "IN" \in E
    BY <1>1
  <2>3. f \in ready'
    BY <1>4, <2>1, <2>2, WakeIs, SMTT(30)
  <2> QED
    BY <1>4, <2>1, <2>3, Raised, Zenon
<1> QED
  BY <1>3, <1>4, <1>5, <1>6, ClientMoves, ZenonT(60)

\* A client that reads a reply keeps Inv.
LEMMA ReadReplyStep ==
  ASSUME Inv, NEW c \in Clients, ReadReply(c)
  PROVE  Inv'
<1>1. PICK t : t = [sock[c] EXCEPT !.got = @ + sock[c].out, !.out = 0, !.nospace = FALSE]
  BY Zenon
<1>2. sock[c] \in Sockets /\ sock[c].taken <= sock[c].sent
  BY SockOf DEF Inv, Books
<1>3. t \in Sockets /\ t.taken <= t.sent
  BY <1>1, <1>2, SocketEdits, Zenon
<1>4. /\ t.state = sock[c].state /\ t.sent = sock[c].sent /\ t.taken = sock[c].taken
      /\ t.end = sock[c].end
  BY <1>1, <1>2 DEF Sockets
<1>5. /\ sock' = [sock EXCEPT ![c] = t]
      /\ ready' = IF sock[c].nospace THEN Wake(c, {"OUT"}) ELSE ready
      /\ UNCHANGED <<loop, clients, interest, backlog, limit>>
  BY <1>1, Zenon DEF ReadReply
<1>6. ready \subseteq ready' /\ ready' \subseteq ready \cup FdsOf(c)
  BY <1>5, WakeIs
<1>7. sock'[c] = t
  BY <1>3, <1>5, SockUpdate, Zenon DEF Inv, Books
<1>8. ASSUME NEW f \in FdsOf(c) PROVE (Watched(f) /\ Flushed(f))'
  <2>1. /\ f \in Fds /\ clients[f].client # {} /\ ClientOf(f) = c
        /\ Watched(f) /\ Flushed(f)
    BY Registered
  <2>2. (ClientOf(f))' = c
    BY <1>5, <2>1, Zenon DEF ClientOf
  <2>3. \A E : Noticed(f, E) => Noticed(f, E)'
    BY <1>5, <1>6, Zenon DEF Noticed, loop
  <2>4. pc' = pc /\ event' = event
    BY <1>5 DEF loop
  <2>5. Watched(f)'
    <3>1. (Revents(sock[ClientOf(f)]))' = Revents(t)
      BY <1>7, <2>2, Zenon DEF Revents
    <3>2. "IN" \in Revents(t) => "IN" \in Revents(sock[c])
      BY <1>4 DEF Revents
    <3>3. InUse(f) /\ "IN" \in Revents(sock[c]) =>
            \/ Noticed(f, {"IN", "HUP"}) \/ clients[f].should_close
            \/ pc = "read" /\ event.fd = f
      BY <2>1, Zenon DEF Watched
    <3> QED
      BY <1>5, <2>3, <2>4, <3>1, <3>2, <3>3, ZenonT(60) DEF Watched, InUse
  <2>6. Flushed(f)'
    <3>1. CASE sock[c].nospace /\ interest[f] = {"IN", "OUT"}
      <4>1. f \in ready'
        BY <1>5, <3>1, WakeIs
      <4> QED
        BY <1>5, <2>1, <4>1, Raised, ZenonT(60)
    <3>2. CASE ~sock[c].nospace \/ interest[f] # {"IN", "OUT"}
      <4>1. clients[f].write_buffer > 0 =>
              /\ interest[f] = {"IN", "OUT"}
              /\ \/ Noticed(f, {"OUT", "HUP"}) \/ clients[f].should_close
                 \/ pc = "write" /\ event.fd = f
                 \/ pc = "read" /\ event.fd = f /\ AfterRead = "write"
        BY <2>1, <3>2, Zenon DEF Flushed
      <4>2. AfterRead = "write" <=> (AfterRead = "write")'
        BY <2>4, Zenon DEF AfterRead
      <4> QED
        BY <1>5, <2>3, <2>4, <4>1, <4>2, ZenonT(60) DEF Flushed
    <3> QED
      BY <3>1, <3>2
  <2> QED
    BY <2>5, <2>6
<1> QED
  BY <1>3, <1>4, <1>5, <1>6, <1>8, ClientMoves, Zenon

-----------------------------------------------------------------------------
(* The backlog.                                                            *)

\* The backlog without its head.
LEMMA HeadWaits ==
  ASSUME BacklogInv, backlog # <<>>
  PROVE  /\ Head(backlog) \in Clients /\ sock[Head(backlog)].state = "backlog"
         /\ Tail(backlog) \in Seq(Clients) /\ Len(Tail(backlog)) = Len(backlog) - 1
         /\ \A i \in 1..Len(Tail(backlog)) :
              /\ Tail(backlog)[i] \in Clients \ {Head(backlog)}
              /\ sock[Tail(backlog)[i]].state = "backlog"
              /\ \A j \in 1..Len(Tail(backlog)) :
                   Tail(backlog)[i] = Tail(backlog)[j] => i = j
<1>1. backlog \in Seq(Clients) /\ Len(backlog) \in Nat \ {0} /\ Head(backlog) = backlog[1]
  BY DEF BacklogInv
<1>2. \A i \in 1..Len(backlog) :
        /\ backlog[i] \in Clients /\ sock[backlog[i]].state = "backlog"
        /\ \A j \in 1..Len(backlog) : backlog[i] = backlog[j] => i = j
  BY <1>1 DEF BacklogInv
<1>3. /\ Tail(backlog) \in Seq(Clients) /\ Len(Tail(backlog)) = Len(backlog) - 1
      /\ \A i \in 1..(Len(backlog) - 1) : Tail(backlog)[i] = backlog[i + 1]
  BY <1>1
<1>4. 1 \in 1..Len(backlog)
  BY <1>1
<1>5. ASSUME NEW i \in 1..(Len(backlog) - 1)
      PROVE  /\ Tail(backlog)[i] \in Clients \ {Head(backlog)}
             /\ sock[Tail(backlog)[i]].state = "backlog"
             /\ \A j \in 1..(Len(backlog) - 1) : Tail(backlog)[i] = Tail(backlog)[j] => i = j
  <2>1. i + 1 \in 1..Len(backlog) /\ i + 1 # 1
    BY <1>1
  <2>2. \A j \in 1..(Len(backlog) - 1) : j + 1 \in 1..Len(backlog) /\ (i + 1 = j + 1 => i = j)
    BY <1>1
  <2> QED
    BY <1>1, <1>2, <1>3, <1>4, <2>1, <2>2
<1> QED
  BY <1>1, <1>2, <1>3, <1>4, <1>5

\* Once the head of the backlog is taken, the rest of it still waits.
LEMMA Dequeued ==
  ASSUME Books, backlog # <<>>, backlog' = Tail(backlog),
         \A d \in Clients \ {Head(backlog)} : sock'[d] = sock[d]
  PROVE  BacklogInv'
<1>1. BacklogInv
  BY DEF Books
<1>2. backlog' \in Seq(Clients)
  BY <1>1, HeadWaits
<1>3. \A i \in 1..Len(backlog') :
        /\ sock'[backlog'[i]].state = "backlog"
        /\ \A j \in 1..Len(backlog') : backlog'[i] = backlog'[j] => i = j
  BY <1>1, HeadWaits
<1> QED
  BY <1>2, <1>3 DEF BacklogInv

\* A step that leaves the descriptors alone and closes none of their connections.
LEMMA ConnKeep ==
  ASSUME ConnInv, UNCHANGED <<clients, interest, limit>>, ready' \subseteq ready \cup {Listen},
         \A c \in Clients : sock[c].state = "open" => sock'[c].state = "open"
  PROVE  ConnInv'
<1>0. Fds' = Fds
  BY DEF Fds
<1>1. \A f \in Fds : \A d \in clients[f].client : d \in Clients
  BY Holder
<1>2. \A f \in Fds : \A d \in clients[f].client :
        sock'[d].state = "open" /\ \A g \in Fds : d \in clients[g].client => g = f
  BY <1>1 DEF ConnInv
<1>3. (\A f \in Fds : Connection(clients[f]) /\ (interest[f] = {} <=> clients[f].client = {}))'
  BY <1>0, Zenon DEF ConnInv, Connection
<1>4. ready' \subseteq {f \in Fds : clients[f].client # {}} \cup {Listen}
  BY DEF ConnInv
<1>5. /\ limit' \in Nat \ {0} /\ clients' = [f \in Fds |-> clients'[f]]
      /\ interest' \in [Fds -> {{}, {"IN"}, {"IN", "OUT"}}]
  BY DEF ConnInv
<1>6. (\A f \in Fds : \A c \in clients[f].client :
         sock[c].state = "open" /\ \A g \in Fds : c \in clients[g].client => g = f)'
  BY <1>0, <1>2, Zenon
<1>7. (ready \subseteq {f \in Fds : clients[f].client # {}} \cup {Listen})'
  BY <1>0, <1>4 DEF Listen
<1>8. (/\ limit \in Nat \ {0}
       /\ clients = [f \in Fds |-> clients[f]] /\ interest \in [Fds -> {{}, {"IN"}, {"IN", "OUT"}}])'
  BY <1>0, <1>5, SMTT(30)
<1> QED
  BY <1>3, <1>6, <1>7, <1>8, ZenonT(60) DEF ConnInv

\* A step on a connection that has no descriptor.
LEMMA Outside ==
  ASSUME Inv, NEW c \in Clients, sock[c].state # "open",
         NEW t \in Sockets, t.taken <= t.sent, sock' = [sock EXCEPT ![c] = t],
         ready' = ready \/ ready' = ready \cup {Listen},
         UNCHANGED <<pc, event, batch, clients, interest, limit>>, BacklogInv'
  PROVE  Inv'
<1>0. Books /\ Fds' = Fds /\ SockInv /\ ConnInv /\ \A f \in Fds : Watched(f) /\ Flushed(f)
  BY DEF Inv, Books, Fds
<1>1. SockInv' /\ \A d \in Clients \ {c} : sock'[d] = sock[d]
  BY <1>0, SockUpdate, Zenon
<1>2. \A f \in Fds : c \notin clients[f].client
  BY <1>0 DEF ConnInv
<1>3. ConnInv'
  BY <1>0, <1>1, ConnKeep
<1>4. EventInv'
  BY <1>0, Zenon DEF Books, EventInv, IsEvent, Listen
<1>5. ASSUME NEW f \in Fds PROVE (Watched(f) /\ Flushed(f))'
  <2>1. clients[f].client # {} => ClientOf(f) \in Clients \ {c}
    BY <1>0, <1>2, Holder
  <2>2. clients[f].client # {} => sock'[ClientOf(f)] = sock[ClientOf(f)]
    BY <1>1, <2>1, ZenonT(60)
  <2>3. Connection(clients[f]) /\ (f \in ready => f \in ready')
    BY <1>0, Standing
  <2> QED
    BY <1>0, <2>2, <2>3, Passive, ZenonT(60)
<1> QED
  BY <1>0, <1>1, <1>3, <1>4, <1>5, Zenon DEF Inv, Books

\* A connection that arrives keeps Inv.
LEMMA ConnectStep ==
  ASSUME Inv, NEW c \in Clients, Connect(c)
  PROVE  Inv'
<1>0. SockInv /\ BacklogInv
  BY DEF Inv, Books
<1>1. PICK t : t = [sock[c] EXCEPT !.state = "backlog"]
  BY Zenon
<1>2. sock[c] \in Sockets /\ sock[c].taken <= sock[c].sent
  BY <1>0, SockOf
<1>3. t \in Sockets /\ t.taken <= t.sent /\ t.state = "backlog"
  <2>1. t \in Sockets /\ t.taken <= t.sent
    BY <1>1, <1>2, SocketEdits, Zenon
  <2> QED
    BY <1>1, <1>2, <2>1 DEF Sockets
<1>4. /\ sock[c].state = "idle" /\ sock' = [sock EXCEPT ![c] = t]
      /\ backlog' = Append(backlog, c) /\ ready' = ready \cup {Listen}
      /\ UNCHANGED <<pc, event, batch, clients, interest, limit>>
  BY <1>1, Zenon DEF Connect, loop
<1>5. sock'[c] = t /\ \A d \in Clients \ {c} : sock'[d] = sock[d]
  BY <1>0, <1>3, <1>4, SockUpdate, ZenonT(60)
<1>6. BacklogInv'
  <2>1. backlog \in Seq(Clients) /\ Len(backlog) \in Nat
    BY <1>0 DEF BacklogInv
  <2>2. /\ backlog' \in Seq(Clients) /\ Len(backlog') = Len(backlog) + 1
        /\ backlog'[Len(backlog) + 1] = c /\ \A i \in 1..Len(backlog) : backlog'[i] = backlog[i]
    BY <1>4, <2>1
  <2>3. \A i \in 1..Len(backlog) :
          /\ backlog[i] \in Clients \ {c} /\ sock[backlog[i]].state = "backlog"
          /\ \A j \in 1..Len(backlog) : backlog[i] = backlog[j] => i = j
    BY <1>0, <1>4, <2>1 DEF BacklogInv
  <2>4. \A i \in 1..(Len(backlog) + 1) : i \in 1..Len(backlog) \/ i = Len(backlog) + 1
    BY <2>1
  <2>5. \A i \in 1..(Len(backlog) + 1) : sock'[backlog'[i]].state = "backlog"
    BY <1>3, <1>5, <2>2, <2>3, <2>4, ZenonT(60)
  <2>6. \A i, j \in 1..(Len(backlog) + 1) : backlog'[i] = backlog'[j] => i = j
    BY <2>2, <2>3, <2>4, Zenon
  <2> QED
    BY <2>2, <2>5, <2>6, Zenon DEF BacklogInv
<1> QED
  BY <1>3, <1>4, <1>6, Outside, ZenonT(60)

\* accept without a descriptor left keeps Inv.
LEMMA AcceptDropsStep == ASSUME Inv, AcceptDrops PROVE Inv'
<1>0. Books /\ SockInv /\ BacklogInv
  BY DEF Inv, Books
<1>1. PICK c, t : c = Head(backlog) /\ t = Closed(c)
  BY Zenon
<1>2. c \in Clients /\ sock[c].state = "backlog"
  BY <1>0, <1>1, HeadWaits DEF AcceptDrops
<1>3. t \in Sockets /\ t.taken <= t.sent
  <2>1. sock[c] \in Sockets /\ sock[c].taken <= sock[c].sent
    BY <1>0, <1>2, SockOf
  <2>2. t = Fresh("closed", sock[c].script, sock[c].polite)
    BY <1>1 DEF Closed
  <2> QED
    BY <2>1, <2>2, SocketEdits, Zenon
<1>4. /\ sock' = [sock EXCEPT ![c] = t] /\ backlog # <<>> /\ backlog' = Tail(backlog)
      /\ ready' = ready /\ UNCHANGED <<pc, event, batch, clients, interest, limit>>
  BY <1>1, Zenon DEF AcceptDrops
<1>5. \A d \in Clients \ {c} : sock'[d] = sock[d]
  BY <1>0, <1>2, <1>3, <1>4, SockUpdate, ZenonT(60)
<1>6. BacklogInv'
  BY <1>0, <1>1, <1>4, <1>5, Dequeued, ZenonT(60)
<1> QED
  BY <1>2, <1>3, <1>4, <1>6, Outside, ZenonT(60)

\* accept with the registration of the new connection keeps Inv.
LEMMA AcceptStep == ASSUME Inv, Accept PROVE Inv'
<1>0. Books /\ SockInv /\ ConnInv /\ BacklogInv /\ EventInv /\ Fds' = Fds
  BY DEF Inv, Books, Accept, Fds
<1>1. PICK f, c, s, x :
        /\ f = Min(Free) /\ c = Head(backlog) /\ s = [sock[c] EXCEPT !.state = "open"]
        /\ x = [NoClient EXCEPT !.client = {c}]
  BY Zenon
<1>2. /\ pc = "accept" /\ backlog # <<>> /\ Free # {} /\ Control(f, c, s, {"IN"})
      /\ clients' = [clients EXCEPT ![f] = x] /\ backlog' = Tail(backlog)
      /\ UNCHANGED <<pc, event, batch, limit>>
  BY <1>1, Zenon DEF Accept
<1>3. f \in Fds /\ clients[f].client = {}
  <2>1. Free \in SUBSET Nat
    BY <1>0 DEF Free, Fds, ConnInv
  <2>2. f \in Free
    BY <1>1, <1>2, <2>1, MinFacts, ZenonT(60)
  <2> QED
    BY <2>2 DEF Free, InUse
<1>4. c \in Clients /\ sock[c].state = "backlog"
  BY <1>0, <1>1, <1>2, HeadWaits, SMTT(30)
<1>5. s \in Sockets /\ s.taken <= s.sent /\ s.state = "open"
  <2>1. sock[c] \in Sockets /\ sock[c].taken <= sock[c].sent
    BY <1>0, <1>4, SockOf, SMTT(30)
  <2>2. s = [sock[c] EXCEPT !.state = "open"]
    BY <1>1
  <2>3. s \in Sockets /\ s.taken <= s.sent
    BY <2>1, <2>2, SocketEdits, ZenonT(60)
  <2> QED
    BY <2>1, <2>2 , <2>3, SMTT(30) DEF Sockets
<1>6. PICK u : u = Polled(s, {"IN"})
  BY Zenon
<1>7. /\ interest' = [interest EXCEPT ![f] = {"IN"}]
      /\ ready \subseteq ready' /\ ready' \subseteq ready \cup {f}
      /\ sock' = [sock EXCEPT ![c] = u] /\ u \in Sockets /\ u.taken <= u.sent /\ u.state = "open"
      /\ "IN" \in Revents(u) => f \in ready'
  <2>1. "IN" \in {"IN"}
    OBVIOUS
  <2>2. Controlled(f, c, s, {"IN"}, Polled(s, {"IN"}))
    BY <1>2, <1>5, <2>1, ControlOut, ZenonT(60)
  <2> QED
    BY <1>5, <1>6, <2>2, Zenon DEF Controlled
<1>8. SockInv' /\ sock'[c] = u /\ \A d \in Clients \ {c} : sock'[d] = sock[d]
  BY <1>0, <1>4, <1>7, SockUpdate, ZenonT(60)
<1>9. /\ Connection(x) /\ x.client = {c} /\ x.write_buffer = 0
  <2>1. x = [NoClient EXCEPT !.client = {c}]
    BY <1>1
  <2> QED
    BY <1>4, <2>1 DEF NoClient, Connection
<1>10. /\ clients' = [g \in Fds |-> clients'[g]] /\ clients'[f] = x
       /\ \A g \in Fds \ {f} : clients'[g] = clients[g]
       /\ interest' \in [Fds -> {{}, {"IN"}, {"IN", "OUT"}}] /\ interest'[f] = {"IN"}
       /\ \A g \in Fds \ {f} : interest'[g] = interest[g]
  BY <1>0, <1>2, <1>3, <1>7, SMTT(30) DEF ConnInv
<1>11. \A g \in Fds : \A d \in clients[g].client : d \in Clients \ {c}
  BY <1>0, <1>4, Holder
<1>12. ConnInv'
  <2>1. \A g \in Fds : Connection(clients'[g]) /\ (interest'[g] = {} <=> clients'[g].client = {})
    BY <1>0, <1>9, <1>10, ZenonT(60) DEF ConnInv
  <2>2. \A g \in Fds : \A d \in clients'[g].client :
          sock'[d].state = "open" /\ \A h \in Fds : d \in clients'[h].client => h = g
    <3> SUFFICES ASSUME NEW g \in Fds, NEW d \in clients'[g].client
                 PROVE  sock'[d].state = "open" /\ \A h \in Fds : d \in clients'[h].client => h = g
      BY Zenon
    <3>1. CASE g = f
      <4>1. d = c
        BY <1>9, <1>10, <3>1
      <4> QED
        BY <1>7, <1>8, <1>10, <1>11, <3>1, <4>1, SMTT(30)
    <3>2. CASE g # f
      <4>1. d \in clients[g].client /\ d \in Clients \ {c}
        BY <1>10, <1>11, <3>2
      <4>2. sock[d].state = "open" /\ \A h \in Fds : d \in clients[h].client => h = g
        BY <1>0, <4>1 DEF ConnInv
      <4> QED
        BY <1>8, <1>9, <1>10, <4>1, <4>2, SMTT(30)
    <3> QED
      BY <3>1, <3>2
  <2>3. ready' \subseteq {g \in Fds : clients'[g].client # {}} \cup {Listen}
    BY <1>0, <1>3, <1>7, <1>9, <1>10, ZenonT(60) DEF ConnInv
  <2>4. (\A g \in Fds : Connection(clients[g]) /\ (interest[g] = {} <=> clients[g].client = {}))'
    BY <1>0, <2>1, ZenonT(60) DEF Connection
  <2>5. limit' \in Nat \ {0}
    BY <1>0, <1>2 DEF ConnInv
  <2>6. (\A g \in Fds : \A d \in clients[g].client :
           sock[d].state = "open" /\ \A h \in Fds : d \in clients[h].client => h = g)'
    BY <1>0, <2>2, ZenonT(60)
  <2>7. (ready \subseteq {g \in Fds : clients[g].client # {}} \cup {Listen})'
    BY <1>0, <2>3 DEF Listen
  <2>8. (/\ limit \in Nat \ {0} /\ clients = [g \in Fds |-> clients[g]]
         /\ interest \in [Fds -> {{}, {"IN"}, {"IN", "OUT"}}])'
    BY <1>0, <1>10, <2>5
  <2> QED
    BY <2>4, <2>6, <2>7, <2>8, ZenonT(60) DEF ConnInv
<1>13. EventInv'
  <2>1. \A e \in batch : e.fd # Listen => clients'[e.fd].client # {}
    BY <1>0, <1>3, <1>10, InBatch, SMTT(30)
  <2> QED
    BY <1>0, <1>2, <2>1, ZenonT(60) DEF EventInv, IsEvent, Listen
<1>14. BacklogInv'
  BY <1>0, <1>1, <1>2, <1>8, Dequeued, Zenon
<1>15. (Watched(f) /\ Flushed(f))'
  <2>1. (ClientOf(f))' = c
    BY <1>9, <1>10 DEF ClientOf
  <2>2. Watched(f)'
    BY <1>7, <1>8, <2>1, ZenonT(60) DEF Watched, Noticed, Revents
  <2>3. Flushed(f)'
    BY <1>9, <1>10 DEF Flushed
  <2> QED
    BY <2>2, <2>3
<1>16. \A g \in Fds \ {f} : (Watched(g) /\ Flushed(g))'
  <2>1. /\ \A g \in Fds \ {f} : c \notin clients[g].client
        /\ \A e \in batch : e.fd # f => e \in batch'
        /\ ready \ {f} \subseteq ready'
        /\ pc \notin {"read", "write"}
    BY <1>2, <1>7, <1>11
  <2> QED
    BY <1>8, <1>10, <2>1, Others, Zenon
<1> QED
  BY <1>0, <1>8, <1>12, <1>13, <1>14, <1>15, <1>16, ZenonT(60) DEF Inv, Books

-----------------------------------------------------------------------------
(* The end of a connection, and the dispatch of the events.                *)

\* A descriptor that is not in use.
LEMMA NobodyIs == Connection(NoClient) /\ NoClient.client = {} /\ NoClient.write_buffer = 0
  BY DEF NoClient, Connection

\* No event at hand.
LEMMA NoEventIs == IsEvent(NoEvent) /\ NoEvent.fd = Listen
  BY DEF IsEvent, NoEvent

\* close_client keeps Inv if no event of its descriptor is left in the batch.
LEMMA Closing ==
  ASSUME Inv, NEW f \in Fds, clients[f].client # {}, CloseClient(f),
         batch' \subseteq batch, \A e \in batch : e.fd # f => e \in batch',
         \A e \in batch' : e.fd # f,
         pc \in {"next", "check"}, pc' = "next", event' = NoEvent
  PROVE  Inv'
<1>0. Books /\ SockInv /\ ConnInv /\ BacklogInv /\ EventInv
  BY DEF Inv, Books
<1>1. PICK c, t : c = ClientOf(f) /\ t = Closed(c)
  BY Zenon
<1>2. /\ clients' = [clients EXCEPT ![f] = NoClient] /\ interest' = [interest EXCEPT ![f] = {}]
      /\ ready' = ready \ {f} /\ sock' = [sock EXCEPT ![c] = t]
      /\ UNCHANGED <<backlog, limit>>
  BY <1>1, Zenon DEF CloseClient
<1>3. Fds' = Fds
  BY <1>2 DEF Fds
<1>4. /\ c \in Clients /\ clients[f].client = {c} /\ sock[c].state = "open"
      /\ \A g \in Fds \ {f} : c \notin clients[g].client
  <2>1. c \in Clients /\ clients[f].client = {c} /\ sock[c].state = "open"
    BY <1>0, <1>1, Holder
  <2> QED
    BY <1>0, <2>1 DEF ConnInv
<1>5. t \in Sockets /\ t.taken <= t.sent
  <2>1. sock[c] \in Sockets /\ sock[c].taken <= sock[c].sent
    BY <1>0, <1>4, SockOf, SMTT(30)
  <2>2. t = Fresh("closed", sock[c].script, sock[c].polite)
    BY <1>1 DEF Closed
  <2> QED
    BY <2>1, <2>2, SocketEdits, ZenonT(60)
<1>6. SockInv' /\ \A d \in Clients \ {c} : sock'[d] = sock[d]
  BY <1>0, <1>2, <1>4, <1>5, SockUpdate, ZenonT(60)
<1>7. /\ clients' = [g \in Fds |-> clients'[g]] /\ clients'[f] = NoClient
      /\ \A g \in Fds \ {f} : clients'[g] = clients[g]
      /\ interest' \in [Fds -> {{}, {"IN"}, {"IN", "OUT"}}] /\ interest'[f] = {}
      /\ \A g \in Fds \ {f} : interest'[g] = interest[g]
  BY <1>0, <1>2 DEF ConnInv
<1>8. \A g \in Fds \ {f} : \A d \in clients[g].client : d \in Clients \ {c}
  BY <1>0, <1>4, Holder, SMTT(30)
<1>9. ConnInv'
  <2>1. (\A g \in Fds : Connection(clients[g]) /\ (interest[g] = {} <=> clients[g].client = {}))'
    <3>1. \A g \in Fds : Connection(clients'[g]) /\ (interest'[g] = {} <=> clients'[g].client = {})
      BY <1>0, <1>7, NobodyIs, SMTT(30) DEF ConnInv
    <3> QED
      BY <1>3, <3>1, Zenon DEF Connection
  <2>2. \A g \in Fds : \A d \in clients'[g].client :
          sock'[d].state = "open" /\ \A h \in Fds : d \in clients'[h].client => h = g
    <3> SUFFICES ASSUME NEW g \in Fds, NEW d \in clients'[g].client
                 PROVE  sock'[d].state = "open" /\ \A h \in Fds : d \in clients'[h].client => h = g
      BY Zenon
    <3>1. g # f
      BY <1>7, NobodyIs
    <3>2. d \in clients[g].client /\ d \in Clients \ {c}
      BY <1>7, <1>8, <3>1, SMTT(30)
    <3>3. sock[d].state = "open" /\ \A h \in Fds : d \in clients[h].client => h = g
      BY <1>0, <3>2 DEF ConnInv
    <3> QED
      BY <1>6, <1>7, <3>2, <3>3, NobodyIs, SMTT(30)
  <2>3. ready' \subseteq {g \in Fds : clients'[g].client # {}} \cup {Listen}
    BY <1>0, <1>2, <1>7, ZenonT(60) DEF ConnInv
  <2>4. limit' \in Nat \ {0}
    BY <1>0, <1>2 DEF ConnInv
  <2>5. (\A g \in Fds : \A d \in clients[g].client :
           sock[d].state = "open" /\ \A h \in Fds : d \in clients[h].client => h = g)'
    BY <1>3, <2>2, ZenonT(60)
  <2>6. (ready \subseteq {g \in Fds : clients[g].client # {}} \cup {Listen})'
    BY <1>3, <2>3 DEF Listen
  <2>7. (/\ limit \in Nat \ {0} /\ clients = [g \in Fds |-> clients[g]]
         /\ interest \in [Fds -> {{}, {"IN"}, {"IN", "OUT"}}])'
    BY <1>3, <1>7, <2>4
  <2> QED
    BY <2>1, <2>5, <2>6, <2>7, Zenon DEF ConnInv
<1>10. BacklogInv'
  <2>1. \A i \in 1..Len(backlog) : backlog[i] \in Clients \ {c}
    BY <1>0, <1>4 DEF BacklogInv
  <2> QED
    BY <1>0, <1>2, <1>6, <2>1 DEF BacklogInv
<1>11. EventInv'
  <2>1. \A e \in batch' : e.fd # Listen => clients'[e.fd].client # {}
    BY <1>0, <1>7, InBatch, SMTT(30)
  <2>2. (\A e \in batch \cup {event} : IsEvent(e))'
    <3>1. \A e \in batch' \cup {event'} : IsEvent(e)
      BY <1>0, NoEventIs DEF EventInv
    <3> QED
      BY <1>3, <3>1, ZenonT(60) DEF IsEvent, Listen
  <2>3. \A e, d \in batch' : d.fd = e.fd => d = e
    BY <1>0, ZenonT(60) DEF EventInv
  <2> QED
    BY <2>1, <2>2, <2>3, Zenon DEF EventInv, Listen
<1>12. (Watched(f) /\ Flushed(f))'
  <2>1. clients'[f].client = {} /\ ~(clients'[f].write_buffer > 0)
    BY <1>7, NobodyIs
  <2> QED
    BY <2>1, ZenonT(60) DEF Watched, Flushed, InUse
<1>13. \A g \in Fds \ {f} : (Watched(g) /\ Flushed(g))'
  <2>1. ready \ {f} \subseteq ready' /\ pc \notin {"read", "write"}
    BY <1>2
  <2> QED
    BY <1>4, <1>6, <1>7, <2>1, Others, ZenonT(60)
<1> QED
  BY <1>3, <1>6, <1>9, <1>10, <1>11, <1>12, <1>13, Zenon DEF Inv, Books

\* The end of an event, which may close its connection, keeps Inv.
LEMMA CheckStep == ASSUME Inv, Check PROVE Inv'
<1>0. Books /\ Fds' = Fds /\ \A f \in Fds : Watched(f) /\ Flushed(f)
  BY DEF Inv, Fds, Check, CloseClient
<1>1. pc = "check" /\ pc' = "next" /\ event' = NoEvent /\ batch' = batch
  BY DEF Check
<1>2. CASE CloseClient(event.fd)
  <2>1. PICK f : f = event.fd
    BY Zenon
  <2>2. f \in Fds /\ clients[f].client # {} /\ \A e \in batch : e.fd # f
    BY <1>0, <1>1, <2>1, AtHand, SMTT(30) DEF Books, EventInv
  <2> QED
    BY <1>1, <1>2, <2>1, <2>2, Closing, SMTT(30)
<1>3. CASE UNCHANGED <<clients, interest, ready, backlog, sock, decoded, limit>>
  <2>1. SockInv' /\ IsEvent(event')
    BY <1>0, <1>1, <1>3, NoEventIs, SMTT(30) DEF Books, SockInv
  <2>2. Books'
    BY <1>0, <1>1, <1>3, <2>1, Standing, Quiet, SMTT(30)
  <2>3. ASSUME NEW f \in Fds PROVE (Watched(f) /\ Flushed(f))'
    <3>1. pc \notin {"read", "write"} /\ Connection(clients[f])
      BY <1>0, <1>1, Standing
    <3> QED
      BY <1>0, <1>1, <1>3, <3>1, Passive, ZenonT(60)
  <2> QED
    BY <1>0, <2>2, <2>3, Zenon DEF Inv
<1> QED
  BY <1>2, <1>3, ZenonT(60) DEF Check

\* Taking the next event of the batch keeps Inv.
LEMMA DispatchStep == ASSUME Inv, Dispatch PROVE Inv'
<1>0. Books /\ SockInv /\ ConnInv /\ BacklogInv /\ EventInv
      /\ \A f \in Fds : Connection(clients[f]) /\ Watched(f) /\ Flushed(f)
  BY Standing, Zenon DEF Inv, Books
<1>1. PICK e \in batch :
        /\ pc = "next" /\ batch' = batch \ {e}
        /\ \/ /\ e.fd = Listen /\ pc' = "accept" /\ event' = e
              /\ UNCHANGED <<clients, interest, ready, backlog, sock, decoded, limit>>
           \/ /\ e.fd # Listen /\ "HUP" \in e.ev /\ pc' = "next" /\ event' = NoEvent
              /\ CloseClient(e.fd)
           \/ /\ e.fd # Listen /\ "HUP" \notin e.ev /\ event' = e
              /\ pc' = (IF "IN" \in e.ev THEN "read" ELSE "write")
              /\ UNCHANGED <<clients, interest, ready, backlog, sock, decoded, limit>>
  BY Zenon DEF Dispatch
<1>2. /\ \A d \in batch : d.fd # e.fd => d \in batch'
      /\ \A d \in batch' : d \in batch /\ d.fd # e.fd
  <2>1. \A d \in batch : d.fd = e.fd => d = e
    BY <1>0, Zenon DEF EventInv
  <2> QED
    BY <1>1, <2>1
<1>3. IsEvent(e) /\ (e.fd # Listen => e.fd \in Fds /\ clients[e.fd].client # {})
  BY <1>0, InBatch, ZenonT(60) DEF EventInv
<1>4. Listen \notin Fds
  BY DEF Listen, Fds
<1>5. ASSUME event' = e, UNCHANGED <<clients, interest, ready, backlog, sock, limit>>,
             pc' \in {"accept", "read", "write"}, e.fd = Listen => pc' = "accept"
      PROVE  Books' /\ Fds' = Fds
  <2>0. Fds' = Fds
    BY <1>5 DEF Fds
  <2>1. SockInv' /\ ConnInv' /\ BacklogInv'
    <3>1. SockInv'
      BY <1>0, <1>5 DEF SockInv
    <3>2. ConnInv'
      BY <1>0, <1>5, ConnKeep
    <3>3. BacklogInv'
      BY <1>0, <1>5 DEF BacklogInv
    <3> QED
      BY <3>1, <3>2, <3>3
  <2>2. EventInv'
    <3>1. (\A d \in batch \cup {event} : IsEvent(d))'
      <4>1. \A d \in batch' \cup {event'} : IsEvent(d)
        BY <1>0, <1>2, <1>3, <1>5 DEF EventInv
      <4> QED
        BY <2>0, <4>1, ZenonT(60) DEF IsEvent, Listen
    <3>2. \A d \in batch' : /\ d.fd # Listen => clients'[d.fd].client # {}
                            /\ \A x \in batch' : x.fd = d.fd => x = d
      BY <1>0, <1>2, <1>5, Zenon DEF EventInv
    <3>3. pc' \in {"read", "write", "check"} =>
            /\ event'.fd # Listen /\ clients'[event'.fd].client # {}
            /\ \A d \in batch' : d.fd # event'.fd
      BY <1>2, <1>3, <1>5, SMTT(30)
    <3>4. /\ pc' \in {"down", "wait", "next", "accept", "read", "write", "check"}
          /\ pc' \notin {"down", "wait"}
      BY <1>5
    <3> QED
      BY <3>1, <3>2, <3>3, <3>4, ZenonT(60) DEF EventInv, Listen
  <2> QED
    BY <2>0, <2>1, <2>2, ZenonT(60) DEF Books
<1>6. ASSUME UNCHANGED <<clients, interest, ready, sock>>, NEW f \in Fds, f # e.fd
      PROVE  (Watched(f) /\ Flushed(f))'
  <2>1. \A d \in batch : d.fd = f => d \in batch'
    BY <1>2, <1>6
  <2> QED
    BY <1>0, <1>1, <1>6, <2>1, Passive, ZenonT(60)
<1>7. CASE /\ e.fd = Listen /\ pc' = "accept" /\ event' = e
           /\ UNCHANGED <<clients, interest, ready, backlog, sock, decoded, limit>>
  <2>1. Books' /\ Fds' = Fds
    BY <1>5, <1>7
  <2>2. \A f \in Fds : (Watched(f) /\ Flushed(f))'
    BY <1>4, <1>6, <1>7, ZenonT(60)
  <2> QED
    BY <2>1, <2>2, ZenonT(60) DEF Inv
<1>8. CASE /\ e.fd # Listen /\ "HUP" \in e.ev /\ pc' = "next" /\ event' = NoEvent
           /\ CloseClient(e.fd)
  <2>1. PICK f : f = e.fd
    BY Zenon
  <2>2. /\ f \in Fds /\ clients[f].client # {} /\ CloseClient(f) /\ batch' \subseteq batch
        /\ \A d \in batch : d.fd # f => d \in batch'
        /\ \A d \in batch' : d.fd # f
    BY <1>2, <1>3, <1>8, <2>1, SMTT(30)
  <2> QED
    BY <1>1, <1>8, <2>2, Closing, SMTT(30)
<1>9. CASE /\ e.fd # Listen /\ "HUP" \notin e.ev /\ event' = e
           /\ pc' = (IF "IN" \in e.ev THEN "read" ELSE "write")
           /\ UNCHANGED <<clients, interest, ready, backlog, sock, decoded, limit>>
  <2>1. PICK f \in Fds : f = e.fd
    BY <1>3, <1>9
  <2>2. Books' /\ Fds' = Fds
    BY <1>5, <1>9
  <2>3. (ClientOf(f))' = ClientOf(f)
    BY <1>9, Zenon DEF ClientOf
  <2>4. \A E : Noticed(f, E) => f \in ready' \/ e.ev \cap E # {}
    BY <1>0, <1>9, <2>1, Zenon DEF Noticed, EventInv
  <2>5. Watched(f)'
    <3>1. Noticed(f, {"IN", "HUP"}) => f \in ready' \/ pc' = "read"
      BY <1>9, <2>4
    <3>2. InUse(f) /\ "IN" \in Revents(sock[ClientOf(f)]) =>
            Noticed(f, {"IN", "HUP"}) \/ clients[f].should_close
      BY <1>0, <1>1, ZenonT(60) DEF Watched
    <3>3. (Revents(sock[ClientOf(f)]))' = Revents(sock[ClientOf(f)])
      BY <1>9, <2>3, ZenonT(60) DEF Revents
    <3> QED
      BY <1>9, <2>1, <3>1, <3>2, <3>3, Zenon DEF Watched, InUse, Noticed
  <2>6. Flushed(f)'
    <3>1. "OUT" \in e.ev => (AfterRead = "write")'
      BY <1>9, Zenon DEF AfterRead
    <3>2. Noticed(f, {"OUT", "HUP"}) => f \in ready' \/ "OUT" \in e.ev
      BY <1>9, <2>4
    <3>3. clients[f].write_buffer > 0 =>
            /\ interest[f] = {"IN", "OUT"}
            /\ \/ Noticed(f, {"OUT", "HUP"}) \/ clients[f].should_close
               \/ sock[ClientOf(f)].out = SendRoom /\ sock[ClientOf(f)].nospace
      BY <1>0, <1>1, ZenonT(60) DEF Flushed
    <3> QED
      BY <1>9, <2>1, <2>3, <3>1, <3>2, <3>3, ZenonT(60) DEF Flushed, Noticed
  <2>7. \A g \in Fds : (Watched(g) /\ Flushed(g))'
    BY <1>6, <1>9, <2>1, <2>5, <2>6, ZenonT(60)
  <2> QED
    BY <2>2, <2>7, Zenon DEF Inv
<1> QED
  BY <1>1, <1>7, <1>8, <1>9, Zenon

-----------------------------------------------------------------------------
(* epoll_wait().                                                           *)

\* What epoll_wait() reports of descriptor f, and what it leaves in the sockets.
Event(f) == [fd |-> f, ev |-> Reported(sock[ClientOf(f)], interest[f])]

\* epoll_wait reports each ready descriptor once, with what it is ready for.
LEMMA WaitFacts ==
  ASSUME Inv, EpollWait
  PROVE  /\ \A e \in batch' : /\ e.fd \in ready /\ e.ev \subseteq {"IN", "OUT", "HUP"}
                              /\ \A d \in batch' : d.fd = e.fd => d = e
         /\ \A f \in ready \cap Fds : Event(f).ev # {} => Event(f) \in batch'
<1>1. batch' = UNION {EventsOf(f) : f \in ready}
  BY DEF EpollWait
<1>2. \A f : \A e \in EventsOf(f) : e.fd = f /\ e.ev \subseteq {"IN", "OUT", "HUP"}
  BY DEF EventsOf, Reported, Revents
<1>3. \A f : \A e, d \in EventsOf(f) : d = e
  BY Zenon DEF EventsOf
<1>4. \A e \in batch' : \E f \in ready : e \in EventsOf(f)
  BY <1>1
<1>5. ASSUME NEW f \in ready \cap Fds, Event(f).ev # {} PROVE Event(f) \in batch'
  <2>1. f # Listen
    BY DEF Listen, Fds
  <2>2. Event(f) \in EventsOf(f)
    BY <1>5, <2>1 DEF EventsOf, Event
  <2> QED
    BY <1>1, <2>2
<1>6. ASSUME NEW e \in batch', NEW d \in batch', d.fd = e.fd PROVE d = e
  <2>1. PICK f \in ready : e \in EventsOf(f)
    BY <1>4
  <2>2. PICK g \in ready : d \in EventsOf(g)
    BY <1>4
  <2>3. f = g
    BY <1>2, <1>6, <2>1, <2>2
  <2> QED
    BY <1>3, <2>1, <2>2, <2>3
<1> QED
  BY <1>2, <1>4, <1>5, <1>6

\* The sockets epoll_wait() polled, and the others.
LEMMA WaitSockets ==
  ASSUME Inv, EpollWait
  PROVE  /\ SockInv'
         /\ \A c \in Clients :
              /\ sock'[c].state = sock[c].state /\ sock'[c].out = sock[c].out
              /\ sock'[c].sent = sock[c].sent /\ sock'[c].taken = sock[c].taken
              /\ sock'[c].end = sock[c].end /\ (sock[c].nospace => sock'[c].nospace)
         /\ \A f \in ready \cap Fds :
              clients[f].client # {} /\ "OUT" \in interest[f] /\ sock[ClientOf(f)].out = SendRoom
                => sock'[ClientOf(f)].nospace
<1>0. SockInv /\ ConnInv
  BY DEF Inv, Books
<1>1. sock' = [c \in Clients |->
                IF \E f \in ready \cap FdsOf(c) : "OUT" \in interest[f]
                THEN Polled(sock[c], {"OUT"}) ELSE sock[c]]
  BY DEF EpollWait
<1>2. \A c \in Clients : sock'[c] \in {sock[c], Polled(sock[c], {"OUT"})}
  BY <1>1, ZenonT(60)
<1>3. \A c \in Clients :
        /\ sock'[c] \in Sockets /\ sock'[c].taken <= sock'[c].sent
        /\ sock'[c].state = sock[c].state /\ sock'[c].out = sock[c].out
        /\ sock'[c].sent = sock[c].sent /\ sock'[c].taken = sock[c].taken
        /\ sock'[c].end = sock[c].end /\ (sock[c].nospace => sock'[c].nospace)
  <2> SUFFICES ASSUME NEW c \in Clients
               PROVE  /\ sock'[c] \in Sockets /\ sock'[c].taken <= sock'[c].sent
                      /\ sock'[c].state = sock[c].state /\ sock'[c].out = sock[c].out
                      /\ sock'[c].sent = sock[c].sent /\ sock'[c].taken = sock[c].taken
                      /\ sock'[c].end = sock[c].end /\ (sock[c].nospace => sock'[c].nospace)
    BY Zenon
  <2>1. sock[c] \in Sockets /\ sock[c].taken <= sock[c].sent
    BY <1>0, SockOf
  <2>2. CASE sock'[c] = sock[c]
    BY <2>1, <2>2, ZenonT(60)
  <2>3. CASE sock'[c] = Polled(sock[c], {"OUT"})
    <3>1. LET t == Polled(sock[c], {"OUT"}) IN
          /\ t \in Sockets /\ t.taken <= t.sent
          /\ t.state = sock[c].state /\ t.out = sock[c].out
          /\ t.sent = sock[c].sent /\ t.taken = sock[c].taken
          /\ t.end = sock[c].end /\ (sock[c].nospace => t.nospace)
      BY <2>1, PolledSocket, Zenon
    <3> QED
      BY <2>3, <3>1, Zenon
  <2> QED
    BY <1>2, <2>2, <2>3
<1>4. SockInv'
  <2>1. Sockets' = Sockets
    OBVIOUS
  <2>2. sock' \in [Clients -> Sockets]
    BY <1>1, <1>3
  <2> QED
    BY <1>3, <2>1, <2>2, Zenon DEF SockInv
<1>5. ASSUME NEW f \in ready \cap Fds, clients[f].client # {}, "OUT" \in interest[f],
             sock[ClientOf(f)].out = SendRoom
      PROVE  sock'[ClientOf(f)].nospace
  <2>1. PICK c \in Clients : c = ClientOf(f) /\ clients[f].client = {c}
    BY <1>0, <1>5, Holder
  <2>2. f \in ready \cap FdsOf(c)
    BY <2>1 DEF FdsOf
  <2>3. sock'[c] = Polled(sock[c], {"OUT"})
    BY <1>1, <1>5, <2>2
  <2>4. sock[c] \in Sockets /\ sock[c].taken <= sock[c].sent /\ "OUT" \in {"OUT"}
    BY <1>0, SockOf
  <2>5. Polled(sock[c], {"OUT"}).nospace
    BY <1>5, <2>1, <2>4, PolledSocket, ZenonT(60)
  <2> QED
    BY <2>1, <2>3, <2>5, Zenon
<1> QED
  BY <1>3, <1>4, <1>5, Zenon

\* epoll_wait keeps Inv.
LEMMA EpollWaitStep == ASSUME Inv, EpollWait PROVE Inv'
<1>0. SockInv /\ ConnInv /\ BacklogInv /\ EventInv
      /\ \A f \in Fds : Watched(f) /\ Flushed(f)
  BY Zenon DEF Inv, Books
<1>1. /\ pc = "wait" /\ ready' = {} /\ pc' = "next"
      /\ UNCHANGED <<event, clients, interest, backlog, limit>>
  BY DEF EpollWait
<1>2. batch = {} /\ Fds' = Fds
  BY <1>0, <1>1 DEF EventInv, Fds
<1>3. SockInv' /\ ConnInv'
  <2>1. \A c \in Clients : sock[c].state = "open" => sock'[c].state = "open"
    BY WaitSockets
  <2>2. ready' \subseteq ready \cup {Listen}
    BY <1>1
  <2> QED
    BY <1>0, <1>1, <2>1, <2>2, ConnKeep, WaitSockets, Zenon
<1>4. BacklogInv'
  <2>1. \A i \in 1..Len(backlog) : backlog[i] \in Clients /\ sock'[backlog[i]].state = "backlog"
    BY <1>0, WaitSockets DEF BacklogInv
  <2> QED
    BY <1>0, <1>1, <2>1 DEF BacklogInv
<1>5. EventInv'
  <2>1. \A e \in batch' : /\ e.fd \in Fds \cup {Listen} /\ e.ev \subseteq {"IN", "OUT", "HUP"}
                          /\ e.fd # Listen => clients'[e.fd].client # {}
                          /\ \A d \in batch' : d.fd = e.fd => d = e
    BY <1>0, <1>1, WaitFacts DEF ConnInv
  <2>2. (\A e \in batch \cup {event} : IsEvent(e))'
    <3>1. \A e \in batch' \cup {event'} : IsEvent(e)
      BY <1>0, <1>1, <2>1, SMTT(30) DEF EventInv, IsEvent
    <3> QED
      BY <1>2, <3>1, ZenonT(60) DEF IsEvent, Listen
  <2> QED
    BY <1>1, <2>1, <2>2, Zenon DEF EventInv, Listen
<1>6. ASSUME NEW f \in Fds PROVE (Watched(f) /\ Flushed(f))'
  <2>1. CASE clients[f].client = {}
    <3>1. ~(clients[f].write_buffer > 0)
      BY <1>0, <2>1 DEF ConnInv, Connection
    <3> QED
      BY <1>1, <2>1, <3>1, ZenonT(60) DEF Watched, Flushed, InUse
  <2>2. CASE clients[f].client # {}
    <3>1. PICK c \in Clients : c = ClientOf(f) /\ "IN" \in interest[f]
      BY <1>0, <2>2, Holder, SMTT(30) DEF ConnInv
    <3>2. (ClientOf(f))' = c
      BY <1>1, <3>1, ZenonT(60) DEF ClientOf
    <3>3. f \in ready => \A x \in Reported(sock[c], interest[f]) : \E e \in batch' : e.fd = f /\ x \in e.ev
      <4> SUFFICES ASSUME f \in ready, NEW x \in Reported(sock[c], interest[f])
                   PROVE  \E e \in batch' : e.fd = f /\ x \in e.ev
        BY Zenon
      <4>1. Event(f).fd = f /\ Event(f).ev = Reported(sock[c], interest[f])
        BY <3>1 DEF Event
      <4>2. Event(f) \in batch'
        BY <4>1, WaitFacts, SMTT(30)
      <4> QED
        BY <4>1, <4>2, Zenon
    <3>4. \A E : Noticed(f, E) => f \in ready
      BY <1>2 DEF Noticed
    <3>5. /\ sock'[c].out = sock[c].out /\ sock'[c].sent = sock[c].sent
          /\ sock'[c].taken = sock[c].taken /\ sock'[c].end = sock[c].end
          /\ (sock[c].nospace => sock'[c].nospace)
      BY WaitSockets, Zenon
    <3>6. sock[c] \in Sockets
      BY <1>0, SockOf
    <3>7. Watched(f)'
      <4>1. (Revents(sock[ClientOf(f)]))' = Revents(sock[c])
        BY <3>2, <3>5, ZenonT(60) DEF Revents
      <4>2. "IN" \in Revents(sock[c]) => "IN" \in Reported(sock[c], interest[f])
        BY <3>1 DEF Reported
      <4>3. "IN" \in Revents(sock[c]) => Noticed(f, {"IN", "HUP"}) \/ clients[f].should_close
        BY <1>0, <1>1, <2>2, <3>1, ZenonT(60) DEF Watched, InUse
      <4>4. "IN" \in Revents(sock[c]) /\ ~clients[f].should_close => \E e \in batch' : e.fd = f /\ "IN" \in e.ev
        BY <3>3, <3>4, <4>2, <4>3, Zenon
      <4>5. "IN" \in Revents(sock[c]) /\ ~clients[f].should_close =>
              \E e \in batch' : e.fd = f /\ e.ev \cap {"IN", "HUP"} # {}
        BY <4>4
      <4> QED
        BY <1>1, <4>1, <4>5, Zenon DEF Watched, Noticed
    <3>8. Flushed(f)'
      <4> SUFFICES ASSUME clients[f].write_buffer > 0, ~clients[f].should_close
                   PROVE  /\ interest[f] = {"IN", "OUT"}
                          /\ \/ \E e \in batch' : e.fd = f /\ e.ev \cap {"OUT", "HUP"} # {}
                             \/ sock'[c].out = SendRoom /\ sock'[c].nospace
        BY <1>0, <1>1, <3>2, ZenonT(60) DEF Flushed, Noticed
      <4>1. /\ interest[f] = {"IN", "OUT"}
            /\ \/ Noticed(f, {"OUT", "HUP"})
               \/ sock[c].out = SendRoom /\ sock[c].nospace
        BY <1>0, <1>1, <3>1, ZenonT(60) DEF Flushed
      <4>2. CASE sock[c].out = SendRoom /\ sock[c].nospace
        BY <3>5, <4>1, <4>2, ZenonT(60)
      <4>3. CASE f \in ready
        <5>1. CASE sock[c].out = SendRoom
          BY <2>2, <3>1, <3>5, <4>1, <4>3, <5>1, WaitSockets, SMTT(30)
        <5>2. CASE sock[c].out # SendRoom
          <6>1. sock[c].out < SendRoom
            BY <3>6, <5>2, ServerAssumption, SMTT(30) DEF Sockets
          <6>2. "OUT" \in Reported(sock[c], interest[f])
            BY <4>1, <6>1 DEF Reported, Revents
          <6>3. \E e \in batch' : e.fd = f /\ "OUT" \in e.ev
            BY <3>3, <4>3, <6>2, Zenon
          <6> QED
            BY <4>1, <6>3
        <5> QED
          BY <5>1, <5>2
      <4> QED
        BY <3>4, <4>1, <4>2, <4>3, ZenonT(60)
    <3> QED
      BY <3>7, <3>8
  <2> QED
    BY <2>1, <2>2
<1> QED
  BY <1>2, <1>3, <1>4, <1>5, <1>6, Zenon DEF Inv, Books

-----------------------------------------------------------------------------
(* start(), stop() and the theorems.                                       *)

\* With no connection there is nothing to watch.
LEMMA Deserted ==
  ASSUME SockInv', BacklogInv', EventInv', limit' \in Nat \ {0}, ready' = {},
         clients' = [f \in 1..limit' |-> NoClient], interest' = [f \in 1..limit' |-> {}]
  PROVE  Inv'
<1>0. Fds' = 1..limit'
  BY DEF Fds
<1>1. \A f \in 1..limit' : /\ Connection(clients'[f]) /\ interest'[f] = {} /\ clients'[f].client = {}
                           /\ ~(clients'[f].write_buffer > 0)
  BY NobodyIs
<1>2. (\A f \in Fds : Connection(clients[f]) /\ (interest[f] = {} <=> clients[f].client = {}))'
  BY <1>0, <1>1, Zenon DEF Connection
<1>3. (\A f \in Fds : \A c \in clients[f].client :
         sock[c].state = "open" /\ \A g \in Fds : c \in clients[g].client => g = f)'
  BY <1>0, <1>1, Zenon
<1>4. (/\ limit \in Nat \ {0}
       /\ clients = [f \in Fds |-> clients[f]] /\ interest \in [Fds -> {{}, {"IN"}, {"IN", "OUT"}}])'
  BY <1>0
<1>5. (ready \subseteq {f \in Fds : clients[f].client # {}} \cup {Listen})'
  OBVIOUS
<1>6. ConnInv'
  BY <1>2, <1>3, <1>4, <1>5, ZenonT(60) DEF ConnInv
<1>7. (\A f \in Fds : Watched(f) /\ Flushed(f))'
  BY <1>0, <1>1, Zenon DEF Watched, Flushed, InUse
<1> QED
  BY <1>6, <1>7, Zenon DEF Inv, Books

\* stop keeps Inv.
LEMMA StopStep == ASSUME Inv, Stop PROVE Inv'
<1>0. SockInv /\ ConnInv /\ EventInv
  BY DEF Inv, Books
<1>1. /\ pc = "wait" /\ pc' = "down" /\ ready' = {} /\ backlog' = <<>>
      /\ clients' = [f \in Fds |-> NoClient] /\ interest' = [f \in Fds |-> {}]
      /\ sock' = [c \in Clients |-> IF sock[c].state = "idle" THEN sock[c] ELSE Closed(c)]
      /\ UNCHANGED <<event, batch, limit>>
  BY DEF Stop
<1>2. SockInv'
  <2>1. \A c \in Clients : sock'[c] = sock[c] \/ sock'[c] = Fresh("closed", sock[c].script, sock[c].polite)
    BY <1>1, Zenon DEF Closed
  <2>2. \A c \in Clients : sock'[c] \in Sockets /\ sock'[c].taken <= sock'[c].sent
    <3> SUFFICES ASSUME NEW c \in Clients
                 PROVE  sock'[c] \in Sockets /\ sock'[c].taken <= sock'[c].sent
      BY Zenon
    <3>1. sock[c] \in Sockets /\ sock[c].taken <= sock[c].sent
      BY <1>0, SockOf
    <3>2. LET t == Fresh("closed", sock[c].script, sock[c].polite) IN t \in Sockets /\ t.taken <= t.sent
      BY <3>1, SocketEdits, Zenon
    <3> QED
      BY <2>1, <3>1, <3>2, Zenon
  <2>3. sock' \in [Clients -> Sockets]
    BY <1>1, <2>2, SMTT(30)
  <2>4. Sockets' = Sockets
    OBVIOUS
  <2> QED
    BY <2>2, <2>3, <2>4, Zenon DEF SockInv
<1>3. BacklogInv'
  BY <1>1 DEF BacklogInv
<1>4. EventInv'
  <2>1. Fds' = Fds /\ batch' = {} /\ IsEvent(event')
    BY <1>0, <1>1 DEF EventInv, Fds
  <2>2. IsEvent(event)'
    BY <2>1, Zenon DEF IsEvent, Listen
  <2> QED
    BY <1>1, <2>1, <2>2, Zenon DEF EventInv
<1>5. /\ limit' \in Nat \ {0} /\ clients' = [f \in 1..limit' |-> NoClient]
      /\ interest' = [f \in 1..limit' |-> {}]
  BY <1>0, <1>1, SMTT(30) DEF ConnInv, Fds
<1> QED
  BY <1>1, <1>2, <1>3, <1>4, <1>5, Deserted, Zenon

\* Inv holds initially.
LEMMA AtFirst == ASSUME Init PROVE Inv
<1>1. PICK w \in Workloads :
        /\ limit = w.limit
        /\ sock = [c \in Clients |-> Fresh("idle", Script(w.script[c]), w.polite)]
  BY DEF Init
<1>2. /\ pc = "down" /\ event = NoEvent /\ batch = {} /\ ready = {} /\ backlog = <<>>
      /\ clients = [f \in Fds |-> NoClient] /\ interest = [f \in Fds |-> {}]
  BY DEF Init
<1>3. limit \in Nat \ {0} /\ w.polite \in BOOLEAN /\ SendRoom \in Nat
  BY <1>1, ServerAssumption, SMTT(30)
<1>4. SockInv
  <2> SUFFICES ASSUME NEW c \in Clients
               PROVE  LET s == Fresh("idle", Script(w.script[c]), w.polite)
                      IN s \in Sockets /\ s.taken <= s.sent
    BY <1>1 DEF SockInv
  <2>1. PICK x : x = Script(w.script[c])
    BY Zenon
  <2>2. x \in {Script(v.script[d]) : v \in Workloads, d \in Clients}
    BY <2>1
  <2>3. LET s == Fresh("idle", x, w.polite) IN s \in Sockets /\ s.taken <= s.sent
    BY <1>3, <2>2 DEF Fresh, Sockets
  <2> QED
    BY <2>1, <2>3, SMTT(30)
<1>5. BacklogInv
  BY <1>2 DEF BacklogInv
<1>6. EventInv
  BY <1>2, NoEventIs DEF EventInv
<1>7. \A f \in Fds : /\ Connection(clients[f]) /\ clients[f].client = {} /\ interest[f] = {}
                     /\ ~(clients[f].write_buffer > 0)
  BY <1>2, NobodyIs
<1>8. ConnInv
  BY <1>2, <1>3, <1>7 DEF ConnInv
<1>9. \A f \in Fds : Watched(f) /\ Flushed(f)
  BY <1>7, Zenon DEF Watched, Flushed, InUse
<1> QED
  BY <1>4, <1>5, <1>6, <1>8, <1>9, SMTT(30) DEF Inv, Books

\* Inv is about the variables only.
LEMMA Stuttering == ASSUME Inv, UNCHANGED vars PROVE Inv'
<1>0. Books /\ Fds' = Fds /\ \A f \in Fds : Watched(f) /\ Flushed(f)
  BY DEF Inv, vars, Fds
<1>1. UNCHANGED <<pc, event, batch, clients, interest, ready, backlog, sock, limit>>
  BY DEF vars
<1>2. SockInv'
  BY <1>0, <1>1 DEF Books, SockInv
<1>3. Books'
  <2>1. /\ pc \in {"down", "wait", "next", "accept", "read", "write", "check"}
        /\ pc \in {"down", "wait"} => batch = {}
    BY <1>0 DEF Books, EventInv
  <2> QED
    BY <1>0, <1>1, <1>2, <2>1, Standing, Quiet, SMTT(30)
<1>4. ASSUME NEW f \in Fds PROVE (Watched(f) /\ Flushed(f))'
  BY <1>0, <1>1, Standing, Passive, ZenonT(60)
<1> QED
  BY <1>0, <1>3, <1>4, ZenonT(60) DEF Inv

\* Inv is inductive.
LEMMA InvStep == ASSUME Inv, [Next]_vars PROVE Inv'
<1>1. CASE Start \/ BatchDone \/ AcceptNone \/ AcceptFails
  <2>1. UNCHANGED <<batch, clients, interest, ready, backlog, sock, decoded, limit>>
    BY <1>1 DEF Start, BatchDone, AcceptNone, AcceptFails, vars
  <2> QED
    BY <1>1, <2>1, Moving, ZenonT(60)
<1>2. CASE Recv \/ RecvNothing \/ Send \/ SendBlocked \/ SendFails
  BY <1>2, RecvStep, RecvNothingStep, SendStep, SendBlockedStep, SendFailsStep, ZenonT(60)
<1>3. CASE Stop \/ EpollWait \/ Dispatch \/ Accept \/ AcceptDrops \/ Check
  BY <1>3, StopStep, EpollWaitStep, DispatchStep, AcceptStep, AcceptDropsStep, CheckStep, Zenon
<1>4. ASSUME NEW c \in Clients,
             \/ Connect(c) \/ ReadReply(c)
             \/ \E n \in 1..SendLimit(c) : Deliver(c, n)
             \/ \E how \in {"fin", "rst"} : End(c, how)
      PROVE  Inv'
  BY <1>4, ConnectStep, ReadReplyStep, DeliverStep, EndStep, ZenonT(60)
<1>5. CASE UNCHANGED vars
  BY <1>5, Stuttering
<1> QED
  BY <1>1, <1>2, <1>3, <1>4, <1>5, ZenonT(60) DEF Next, Loop

\* Inv is an invariant.
LEMMA ServerInvariant == Spec => []Inv
<1>1. Init => Inv
  BY AtFirst, Zenon
<1>2. Inv /\ [Next]_vars => Inv'
  BY InvStep, Zenon
<1> QED
  BY <1>1, <1>2, PTL DEF Spec

\* For any number of clients, descriptors and requests: clients_, the epoll instance
\* and the sockets agree on which descriptors are in use and by whom, no event is
\* handled for a descriptor that is not, and the byte counts stay within bounds.
THEOREM BooksAgree == Spec => []TypeOK
<1>1. Inv => TypeOK
  <2> SUFFICES ASSUME Inv PROVE TypeOK
    OBVIOUS
  <2>0. SockInv /\ ConnInv /\ BacklogInv /\ EventInv
    BY DEF Inv, Books
  <2>1. /\ pc \in {"down", "wait", "next", "accept", "read", "write", "check"}
        /\ \A e \in batch \cup {event} : e.fd \in Fds \cup {Listen} /\ e.ev \subseteq {"IN", "OUT", "HUP"}
        /\ limit \in Nat \ {0}
    BY <2>0, Zenon DEF EventInv, IsEvent, ConnInv
  <2>2. \A f \in Fds : /\ InUse(f) => \E c \in Clients : /\ clients[f].client = {c}
                                                        /\ sock[c].state = "open"
                       /\ clients[f].write_buffer \in Nat
                       /\ clients[f].should_close \in BOOLEAN
                       /\ interest[f] \in IF InUse(f) THEN {{"IN"}, {"IN", "OUT"}} ELSE {{}}
    <3> SUFFICES ASSUME NEW f \in Fds
                 PROVE  /\ InUse(f) => \E c \in Clients : /\ clients[f].client = {c}
                                                          /\ sock[c].state = "open"
                        /\ clients[f].write_buffer \in Nat
                        /\ clients[f].should_close \in BOOLEAN
                        /\ interest[f] \in IF InUse(f) THEN {{"IN"}, {"IN", "OUT"}} ELSE {{}}
      BY Zenon
    <3>1. InUse(f) => \E c \in Clients : clients[f].client = {c} /\ sock[c].state = "open"
      BY <2>0, Holder, Zenon DEF InUse
    <3>2. clients[f].write_buffer \in Nat /\ clients[f].should_close \in BOOLEAN
      BY <2>0, Zenon DEF ConnInv, Connection
    <3>3. interest[f] \in IF InUse(f) THEN {{"IN"}, {"IN", "OUT"}} ELSE {{}}
      BY <2>0 DEF ConnInv, InUse
    <3> QED
      BY <3>1, <3>2, <3>3, Zenon
  <2>3. ready \subseteq (Fds \ Free) \cup {Listen}
    BY <2>0 DEF ConnInv, Free, InUse
  <2>4. \A c \in Clients : /\ sock[c].taken \in 0..sock[c].sent /\ sock[c].out \in 0..SendRoom
                           /\ sock[c].got \in Nat /\ sock[c].nospace \in BOOLEAN
                           /\ sock[c].state \in {"idle", "backlog", "open", "closed"}
                           /\ sock[c].end \in {"open", "fin", "rst"}
    BY <2>0 DEF SockInv, Sockets
  <2>5. backlog \in Seq({c \in Clients : sock[c].state = "backlog"})
    <3>1. backlog \in Seq(Clients) /\ \A i \in 1..Len(backlog) : sock[backlog[i]].state = "backlog"
      BY <2>0 DEF BacklogInv
    <3> QED
      BY <3>1
  <2> QED
    BY <2>1, <2>2, <2>3, <2>4, <2>5, ZenonT(60) DEF TypeOK
<1> QED
  BY <1>1, ServerInvariant, PTL

\* For any number of clients, descriptors and requests, and whatever the parser
\* makes of the bytes: the edge-triggered loop forgets no input of an accepted
\* connection.  Bytes, an end of stream or a reset that handle_client_read() has not
\* met yet have an event pending, or it is at work on them.
THEOREM InputIsNoticed == Spec => []NoLostInput
<1>1. Inv => NoLostInput
  BY ZenonT(60) DEF Inv, Watched, NoLostInput
<1> QED
  BY <1>1, ServerInvariant, PTL

\* In the same generality: a reply that send() has not taken has EPOLLOUT armed, and
\* an event pending, handle_client_write() at work on it or about to be, or a full
\* socket whose reader will raise the edge.
THEOREM OutputIsFlushed == Spec => []NoStuckOutput
<1>1. Inv => NoStuckOutput
  BY Zenon DEF Inv, Flushed, NoStuckOutput
<1> QED
  BY <1>1, ServerInvariant, PTL

==============================================================================
