----------------------------- MODULE TcpServer ------------------------------
(***************************************************************************)
(* The TCP server of the simulated JTAG and DMI interfaces                 *)
(* (hw/dv/dpi/common/tcp_server): a socket thread and the simulation share *)
(* two ring buffers and the client's file descriptor without a lock.       *)
(* Every access to shared memory is a step of its own.  The sockets and    *)
(* the clients (OpenOCD's remote_bitbang) are modelled from the calls the  *)
(* server makes; standard input, which is descriptor 0, is empty.          *)
(***************************************************************************)
EXTENDS Integers, Sequences, FiniteSets

CONSTANTS
  BufSize,      (* BUFSIZE_BYTE.                                           *)
  Build,        (* "O0": the write index is stored before the byte, and    *)
                (* again after the modulo; a full buffer is looked at      *)
                (* again.  "O2": the byte is stored before the index, and  *)
                (* a full buffer is looked at once: no access is volatile. *)
  Script,       (* For each client the commands it sends: "w" and "R".     *)
  Outstanding,  (* Answers a client asks for before it reads one.          *)
  SockSize,     (* Bytes a socket holds in one direction.                  *)
  Leaves,       (* How clients leave: "quit", "close".                     *)
  Overlap,      (* A client may connect while another one is quitting.     *)
  FdLimit       (* Descriptors that the process can have open for clients. *)

ASSUME SizeAssumption == BufSize \in Nat \ {0, 1} /\ FdLimit \in Nat

ASSUME ClientAssumption ==
  /\ Script \in Seq(Seq({"w", "R"}))
  /\ Build \in {"O0", "O2"} /\ Overlap \in BOOLEAN

VARIABLES
  rings,   (* buf_in and buf_out.                                          *)
  cfd,     (* ctx->cfd; 0 when there is no client.                         *)
  run,     (* ctx->socket_run.                                             *)
  srv,     (* The socket thread.                                           *)
  sim,     (* The thread of the simulation.                                *)
  fds,     (* Open file descriptors: number -> client, 0 when closed.      *)
  conns,   (* The clients and their sockets.                               *)
  handled  (* History: commands in the order the simulation took them.     *)

vars == <<rings, cfd, run, srv, sim, fds, conns, handled>>

Clients == DOMAIN Script
Fds == 1 .. FdLimit
None == <<0, 0>>

(* Byte i of client c; after its commands a client quits with "Q".         *)
Quit(c) == Len(Script[c]) + 1
Kind(b) == IF b[2] = Quit(b[1]) THEN "Q" ELSE Script[b[1]][b[2]]
Answers(c) == {i \in 1 .. Len(Script[c]) : Script[c][i] = "R"}
-----------------------------------------------------------------------------
(* tcp_buffer_is_full, tcp_buffer_is_empty, and the stores of              *)
(* tcp_buffer_put_byte and tcp_buffer_get_byte.                            *)
(* Mutants: no check; one element early.                                   *)
FullNever(r) == FALSE
FullEarly(r) == IF r.wptr >= r.rptr THEN r.wptr - r.rptr >= BufSize - 2 ELSE r.rptr - r.wptr <= 2
Full(r) == IF r.wptr >= r.rptr THEN r.wptr - r.rptr = BufSize - 1 ELSE r.rptr - r.wptr = 1
Empty(r) == r.wptr = r.rptr
NewRing == [rptr |-> 0, wptr |-> 0, buf |-> [i \in 0 .. BufSize - 1 |-> None]]

Store(r, i, b) == [r EXCEPT !.buf[i] = b]
(* Mutant: the index is stored before the byte.                            *)
PutStepsEarly == <<"index", "byte before", "modulo">>
PutSteps == IF Build = "O0" THEN <<"index", "byte before", "modulo">> ELSE <<"byte", "both">>
Put(r, step, b) ==
  CASE step = "index" -> [r EXCEPT !.wptr = @ + 1]
    [] step = "byte" -> Store(r, r.wptr, b)
    [] step = "byte before" -> Store(r, r.wptr - 1, b)
    [] step = "modulo" -> [r EXCEPT !.wptr = @ % BufSize]
    [] step = "both" -> [r EXCEPT !.wptr = (@ + 1) % BufSize]

(* The elements between the indices, whichever stores are done.            *)
Contents(r) ==
  LET first == r.rptr % BufSize
      n == ((r.wptr % BufSize) - first) % BufSize
  IN  [i \in 1 .. n |-> r.buf[(first + i - 1) % BufSize]]

Init == /\ rings = [in |-> NewRing, out |-> NewRing]
        /\ cfd = 0 /\ run = TRUE
        /\ srv = [pc |-> "Loop", step |-> 1, listen |-> FALSE, ready |-> 0, byte |-> None]
        /\ sim = [pc |-> "Tick", step |-> 1, fd |-> 0, byte |-> None]
        /\ fds = [n \in Fds |-> 0]
        /\ conns = [c \in Clients |-> [st |-> "new", peer |-> "up", next |-> 1, got |-> <<>>,
                                       toSrv |-> <<>>, toCli |-> <<>>]]
        /\ handled = <<>>
-----------------------------------------------------------------------------
(* Clients.                                                                *)
Asked(c) == Cardinality({i \in Answers(c) : i < conns[c].next})
Connected(c) == conns[c].st \in {"backlog", "open"} /\ conns[c].peer = "up"

Quitting(c) == conns[c].next > Quit(c) /\ (conns[c].st # "closed" \/ sim.pc = "Close")
Waiting == {c \in Clients : conns[c].st = "backlog"}

Connect(c) == /\ run /\ conns[c].st = "new"
              /\ Overlap \/ ~\E d \in Clients : Quitting(d)
              /\ conns' = [conns EXCEPT ![c].st = "backlog"]
              /\ UNCHANGED <<rings, cfd, run, srv, sim, fds, handled>>

Send(c) ==
  LET k == conns[c] IN
  /\ Connected(c) /\ k.next <= Len(Script[c]) /\ Len(k.toSrv) < SockSize
  /\ Script[c][k.next] = "R" => Asked(c) - Len(k.got) < Outstanding
  /\ conns' = [conns EXCEPT ![c].toSrv = Append(@, <<c, k.next>>), ![c].next = @ + 1]
  /\ UNCHANGED <<rings, cfd, run, srv, sim, fds, handled>>

Receive(c) ==
  /\ Connected(c) /\ conns[c].toCli # <<>>
  /\ conns' = [conns EXCEPT ![c].got = Append(@, Head(conns[c].toCli)), ![c].toCli = Tail(@)]
  /\ UNCHANGED <<rings, cfd, run, srv, sim, fds, handled>>

(* remote_bitbang quits when it has all its answers: 'Q', then close.      *)
LeaveQuit(c) ==
  LET k == conns[c] IN
  /\ "quit" \in Leaves /\ Connected(c) /\ (Overlap \/ Waiting = {})
  /\ k.next = Quit(c) /\ Len(k.got) = Cardinality(Answers(c)) /\ Len(k.toSrv) < SockSize
  /\ conns' = [conns EXCEPT ![c].toSrv = Append(@, <<c, Quit(c)>>), ![c].next = @ + 1,
                            ![c].peer = "fin"]
  /\ UNCHANGED <<rings, cfd, run, srv, sim, fds, handled>>

(* A client goes away: a reset follows when it left data unread.           *)
LeaveClose(c) ==
  /\ "close" \in Leaves /\ Connected(c)
  /\ conns' = [conns EXCEPT ![c].peer = IF conns[c].toCli = <<>> THEN "fin" ELSE "rst",
                            ![c].toCli = <<>>]
  /\ UNCHANGED <<rings, cfd, run, srv, sim, fds, handled>>

Client == \E c \in Clients : Connect(c) \/ Send(c) \/ Receive(c) \/ LeaveQuit(c) \/ LeaveClose(c)
-----------------------------------------------------------------------------
(* The socket thread: server_create.                                       *)
SrvGo(pc) == srv' = [srv EXCEPT !.pc = pc, !.step = 1]
Peer(n) == conns[fds[n]]
Open(n) == n # 0 /\ fds[n] # 0
Readable(n) == Peer(n).toSrv # <<>> \/ Peer(n).peer # "up"

(* tcp_server_client_close as the socket thread calls it.                  *)
ClientClose ==
  /\ fds' = [n \in Fds |-> IF n = cfd THEN 0 ELSE fds[n]]
  /\ conns' = [c \in Clients |-> IF cfd # 0 /\ fds[cfd] = c THEN [conns[c] EXCEPT !.st = "closed"]
                                 ELSE conns[c]]
  /\ cfd' = 0

(* select: with a closed descriptor it fails and leaves both sets as they  *)
(* were.                                                                   *)
SrvSelect ==
  /\ srv.pc = "Loop" /\ run
  /\ IF cfd # 0 /\ fds[cfd] = 0
     THEN /\ ClientClose
          /\ srv' = [srv EXCEPT !.pc = "Accept", !.listen = TRUE, !.ready = cfd]
     ELSE /\ srv' = [srv EXCEPT !.pc = "Accept", !.listen = Waiting # {},
                                !.ready = IF cfd # 0 /\ Readable(cfd) THEN cfd ELSE 0]
          /\ UNCHANGED <<cfd, fds, conns>>
  /\ UNCHANGED <<rings, run, sim, handled>>

(* client_tryaccept: an additional client is accepted and closed.  Without *)
(* a free descriptor, accept fails and the client goes on waiting.         *)
Lowest == CHOOSE n \in Fds : fds[n] = 0 /\ \A m \in 1 .. n - 1 : fds[m] # 0
SrvAccept ==
  /\ srv.pc = "Accept"
  /\ IF srv.listen /\ Waiting # {} /\ \E n \in Fds : fds[n] = 0
     THEN \E c \in Waiting :
            IF cfd # 0
            THEN conns' = [conns EXCEPT ![c].st = "closed"] /\ UNCHANGED <<fds, cfd>>
            ELSE /\ conns' = [conns EXCEPT ![c].st = "open"]
                 /\ fds' = [fds EXCEPT ![Lowest] = c] /\ cfd' = Lowest
     ELSE UNCHANGED <<conns, fds, cfd>>
  /\ SrvGo("In")
  /\ UNCHANGED <<rings, run, sim, handled>>

SrvIn ==
  /\ srv.pc = "In"
  /\ SrvGo(IF cfd # 0 /\ cfd = srv.ready THEN "Room" ELSE "Out")
  /\ UNCHANGED <<rings, cfd, run, sim, fds, conns, handled>>
SrvRoom ==
  /\ srv.pc = "Room"
  /\ SrvGo(IF Full(rings.in) THEN "Out" ELSE "Read")
  /\ UNCHANGED <<rings, cfd, run, sim, fds, conns, handled>>

(* Mutant: a closed descriptor is an error like any other.                 *)
SrvReadStrict ==
  /\ srv.pc = "Read"
  /\ IF cfd = 0 THEN SrvGo("Out") /\ UNCHANGED conns
     ELSE IF fds[cfd] # 0 /\ Peer(cfd).toSrv # <<>> /\ Peer(cfd).peer # "rst"
          THEN /\ srv' = [srv EXCEPT !.pc = "Put", !.step = 1, !.byte = Head(Peer(cfd).toSrv)]
               /\ conns' = [conns EXCEPT ![fds[cfd]].toSrv = Tail(@)]
          ELSE /\ SrvGo(IF fds[cfd] = 0 \/ Peer(cfd).peer = "rst" THEN "Abort" ELSE "Out")
               /\ UNCHANGED conns
  /\ UNCHANGED <<rings, cfd, run, sim, fds, handled>>

(* get_byte: descriptor 0 is standard input, a closed one gives EBADF, one *)
(* that was reset fails an assertion.                                      *)
SrvRead ==
  /\ srv.pc = "Read"
  /\ CASE cfd = 0 -> SrvGo("Out") /\ UNCHANGED <<cfd, fds, conns>>
       [] cfd # 0 /\ fds[cfd] = 0 -> SrvGo("Out") /\ ClientClose
       [] OTHER ->
            /\ IF Peer(cfd).toSrv # <<>> /\ Peer(cfd).peer # "rst"
               THEN /\ srv' = [srv EXCEPT !.pc = "Put", !.step = 1, !.byte = Head(Peer(cfd).toSrv)]
                    /\ conns' = [conns EXCEPT ![fds[cfd]].toSrv = Tail(@)]
               ELSE /\ SrvGo(IF Peer(cfd).peer = "rst" THEN "Abort" ELSE "Out")
                    /\ UNCHANGED conns
            /\ UNCHANGED <<cfd, fds>>
  /\ UNCHANGED <<rings, run, sim, handled>>

SrvPut ==
  /\ srv.pc = "Put"
  /\ rings' = [rings EXCEPT !.in = Put(@, PutSteps[srv.step], srv.byte)]
  /\ IF srv.step = Len(PutSteps) THEN srv' = [srv EXCEPT !.pc = "Room", !.step = 1, !.byte = None]
     ELSE srv' = [srv EXCEPT !.step = @ + 1]
  /\ UNCHANGED <<cfd, run, sim, fds, conns, handled>>

SrvOut ==
  /\ srv.pc = "Out"
  /\ SrvGo(IF cfd # 0 THEN "Get" ELSE "Loop")
  /\ UNCHANGED <<rings, cfd, run, sim, fds, conns, handled>>

(* tcp_buffer_get_byte in three stores: index, byte, modulo.               *)
SrvGet ==
  /\ srv.pc = "Get"
  /\ CASE srv.step = 1 /\ Empty(rings.out) -> SrvGo("Loop") /\ UNCHANGED rings
       [] srv.step = 1 /\ ~Empty(rings.out) ->
            /\ rings' = [rings EXCEPT !.out.rptr = @ + 1]
            /\ srv' = [srv EXCEPT !.step = 2]
       [] srv.step = 2 ->
            /\ srv' = [srv EXCEPT !.step = 3, !.byte = rings.out.buf[rings.out.rptr - 1]]
            /\ UNCHANGED rings
       [] OTHER -> /\ rings' = [rings EXCEPT !.out.rptr = @ % BufSize]
                   /\ SrvGo("Send")
  /\ UNCHANGED <<cfd, run, sim, fds, conns, handled>>

(* put_byte: tries again while the client's socket is full; sent to one    *)
(* that is gone, the first byte is lost and another gives EPIPE.           *)
SrvSend ==
  /\ srv.pc = "Send"
  /\ \/ /\ ~Open(cfd)
        /\ SrvGo("Abort") /\ UNCHANGED <<cfd, fds, conns>>
     \/ /\ Open(cfd)
        /\ \/ /\ Peer(cfd).peer = "up" /\ Len(Peer(cfd).toCli) < SockSize
              /\ conns' = [conns EXCEPT ![fds[cfd]].toCli = Append(@, srv.byte)]
              /\ SrvGo("Get") /\ UNCHANGED <<cfd, fds>>
           \/ /\ Peer(cfd).peer \in {"fin", "gone"}
              /\ conns' = [conns EXCEPT ![fds[cfd]].peer = "gone"]
              /\ SrvGo("Get") /\ UNCHANGED <<cfd, fds>>
           \/ Peer(cfd).peer = "gone" /\ ClientClose /\ SrvGo("Get")
           \/ /\ Peer(cfd).peer = "rst"
              /\ SrvGo("Abort") /\ UNCHANGED <<cfd, fds, conns>>
  /\ UNCHANGED <<rings, run, sim, handled>>

(* Mutant: a client is served to its end.                                  *)
SrvEndServed ==
  /\ srv.pc = "Loop" /\ ~run /\ cfd = 0
  /\ SrvGo("Ended")
  /\ conns' = [c \in Clients |-> IF conns[c].st = "backlog" THEN [conns[c] EXCEPT !.st = "closed"]
                                 ELSE conns[c]]
  /\ UNCHANGED <<rings, cfd, run, sim, fds, handled>>
SrvEnd ==
  /\ srv.pc = "Loop" /\ ~run
  /\ SrvGo("Ended")
  /\ fds' = [n \in Fds |-> IF n = cfd THEN 0 ELSE fds[n]]
  /\ conns' = [c \in Clients |-> IF conns[c].st = "backlog" \/ (cfd # 0 /\ fds[cfd] = c)
                                 THEN [conns[c] EXCEPT !.st = "closed"] ELSE conns[c]]
  /\ cfd' = 0
  /\ UNCHANGED <<rings, run, sim, handled>>

Server == \/ SrvSelect \/ SrvAccept \/ SrvIn \/ SrvRoom \/ SrvRead \/ SrvPut
          \/ SrvOut \/ SrvGet \/ SrvSend \/ SrvEnd
-----------------------------------------------------------------------------
(* The simulation: jtagdpi_tick takes a command and answers an 'R'.        *)
SimGo(pc) == sim' = [sim EXCEPT !.pc = pc, !.step = 1]

SimRead ==
  /\ sim.pc = "Tick"
  /\ CASE sim.step = 1 -> /\ ~Empty(rings.in)
                          /\ rings' = [rings EXCEPT !.in.rptr = @ + 1]
                          /\ sim' = [sim EXCEPT !.step = 2]
                          /\ UNCHANGED handled
       [] sim.step = 2 -> /\ sim' = [sim EXCEPT !.step = 3, !.byte = rings.in.buf[rings.in.rptr - 1]]
                          /\ handled' = Append(handled, sim'.byte)
                          /\ UNCHANGED rings
       [] OTHER -> /\ rings' = [rings EXCEPT !.in.rptr = @ % BufSize]
                   /\ SimGo(CASE sim.byte = None \/ Kind(sim.byte) = "w" -> "Tick"
                              [] sim.byte # None /\ Kind(sim.byte) = "R" -> "Full"
                              [] OTHER -> "Close")
                   /\ UNCHANGED handled
  /\ UNCHANGED <<cfd, run, srv, fds, conns>>

(* tcp_server_write blocks while the buffer is full; compiled to look only *)
(* once, for ever.                                                         *)
SimFull ==
  /\ sim.pc = "Full"
  /\ IF Full(rings.out) THEN Build = "O2" /\ SimGo("Stuck") ELSE SimGo("Put")
  /\ UNCHANGED <<rings, cfd, run, srv, fds, conns, handled>>
SimPut ==
  /\ sim.pc = "Put"
  /\ rings' = [rings EXCEPT !.out = Put(@, PutSteps[sim.step], sim.byte)]
  /\ IF sim.step = Len(PutSteps) THEN SimGo("Tick") ELSE sim' = [sim EXCEPT !.step = @ + 1]
  /\ UNCHANGED <<cfd, run, srv, fds, conns, handled>>

(* 'Q': tcp_server_client_close loads the descriptor, closes it, clears it. *)
SimClose ==
  /\ sim.pc = "Close"
  /\ CASE sim.step = 1 -> /\ sim' = IF cfd = 0 THEN [sim EXCEPT !.pc = "Tick"]
                                    ELSE [sim EXCEPT !.step = 2, !.fd = cfd]
                          /\ UNCHANGED <<cfd, fds, conns>>
       [] sim.step = 2 -> /\ sim' = [sim EXCEPT !.step = 3]
                          /\ fds' = [fds EXCEPT ![sim.fd] = 0]
                          /\ conns' = [c \in Clients |-> IF fds[sim.fd] = c
                                         THEN [conns[c] EXCEPT !.st = "closed"] ELSE conns[c]]
                          /\ UNCHANGED cfd
       [] OTHER -> cfd' = 0 /\ SimGo("Tick") /\ UNCHANGED <<fds, conns>>
  /\ UNCHANGED <<rings, run, srv, handled>>

(* The command after a "w" may have been taken ahead (lookahead): it waits *)
(* for the next tick, which may not come.                                  *)
TakenAhead ==
  /\ Len(handled) > 1
  /\ LET last == handled[Len(handled) - 1] IN last # None /\ Kind(last) = "w"

(* tcp_server_close at the end of the simulation.                          *)
SimFinish ==
  /\ sim.step = 1 /\ run
  /\ sim.pc = "Tick" \/ (sim.pc = "Close" /\ TakenAhead)
  /\ run' = FALSE
  /\ SimGo("Join")
  /\ UNCHANGED <<rings, cfd, srv, fds, conns, handled>>
SimJoin ==
  /\ sim.pc = "Join" /\ srv.pc = "Ended"
  /\ SimGo("Done")
  /\ UNCHANGED <<rings, cfd, run, srv, fds, conns, handled>>

Simulation == SimRead \/ SimFull \/ SimPut \/ SimClose \/ SimJoin

Aborted == srv.pc = "Abort"
Next == ~Aborted /\ (Client \/ Server \/ Simulation \/ SimFinish)

Spec == Init /\ [][Next]_vars
FairSpec == /\ Spec
            /\ WF_vars(Server /\ ~Aborted) /\ WF_vars(Simulation /\ ~Aborted)
            /\ \A c \in Clients : WF_vars((Send(c) \/ Receive(c)) /\ ~Aborted)
-----------------------------------------------------------------------------
(* PROPERTIES.                                                             *)

(* The indices stay in the buffer (one past it within a store), and an     *)
(* open client has exactly one descriptor of the process.                  *)
Bytes == {b \in Clients \X (Nat \ {0}) : b[2] <= Quit(b[1])}
Ring == [rptr : 0 .. BufSize, wptr : 0 .. BufSize, buf : [0 .. BufSize - 1 -> Bytes \cup {None}]]
TypeOK ==
  /\ rings \in [in : Ring, out : Ring]
  /\ cfd \in {0} \cup Fds /\ run \in BOOLEAN
  /\ srv \in [pc : {"Loop", "Accept", "In", "Room", "Read", "Put", "Out", "Get", "Send", "Ended",
                    "Abort"},
              step : 1 .. 3, listen : BOOLEAN, ready : {0} \cup Fds, byte : Bytes \cup {None}]
  /\ sim \in [pc : {"Tick", "Full", "Stuck", "Put", "Close", "Join", "Done"},
              step : 1 .. 3, fd : {0} \cup Fds, byte : Bytes \cup {None}]
  /\ fds \in [Fds -> {0} \cup Clients]
  /\ conns \in [Clients -> [st : {"new", "backlog", "open", "closed"},
                            peer : {"up", "fin", "gone", "rst"}, next : Nat \ {0},
                            got : Seq(Bytes \cup {None}), toSrv : Seq(Bytes),
                            toCli : Seq(Bytes \cup {None})]]
  /\ handled \in Seq(Bytes \cup {None})
  /\ \A n \in Fds : fds[n] # 0 => /\ conns[fds[n]].st = "open"
                                  /\ \A m \in Fds : fds[m] = fds[n] => m = n

(* No byte of a client is lost, duplicated or overtaken on its way to the  *)
(* simulation, however the stores of the two threads interleave: what it   *)
(* sent is what was handled, then what is between the threads, then what   *)
(* is in its socket.                                                       *)
Of(s, c) == {i \in DOMAIN s : s[i][1] = c}
OnlyOf(s, c) == \A i \in DOMAIN s : s[i][1] = c
NumbersOf(s, c) == {s[i][2] : i \in Of(s, c)}
Carries(s, c, numbers) ==
  /\ NumbersOf(s, c) = numbers
  /\ \A i, j \in Of(s, c) : i < j => s[i][2] < s[j][2]
InFlight ==
  (IF sim.pc = "Tick" /\ sim.step = 2 THEN <<rings.in.buf[rings.in.rptr - 1]>> ELSE <<>>)
  \o Contents(rings.in)
CommandsInOrder ==
  /\ \A i \in DOMAIN handled : handled[i] # None
  /\ \A c \in Clients :
       /\ \E n \in 0 .. conns[c].next - 1 : Carries(handled, c, 1 .. n)
       /\ srv.pc # "Put" =>
            Carries(handled \o InFlight \o conns[c].toSrv, c, 1 .. conns[c].next - 1)

(* A client that quits when it has its answers is sent its own answers,    *)
(* each once and in order, and no other client's, unless one went away     *)
(* without quitting.                                                       *)
Early == \E c \in Clients : conns[c].peer # "up" /\ conns[c].next <= Quit(c)
AnswersInOrder ==
  \A c \in Clients : LET all == conns[c].got \o conns[c].toCli IN
    \/ Early
    \/ /\ OnlyOf(all, c)
       /\ \E n \in 0 .. Len(Script[c]) : Carries(all, c, Answers(c) \cap (1 .. n))

(* The assertions of get_byte and put_byte hold while clients quit before  *)
(* they close: the close in the simulation's thread does not surprise the  *)
(* socket thread.                                                          *)
AbortsOnlyEarly == Aborted => Early

(* As the assertions of get_byte and put_byte say.                         *)
NoAssertFails == ~Aborted

(* A client with less than a buffer of outstanding answers never makes the *)
(* simulation wait in tcp_server_write, and gets each answer it asks for,  *)
(* unless the simulation ends or a client went away.                       *)
Answered == \A c \in Clients : \A n \in 1 .. Cardinality(Answers(c)) :
  (conns[c].st = "open" /\ Asked(c) >= n) ~> (Len(conns[c].got) >= n \/ ~run \/ Early)

(* A connection is either served or refused.                               *)
Accepted == \A c \in Clients : conns[c].st = "backlog" ~> (conns[c].st # "backlog" \/ Aborted)

(* tcp_server_close returns: the socket thread notices and ends.           *)
Joins == ~run ~> (sim.pc = "Done" \/ Aborted)
-----------------------------------------------------------------------------
(* What the proofs need besides: where each thread is within its stores.   *)
StepsOK ==
  /\ rings.in.rptr \in IF sim.pc = "Tick" /\ sim.step # 1 THEN 1 .. BufSize ELSE 0 .. BufSize - 1
  /\ rings.out.rptr \in IF srv.pc = "Get" /\ srv.step # 1 THEN 1 .. BufSize ELSE 0 .. BufSize - 1
  /\ rings.in.wptr \in IF Build = "O0" /\ srv.pc = "Put" /\ srv.step # 1 THEN 1 .. BufSize
                       ELSE 0 .. BufSize - 1
  /\ rings.out.wptr \in IF Build = "O0" /\ sim.pc = "Put" /\ sim.step # 1 THEN 1 .. BufSize
                        ELSE 0 .. BufSize - 1
  /\ srv.pc = "Put" => srv.step \in DOMAIN PutSteps
  /\ sim.pc = "Put" => sim.step \in DOMAIN PutSteps
  /\ sim.pc = "Close" /\ sim.step # 1 => sim.fd \in Fds
  /\ \A c \in Clients : conns[c].next <= Quit(c) + 1
IInv == TypeOK /\ StepsOK

(* The commands between the socket and the simulation; room for one, and   *)
(* the byte that is stored before its index; and of each client: what the  *)
(* socket thread has read was handled or is coming, the rest is in the     *)
(* socket.                                                                 *)
Inbound == InFlight \o (IF srv.pc = "Put" THEN <<srv.byte>> ELSE <<>>)
SpaceIn == srv.pc \in {"Read", "Put"} => ~Full(rings.in)
StoredIn == srv.pc = "Put" /\ srv.step = 2 => rings.in.buf[rings.in.wptr] = srv.byte
StreamOK(c, past, coming, k) ==
  LET t == k.next - 1 - Len(k.toSrv) IN
  /\ \A i \in DOMAIN k.toSrv : k.toSrv[i] = <<c, t + i>>
  /\ \E h \in 0 .. t : Carries(past, c, 1 .. h) /\ Carries(coming, c, h + 1 .. t)
CommandInv ==
  /\ SpaceIn /\ StoredIn /\ handled \in Seq(Bytes) /\ Inbound \in Seq(Bytes)
  /\ \A c \in Clients : StreamOK(c, handled, Inbound, conns[c])

(* The answers between the simulation and the socket, and the client that  *)
(* is served.                                                              *)
Leaving == CASE srv.pc = "Get" /\ srv.step = 2 -> <<rings.out.buf[rings.out.rptr - 1]>>
             [] srv.pc = "Send" \/ (srv.pc = "Get" /\ srv.step = 3) -> <<srv.byte>>
             [] OTHER -> <<>>
Handling == sim.pc = "Tick" /\ sim.step = 3
Entering == IF sim.pc \in {"Full", "Stuck", "Put"} \/ (Handling /\ Kind(sim.byte) = "R")
            THEN <<sim.byte>> ELSE <<>>
Outbound == (Leaving \o Contents(rings.out)) \o Entering
Served == IF cfd = 0 THEN 0 ELSE fds[cfd]

SpaceOut == sim.pc = "Put" => ~Full(rings.out)
StoredOut == sim.pc = "Put" /\ sim.step = 2 => rings.out.buf[rings.out.wptr] = sim.byte
Latest == Handling \/ sim.pc = "Close" => handled # <<>> /\ sim.byte = handled[Len(handled)]
QuitsLast == \A c \in Clients : conns[c].next > Quit(c) => conns[c].peer \in {"fin", "gone"}
AnswerSpace == SpaceOut /\ StoredOut /\ Latest /\ QuitsLast /\ Outbound \in Seq(Bytes)

(* While every client that leaves quits: one client is served at a time,   *)
(* what is between the threads is its own, and its 'Q' is the last of it.  *)
OneClient ==
  /\ \A n \in Fds : fds[n] # 0 => n = cfd
  /\ \A c \in Clients : conns[c].st = "open" => Served = c
  /\ (\E c \in Clients : Quitting(c)) => Waiting = {}
  /\ srv.pc = "Ended" => ~run /\ \A c \in Clients : conns[c].st \in {"new", "closed"}
OwnBytes == srv.pc # "Ended" =>
  OnlyOf(Inbound, Served) /\ OnlyOf(Outbound, Served) /\ (Handling => sim.byte[1] = Served)
Closing == sim.pc = "Close" =>
  /\ Kind(sim.byte) = "Q"
  /\ \A n \in Fds : fds[n] # 0 => /\ fds[n] = sim.byte[1]
                                  /\ sim.step = 1 \/ (sim.step = 2 /\ n = sim.fd)
GivenOK(c, past, going, k) ==
  LET all == k.got \o k.toCli IN
  /\ OnlyOf(all, c) /\ Carries(all \o going, c, Answers(c) \cap NumbersOf(past, c))
  /\ k.next > Quit(c) => NumbersOf(k.got, c) = Answers(c)
Orderly == /\ OneClient /\ OwnBytes /\ Closing /\ ~Aborted
           /\ \A c \in Clients : GivenOK(c, handled, Outbound, conns[c])
AnswerInv == AnswerSpace /\ (Early \/ Orderly)
=============================================================================
