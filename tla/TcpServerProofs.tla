--------------------------- MODULE TcpServerProofs --------------------------
(***************************************************************************)
(* Proofs about TcpServer: the types for every build, and for a build that *)
(* stores a byte before its index that commands and answers arrive each    *)
(* once and in order.  The ring buffer's contents are what the reader will *)
(* take, whichever stores of the two threads are done; a command on the    *)
(* way is in the buffer or in the hands of one thread, and so is an        *)
(* answer.                                                                 *)
(***************************************************************************)
EXTENDS TcpServer, SequenceTheorems, FiniteSetTheorems, WellFoundedInduction, TLAPS

SrvType ==
  [pc : {"Loop", "Accept", "In", "Room", "Read", "Put", "Out", "Get", "Send", "Ended", "Abort"},
   step : 1 .. 3, listen : BOOLEAN, ready : {0} \cup Fds, byte : Bytes \cup {None}]
SimType ==
  [pc : {"Tick", "Full", "Stuck", "Put", "Close", "Join", "Done"},
   step : 1 .. 3, fd : {0} \cup Fds, byte : Bytes \cup {None}]
ConnType ==
  [st : {"new", "backlog", "open", "closed"}, peer : {"up", "fin", "gone", "rst"},
   next : Nat \ {0}, got : Seq(Bytes \cup {None}), toSrv : Seq(Bytes),
   toCli : Seq(Bytes \cup {None})]

RingsOK ==
  /\ rings \in [in : Ring, out : Ring]
  /\ rings.in.rptr \in IF sim.pc = "Tick" /\ sim.step # 1 THEN 1 .. BufSize ELSE 0 .. BufSize - 1
  /\ rings.out.rptr \in IF srv.pc = "Get" /\ srv.step # 1 THEN 1 .. BufSize ELSE 0 .. BufSize - 1
  /\ rings.in.wptr \in IF Build = "O0" /\ srv.pc = "Put" /\ srv.step # 1 THEN 1 .. BufSize
                       ELSE 0 .. BufSize - 1
  /\ rings.out.wptr \in IF Build = "O0" /\ sim.pc = "Put" /\ sim.step # 1 THEN 1 .. BufSize
                        ELSE 0 .. BufSize - 1
ThreadsOK ==
  /\ srv \in SrvType /\ sim \in SimType /\ run \in BOOLEAN
  /\ srv.pc = "Put" => srv.step \in DOMAIN PutSteps
  /\ sim.pc = "Put" => sim.step \in DOMAIN PutSteps
  /\ sim.pc = "Close" /\ sim.step # 1 => sim.fd \in Fds
  /\ handled \in Seq(Bytes \cup {None})
ConnsOK ==
  /\ conns \in [Clients -> ConnType]
  /\ \A c \in Clients : conns[c].next <= Quit(c) + 1
FdsOK ==
  /\ cfd \in {0} \cup Fds
  /\ fds \in [Fds -> {0} \cup Clients]
  /\ \A n \in Fds : fds[n] # 0 => /\ conns[fds[n]].st = "open"
                                  /\ \A m \in Fds : fds[m] = fds[n] => m = n

Typed == RingsOK /\ ThreadsOK /\ ConnsOK /\ FdsOK

(* The invariant in the parts that the proofs use.                         *)
LEMMA Parts == IInv <=> Typed
BY DEF Typed, IInv, TypeOK, StepsOK, RingsOK, ThreadsOK, ConnsOK, FdsOK, SrvType, SimType, ConnType

(* Clients, their commands and their answers.                              *)
LEMMA ScriptFacts ==
  /\ Clients \subseteq Nat \ {0}
  /\ \A c \in Clients : /\ Len(Script[c]) \in Nat /\ Quit(c) = Len(Script[c]) + 1 /\ Quit(c) \in Nat \ {0}
                        /\ \A i \in 1 .. Quit(c) : <<c, i>> \in Bytes
                        /\ Answers(c) \subseteq 1 .. Len(Script[c])
<1>1. Script \in Seq(Seq({"w", "R"})) /\ Clients = 1 .. Len(Script) /\ Len(Script) \in Nat
  BY ClientAssumption, LenProperties DEF Clients
<1>2. ASSUME NEW c \in Clients
      PROVE  /\ Len(Script[c]) \in Nat /\ Quit(c) = Len(Script[c]) + 1 /\ Quit(c) \in Nat \ {0}
             /\ \A i \in 1 .. Quit(c) : <<c, i>> \in Bytes
             /\ Answers(c) \subseteq 1 .. Len(Script[c])
  <2>1. Script[c] \in Seq({"w", "R"})
    BY <1>1
  <2>2. Len(Script[c]) \in Nat
    BY <2>1, LenProperties
  <2>3. Quit(c) = Len(Script[c]) + 1 /\ Quit(c) \in Nat \ {0}
    BY <2>2 DEF Quit
  <2> QED
    BY <2>2, <2>3 DEF Bytes, Answers
<1> QED
  BY <1>1, <1>2

(* The types hold at first.                                                *)
LEMMA InitInv == Init => IInv
<1> SUFFICES ASSUME Init PROVE IInv
  OBVIOUS
<1> USE SizeAssumption
<1>1. NewRing \in Ring /\ NewRing.rptr = 0 /\ NewRing.wptr = 0
  BY DEF NewRing, Ring
<1>2. RingsOK
  BY <1>1 DEF Init, RingsOK
<1>3. ThreadsOK
  BY DEF Init, ThreadsOK, SrvType, SimType
<1>4. ConnsOK
  BY ScriptFacts DEF Init, ConnsOK, ConnType
<1>5. FdsOK
  BY DEF Init, FdsOK
<1> QED
  BY <1>2, <1>3, <1>4, <1>5, Parts DEF Typed

(* The fields of a client's socket, and what its steps make of them.       *)
LEMMA ConnFields ==
  ASSUME NEW k \in ConnType
  PROVE  /\ k.st \in {"new", "backlog", "open", "closed"} /\ k.peer \in {"up", "fin", "gone", "rst"}
         /\ k.next \in Nat \ {0} /\ k.next + 1 \in Nat \ {0}
         /\ k.got \in Seq(Bytes \cup {None}) /\ k.toCli \in Seq(Bytes \cup {None})
         /\ k.toSrv \in Seq(Bytes) /\ <<>> \in Seq(Bytes \cup {None})
         /\ \A b \in Bytes : Append(k.toSrv, b) \in Seq(Bytes)
         /\ k.toSrv # <<>> => Head(k.toSrv) \in Bytes /\ Tail(k.toSrv) \in Seq(Bytes)
         /\ \A b \in Bytes \cup {None} : Append(k.toCli, b) \in Seq(Bytes \cup {None})
         /\ k.toCli # <<>> => /\ Append(k.got, Head(k.toCli)) \in Seq(Bytes \cup {None})
                              /\ Tail(k.toCli) \in Seq(Bytes \cup {None})
<1>1. /\ k.st \in {"new", "backlog", "open", "closed"} /\ k.peer \in {"up", "fin", "gone", "rst"}
      /\ k.next \in Nat \ {0} /\ k.toSrv \in Seq(Bytes)
      /\ k.got \in Seq(Bytes \cup {None}) /\ k.toCli \in Seq(Bytes \cup {None})
  BY DEF ConnType
<1> HIDE DEF Bytes, None
<1>2. \A b \in Bytes : Append(k.toSrv, b) \in Seq(Bytes)
  BY <1>1, AppendProperties
<1>3. k.toSrv # <<>> => Head(k.toSrv) \in Bytes /\ Tail(k.toSrv) \in Seq(Bytes)
  BY <1>1, HeadTailProperties
<1>4. \A b \in Bytes \cup {None} : Append(k.toCli, b) \in Seq(Bytes \cup {None})
  BY <1>1, AppendProperties
<1>5. ASSUME k.toCli # <<>>
      PROVE  /\ Append(k.got, Head(k.toCli)) \in Seq(Bytes \cup {None})
             /\ Tail(k.toCli) \in Seq(Bytes \cup {None})
  BY <1>1, <1>5, AppendProperties, HeadTailProperties
<1> QED
  BY <1>1, <1>2, <1>3, <1>4, <1>5

(* A client's own steps.                                                   *)
LEMMA ClientType ==
  ASSUME Typed, NEW c \in Clients, Connect(c) \/ Send(c) \/ Receive(c) \/ LeaveQuit(c) \/ LeaveClose(c)
  PROVE  /\ Typed'
         /\ UNCHANGED <<rings, cfd, run, srv, sim, fds, handled>>
         /\ \A d \in Clients : d # c => conns'[d] = conns[d]
<1> DEFINE k == conns[c]
<1>1. RingsOK /\ ThreadsOK /\ ConnsOK /\ FdsOK /\ k \in ConnType
  BY DEF Typed, ConnsOK
<1>2. UNCHANGED <<rings, cfd, run, srv, sim, fds, handled>>
  BY DEF Connect, Send, Receive, LeaveQuit, LeaveClose
<1>3. PICK q \in ConnType : /\ conns' = [conns EXCEPT ![c] = q] /\ q.next <= Quit(c) + 1
                            /\ k.st = "open" => q.st = "open"
  <2>1. CASE Connect(c)
    <3> DEFINE q == [k EXCEPT !.st = "backlog"]
    <3>1. q \in ConnType
      BY <2>1, <1>1, ConnFields DEF Connect, ConnType
    <3>2. conns' = [conns EXCEPT ![c] = q]
      BY <2>1, <1>1 DEF Connect, ConnsOK
    <3>3. q.next <= Quit(c) + 1 /\ (k.st = "open" => q.st = "open")
      BY <2>1, <1>1 DEF Connect, ConnType, ConnsOK
    <3> HIDE DEF q
    <3> QED
      BY <3>1, <3>2, <3>3
  <2>2. CASE Send(c)
    <3> DEFINE q == [k EXCEPT !.toSrv = Append(@, <<c, k.next>>), !.next = @ + 1]
    <3>1. <<c, k.next>> \in Bytes /\ k.next + 1 <= Quit(c) + 1
      <4>1. k.next \in Nat \ {0} /\ k.next <= Len(Script[c])
        BY <2>2, <1>1, ConnFields DEF Send
      <4>2. k.next \in 1 .. Quit(c)
        BY <4>1, ScriptFacts
      <4> QED
        BY <4>1, <4>2, ScriptFacts
    <3>0. Append(k.toSrv, <<c, k.next>>) \in Seq(Bytes) /\ k.next + 1 \in Nat \ {0}
      BY <3>1, <1>1, ConnFields
    <3>2. q \in ConnType
      BY <3>0, <1>1 DEF ConnType
    <3>3. conns' = [conns EXCEPT ![c] = q]
      BY <2>2, <1>1 DEF Send, ConnsOK
    <3>4. q.next <= Quit(c) + 1 /\ (k.st = "open" => q.st = "open")
      BY <3>1, <2>2, <1>1 DEF Send, ConnType, ConnsOK
    <3> HIDE DEF q
    <3> QED
      BY <3>2, <3>3, <3>4
  <2>3. CASE Receive(c)
    <3> DEFINE q == [k EXCEPT !.got = Append(@, Head(k.toCli)), !.toCli = Tail(@)]
    <3>1. q \in ConnType
      BY <2>3, <1>1, ConnFields DEF Receive, ConnType
    <3>2. conns' = [conns EXCEPT ![c] = q]
      BY <2>3, <1>1 DEF Receive, ConnsOK
    <3>3. q.next <= Quit(c) + 1 /\ (k.st = "open" => q.st = "open")
      BY <2>3, <1>1 DEF Receive, ConnType, ConnsOK
    <3> HIDE DEF q
    <3> QED
      BY <3>1, <3>2, <3>3
  <2>4. CASE LeaveQuit(c)
    <3> DEFINE q == [k EXCEPT !.toSrv = Append(@, <<c, Quit(c)>>), !.next = @ + 1, !.peer = "fin"]
    <3>1. <<c, Quit(c)>> \in Bytes /\ k.next + 1 <= Quit(c) + 1
      BY <2>4, <1>1, ScriptFacts DEF LeaveQuit, ConnType
    <3>2. q \in ConnType
      BY <3>1, <2>4, <1>1, ConnFields DEF LeaveQuit, ConnType
    <3>3. conns' = [conns EXCEPT ![c] = q]
      BY <2>4, <1>1 DEF LeaveQuit, ConnsOK
    <3>4. q.next <= Quit(c) + 1 /\ (k.st = "open" => q.st = "open")
      BY <3>1, <2>4, <1>1 DEF LeaveQuit, ConnType, ConnsOK
    <3> HIDE DEF q
    <3> QED
      BY <3>2, <3>3, <3>4
  <2>5. CASE LeaveClose(c)
    <3> DEFINE q == [k EXCEPT !.peer = IF k.toCli = <<>> THEN "fin" ELSE "rst", !.toCli = <<>>]
    <3>1. q \in ConnType
      BY <2>5, <1>1, ConnFields DEF LeaveClose, ConnType
    <3>2. conns' = [conns EXCEPT ![c] = q]
      BY <2>5, <1>1 DEF LeaveClose, ConnsOK
    <3>3. q.next <= Quit(c) + 1 /\ (k.st = "open" => q.st = "open")
      BY <2>5, <1>1 DEF LeaveClose, ConnType, ConnsOK
    <3> HIDE DEF q
    <3> QED
      BY <3>1, <3>2, <3>3
  <2> QED
    BY <2>1, <2>2, <2>3, <2>4, <2>5
<1>4. ConnsOK' /\ \A d \in Clients : d # c => conns'[d] = conns[d]
  BY <1>1, <1>3 DEF ConnsOK, Quit
<1>5. FdsOK'
  BY <1>1, <1>2, <1>3 DEF FdsOK, ConnsOK
<1>6. RingsOK' /\ ThreadsOK'
  BY <1>1, <1>2 DEF RingsOK, ThreadsOK, PutSteps
<1> QED
  BY <1>2, <1>4, <1>5, <1>6 DEF Typed

(* The least element of a set, and accept's descriptor.                    *)
LEMMA LeastOf ==
  ASSUME NEW T \in SUBSET Nat, T # {}
  PROVE  \E x \in T : \A y \in T : y >= x
<1> DEFINE R == OpToRel(<, Nat)
<1>1. IsWellFoundedOn(R, Nat)
  BY NatLessThanWellFounded
<1>2. R = {ss \in Nat \X Nat : ss[1] < ss[2]}
  BY DEF OpToRel
<1> HIDE DEF R
<1>3. PICK x \in T : \A y \in T : ~ (<<y, x>> \in R)
  BY <1>1, WFMin
<1>4. ASSUME NEW y \in T
      PROVE  y >= x
  <2>1. <<y, x>> \in Nat \X Nat
    OBVIOUS
  <2>2. ~(y < x)
    BY <1>2, <1>3, <2>1
  <2> QED
    BY <2>2
<1> QED
  BY <1>4
(* The descriptor that accept returns is a free one.                       *)
LEMMA LowestIs ==
  ASSUME \E n \in Fds : fds[n] = 0
  PROVE  Lowest \in Fds /\ fds[Lowest] = 0
<1> DEFINE T == {n \in Fds : fds[n] = 0}
<1>1. T \in SUBSET Nat /\ T # {}
  BY DEF Fds
<1>2. PICK x \in T : \A y \in T : y >= x
  BY <1>1, LeastOf
<1>3. x \in Fds /\ fds[x] = 0 /\ \A m \in 1 .. x - 1 : fds[m] # 0
  BY <1>2, SizeAssumption DEF Fds
<1> QED
  BY <1>3 DEF Lowest

(* tcp_server_client_close in the socket thread.                            *)
LEMMA CloseType ==
  ASSUME Typed, ClientClose
  PROVE  ConnsOK' /\ FdsOK' /\ cfd' = 0
<1>1. ConnsOK /\ FdsOK
  BY DEF Typed
<1>2. conns' \in [Clients -> ConnType] /\ \A c \in Clients : conns'[c].next = conns[c].next
                                            /\ conns'[c].st \in {conns[c].st, "closed"}
                                            /\ (conns'[c].st # conns[c].st => cfd # 0 /\ fds[cfd] = c)
  <2>1. ASSUME NEW c \in Clients
        PROVE  conns'[c] \in ConnType /\ conns'[c].next = conns[c].next
               /\ conns'[c].st \in {conns[c].st, "closed"}
               /\ (conns'[c].st # conns[c].st => cfd # 0 /\ fds[cfd] = c)
    <3>1. conns[c] \in ConnType
      BY <1>1 DEF ConnsOK
    <3>2. [conns[c] EXCEPT !.st = "closed"] \in ConnType
      BY <3>1 DEF ConnType
    <3>3. conns'[c] = IF cfd # 0 /\ fds[cfd] = c THEN [conns[c] EXCEPT !.st = "closed"] ELSE conns[c]
      BY DEF ClientClose
    <3>4. CASE cfd # 0 /\ fds[cfd] = c
      BY <3>1, <3>2, <3>3, <3>4 DEF ConnType
    <3>5. CASE ~(cfd # 0 /\ fds[cfd] = c)
      BY <3>1, <3>3, <3>5
    <3> QED
      BY <3>4, <3>5
  <2>2. conns' = [c \in Clients |-> conns'[c]]
    BY DEF ClientClose
  <2> QED
    BY <2>1, <2>2
<1>3. ConnsOK'
  BY <1>1, <1>2 DEF ConnsOK, Quit
<1>4. cfd' = 0 /\ cfd' \in {0} \cup Fds /\ fds' \in [Fds -> {0} \cup Clients]
  BY <1>1 DEF ClientClose, FdsOK
<1>5. ASSUME NEW n \in Fds, fds'[n] # 0
      PROVE  conns'[fds'[n]].st = "open" /\ \A m \in Fds : fds'[m] = fds'[n] => m = n
  <2>1. fds'[n] = fds[n] /\ n # cfd /\ fds[n] \in Clients /\ conns[fds[n]].st = "open"
    BY <1>1, <1>5 DEF ClientClose, FdsOK
  <2>2. \A m \in Fds : fds[m] = fds[n] => m = n
    BY <1>1, <1>5, <2>1 DEF FdsOK
  <2>3. conns'[fds[n]].st = "open"
    BY <1>1, <1>2, <2>1, <2>2 DEF FdsOK
  <2>4. \A m \in Fds : fds'[m] \in {fds[m], 0}
    BY DEF ClientClose
  <2> QED
    BY <2>1, <2>2, <2>3, <2>4, <1>5
<1> QED
  BY <1>3, <1>4, <1>5 DEF FdsOK

LEMMA GoType ==
  ASSUME Typed, NEW pc \in {"Loop", "Accept", "In", "Room", "Read", "Out", "Get", "Send", "Ended", "Abort"},
         SrvGo(pc), UNCHANGED <<sim, run, handled>>
  PROVE  ThreadsOK'
<1>1. srv \in SrvType /\ srv' = [srv EXCEPT !.pc = pc, !.step = 1]
  BY DEF Typed, ThreadsOK, SrvGo
<1>2. srv' \in SrvType /\ srv'.pc = pc /\ srv'.step = 1
  <2>1. 1 \in 1 .. 3 /\ pc \in {"Loop", "Accept", "In", "Room", "Read", "Put", "Out", "Get", "Send", "Ended", "Abort"}
    OBVIOUS
  <2> QED
    BY <1>1, <2>1 DEF SrvType
<1> QED
  BY <1>2 DEF Typed, ThreadsOK, PutSteps

LEMMA SelectType == ASSUME Typed, SrvSelect PROVE Typed'
<1> USE DEF SrvSelect
<1>1. PICK l \in BOOLEAN, n \in {0} \cup Fds :
        srv' = [srv EXCEPT !.pc = "Accept", !.listen = l, !.ready = n]
  BY DEF Typed, FdsOK
<1>2. srv \in SrvType /\ srv.pc = "Loop"
  BY DEF Typed, ThreadsOK
<1>3. srv' \in SrvType /\ srv'.pc = "Accept"
  BY <1>1, <1>2 DEF SrvType
<1>4. ThreadsOK'
  BY <1>3 DEF Typed, ThreadsOK, PutSteps
<1>5. RingsOK'
  BY <1>2, <1>3 DEF Typed, RingsOK
<1>6. ConnsOK' /\ FdsOK'
  <2>1. CASE ClientClose
    BY <2>1, CloseType
  <2>2. CASE UNCHANGED <<cfd, fds, conns>>
    BY <2>2 DEF Typed, ConnsOK, FdsOK, Quit
  <2> QED
    BY <2>1, <2>2
<1> QED
  BY <1>4, <1>5, <1>6 DEF Typed

LEMMA AcceptType == ASSUME Typed, SrvAccept PROVE Typed'
<1> USE DEF SrvAccept
<1>1. ThreadsOK'
  BY GoType
<1>2. RingsOK'
  BY DEF Typed, ThreadsOK, SrvType, RingsOK, SrvGo
<1>3. ConnsOK /\ FdsOK
  BY DEF Typed
<1>4. CASE UNCHANGED <<conns, fds, cfd>>
  <2>1. ConnsOK' /\ FdsOK'
    BY <1>3, <1>4 DEF ConnsOK, FdsOK, Quit
  <2> QED
    BY <1>1, <1>2, <2>1 DEF Typed
<1>5. ASSUME NEW c \in Waiting, conns' = [conns EXCEPT ![c].st = "closed"], UNCHANGED <<fds, cfd>>
      PROVE  ConnsOK' /\ FdsOK'
  <2>1. c \in Clients /\ conns[c].st = "backlog"
    BY DEF Waiting
  <2>2. /\ conns' \in [Clients -> ConnType] /\ \A d \in Clients : conns'[d].next = conns[d].next
        /\ \A d \in Clients : d # c => conns'[d] = conns[d]
    BY <1>3, <1>5, <2>1 DEF ConnsOK, ConnType
  <2>3. ConnsOK'
    BY <1>3, <2>2 DEF ConnsOK, Quit
  <2>4. \A n \in Fds : fds[n] # c
    BY <1>3, <2>1, ScriptFacts DEF FdsOK
  <2> QED
    BY <1>3, <1>5, <2>2, <2>3, <2>4 DEF FdsOK
<1>6. ASSUME NEW c \in Waiting, conns' = [conns EXCEPT ![c].st = "open"], \E n \in Fds : fds[n] = 0,
             fds' = [fds EXCEPT ![Lowest] = c], cfd' = Lowest
      PROVE  ConnsOK' /\ FdsOK'
  <2>1. c \in Clients /\ conns[c].st = "backlog"
    BY DEF Waiting
  <2>2. /\ conns' \in [Clients -> ConnType] /\ \A d \in Clients : conns'[d].next = conns[d].next
        /\ \A d \in Clients : d # c => conns'[d] = conns[d]
        /\ conns'[c].st = "open"
    BY <1>3, <1>6, <2>1 DEF ConnsOK, ConnType
  <2>3. ConnsOK'
    BY <1>3, <2>2 DEF ConnsOK, Quit
  <2>4. \A n \in Fds : fds[n] # c
    BY <1>3, <2>1, ScriptFacts DEF FdsOK
  <2>5. Lowest \in Fds /\ fds[Lowest] = 0
    BY <1>6, LowestIs
  <2> DEFINE k == Lowest
  <2>6. k \in Fds /\ fds[k] = 0 /\ fds' = [fds EXCEPT ![k] = c] /\ cfd' = k
    BY <1>6, <2>5
  <2> HIDE DEF k
  <2>7. fds' \in [Fds -> {0} \cup Clients] /\ cfd' \in {0} \cup Fds
    BY <1>3, <2>1, <2>6 DEF FdsOK
  <2>8. \A n \in Fds : fds'[n] = IF n = k THEN c ELSE fds[n]
    BY <1>3, <2>6 DEF FdsOK
  <2>9. \A n \in Fds : fds'[n] # 0 => /\ conns'[fds'[n]].st = "open"
                                      /\ \A m \in Fds : fds'[m] = fds'[n] => m = n
    BY <1>3, <2>2, <2>4, <2>6, <2>8 DEF FdsOK
  <2> QED
    BY <2>3, <2>7, <2>9 DEF FdsOK
<1>7. ConnsOK' /\ FdsOK'
  <2>1. CASE UNCHANGED <<conns, fds, cfd>>
    BY <1>3, <2>1 DEF ConnsOK, FdsOK, Quit
  <2> QED
    BY <1>5, <1>6, <2>1
<1> QED
  BY <1>1, <1>2, <1>7 DEF Typed

(* The steps of the socket thread that change only its own state.          *)
LEMMA LookType == ASSUME Typed, SrvIn \/ SrvRoom \/ SrvOut PROVE Typed'
<1>1. PICK pc \in {"Room", "Out", "Read", "Get", "Loop"} : SrvGo(pc)
  BY DEF SrvIn, SrvRoom, SrvOut
<1>2. UNCHANGED <<rings, cfd, run, sim, fds, conns, handled>> /\ srv.pc \in {"In", "Room", "Out"}
  BY DEF SrvIn, SrvRoom, SrvOut
<1>3. ThreadsOK'
  BY <1>1, <1>2, GoType
<1>4. RingsOK'
  BY <1>1, <1>2 DEF Typed, ThreadsOK, SrvType, RingsOK, SrvGo
<1>5. ConnsOK' /\ FdsOK'
  BY <1>2 DEF Typed, ConnsOK, FdsOK, Quit
<1> QED
  BY <1>3, <1>4, <1>5 DEF Typed

LEMMA SrvUpdate ==
  ASSUME NEW s \in SrvType
  PROVE  /\ s.step \in 1 .. 3
         /\ [s EXCEPT !.pc = "Room", !.step = 1, !.byte = None] \in SrvType
         /\ [s EXCEPT !.pc = "Room", !.step = 1, !.byte = None].pc = "Room"
         /\ \A n \in 1 .. 3 : /\ [s EXCEPT !.step = n] \in SrvType
                              /\ [s EXCEPT !.step = n].pc = s.pc /\ [s EXCEPT !.step = n].step = n
         /\ 2 \in 1 .. 3
         /\ \A b \in Bytes \cup {None} :
              /\ [s EXCEPT !.step = 3, !.byte = b] \in SrvType
              /\ [s EXCEPT !.step = 3, !.byte = b].pc = s.pc
              /\ [s EXCEPT !.step = 3, !.byte = b].step = 3
<1>1. 1 \in 1 .. 3 /\ 2 \in 1 .. 3 /\ 3 \in 1 .. 3 /\ s.step \in 1 .. 3
  BY DEF SrvType
<1>2. [s EXCEPT !.pc = "Room", !.step = 1, !.byte = None] \in SrvType
      /\ [s EXCEPT !.pc = "Room", !.step = 1, !.byte = None].pc = "Room"
  BY <1>1 DEF SrvType
<1>3. ASSUME NEW n \in 1 .. 3
      PROVE  /\ [s EXCEPT !.step = n] \in SrvType
             /\ [s EXCEPT !.step = n].pc = s.pc /\ [s EXCEPT !.step = n].step = n
  BY DEF SrvType
<1>4. ASSUME NEW b \in Bytes \cup {None}
      PROVE  /\ [s EXCEPT !.step = 3, !.byte = b] \in SrvType
             /\ [s EXCEPT !.step = 3, !.byte = b].pc = s.pc
             /\ [s EXCEPT !.step = 3, !.byte = b].step = 3
  BY <1>1 DEF SrvType
<1> QED
  BY <1>1, <1>2, <1>3, <1>4

(* The stores of a byte.                                                   *)
LEMMA StepsOf ==
  /\ Build = "O0" => /\ PutSteps = <<"index", "byte before", "modulo">>
                     /\ Len(PutSteps) = 3 /\ DOMAIN PutSteps = 1 .. 3
                     /\ PutSteps[1] = "index" /\ PutSteps[2] = "byte before" /\ PutSteps[3] = "modulo"
  /\ Build # "O0" => /\ PutSteps = <<"byte", "both">> /\ Len(PutSteps) = 2 /\ DOMAIN PutSteps = 1 .. 2
                     /\ PutSteps[1] = "byte" /\ PutSteps[2] = "both"
<1>1. Build = "O0" => PutSteps = <<"index", "byte before", "modulo">>
  BY DEF PutSteps
<1>2. Build # "O0" => PutSteps = <<"byte", "both">>
  BY DEF PutSteps
<1>3. /\ Len(<<"index", "byte before", "modulo">>) = 3
      /\ DOMAIN <<"index", "byte before", "modulo">> = 1 .. 3
      /\ <<"index", "byte before", "modulo">>[1] = "index"
      /\ <<"index", "byte before", "modulo">>[2] = "byte before"
      /\ <<"index", "byte before", "modulo">>[3] = "modulo"
  OBVIOUS
<1>4. PutSteps = <<"byte", "both">> =>
        /\ Len(PutSteps) = 2 /\ DOMAIN PutSteps = 1 .. 2
        /\ PutSteps[1] = "byte" /\ PutSteps[2] = "both"
  OBVIOUS
<1> QED
  BY <1>1, <1>2, <1>3, <1>4

LEMMA RingFacts ==
  ASSUME NEW r \in Ring
  PROVE  /\ BufSize \in Nat \ {0} /\ r.rptr \in 0 .. BufSize /\ r.wptr \in 0 .. BufSize
         /\ r.buf \in [0 .. BufSize - 1 -> Bytes \cup {None}]
BY SizeAssumption DEF Ring

LEMMA SetWptr ==
  ASSUME NEW r \in Ring, NEW x \in 0 .. BufSize, NEW q, q = [r EXCEPT !.wptr = x]
  PROVE  q \in Ring /\ q.rptr = r.rptr /\ q.wptr = x /\ q.buf = r.buf
BY DEF Ring

LEMMA SetRptr ==
  ASSUME NEW r \in Ring, NEW x \in 0 .. BufSize, NEW q, q = [r EXCEPT !.rptr = x]
  PROVE  q \in Ring /\ q.rptr = x /\ q.wptr = r.wptr /\ q.buf = r.buf
BY DEF Ring

LEMMA SetByte ==
  ASSUME NEW r \in Ring, NEW x \in 0 .. BufSize - 1, NEW b \in Bytes \cup {None},
         NEW q, q = [r EXCEPT !.buf[x] = b]
  PROVE  q \in Ring /\ q.rptr = r.rptr /\ q.wptr = r.wptr
<1>1. r.buf \in [0 .. BufSize - 1 -> Bytes \cup {None}]
  BY RingFacts
<1>2. [r.buf EXCEPT ![x] = b] \in [0 .. BufSize - 1 -> Bytes \cup {None}]
  BY <1>1
<1> QED
  BY <1>2 DEF Ring

LEMMA BelowSize ==
  ASSUME NEW x \in Nat
  PROVE  x % BufSize \in 0 .. BufSize - 1
BY SizeAssumption

LEMMA PutType ==
  ASSUME NEW r \in Ring, NEW n \in DOMAIN PutSteps, NEW b \in Bytes \cup {None},
         r.wptr \in IF Build = "O0" /\ n # 1 THEN 1 .. BufSize ELSE 0 .. BufSize - 1,
         NEW q, q = Put(r, PutSteps[n], b)
  PROVE  /\ n # Len(PutSteps) => n + 1 \in DOMAIN PutSteps /\ n + 1 \in 1 .. 3
         /\ q \in Ring /\ q.rptr = r.rptr
         /\ q.wptr \in IF Build = "O0" /\ n # Len(PutSteps) THEN 1 .. BufSize ELSE 0 .. BufSize - 1
<1> HIDE DEF Bytes, None
<1>1. BufSize \in Nat \ {0} /\ r.wptr \in 0 .. BufSize
  BY RingFacts
<1>2. r.wptr \in Nat /\ r.wptr + 1 \in Nat
  BY <1>1
<1>3. CASE Build = "O0"
  <2>1. n \in 1 .. 3 /\ Len(PutSteps) = 3 /\ DOMAIN PutSteps = 1 .. 3
    BY <1>3, StepsOf
  <2>2. CASE n = 1
    <3>1. q = [r EXCEPT !.wptr = r.wptr + 1]
      BY <1>3, <2>2, StepsOf DEF Put
    <3>2. r.wptr + 1 \in 1 .. BufSize /\ r.wptr + 1 \in 0 .. BufSize
      BY <1>1, <2>2
    <3>3. q \in Ring /\ q.rptr = r.rptr /\ q.wptr = r.wptr + 1
      BY <3>1, <3>2, SetWptr
    <3> QED
      BY <3>2, <3>3, <2>1, <2>2, <1>3
  <2>3. CASE n = 2
    <3>1. q = [r EXCEPT !.buf[r.wptr - 1] = b]
      BY <1>3, <2>3, StepsOf DEF Put, Store
    <3>2. r.wptr \in 1 .. BufSize
      BY <1>3, <2>3
    <3>3. r.wptr - 1 \in 0 .. BufSize - 1
      BY <1>1, <3>2
    <3>4. q \in Ring /\ q.rptr = r.rptr /\ q.wptr = r.wptr
      BY <3>1, <3>3, SetByte
    <3> QED
      BY <3>2, <3>4, <2>1, <2>3, <1>3
  <2>4. CASE n = 3
    <3>1. q = [r EXCEPT !.wptr = r.wptr % BufSize]
      BY <1>3, <2>4, StepsOf DEF Put
    <3>2. r.wptr % BufSize \in 0 .. BufSize - 1
      BY <1>2, BelowSize
    <3>3. r.wptr % BufSize \in 0 .. BufSize
      BY <1>1, <3>2
    <3>4. q \in Ring /\ q.rptr = r.rptr /\ q.wptr = r.wptr % BufSize
      BY <3>1, <3>3, SetWptr
    <3> QED
      BY <3>2, <3>4, <2>1, <2>4, <1>3
  <2> QED
    BY <2>1, <2>2, <2>3, <2>4
<1>4. CASE Build # "O0"
  <2>1. n \in 1 .. 2 /\ r.wptr \in 0 .. BufSize - 1 /\ Len(PutSteps) = 2 /\ DOMAIN PutSteps = 1 .. 2
    BY <1>4, StepsOf
  <2>2. CASE n = 1
    <3>1. q = [r EXCEPT !.buf[r.wptr] = b]
      BY <1>4, <2>2, StepsOf DEF Put, Store
    <3>2. q \in Ring /\ q.rptr = r.rptr /\ q.wptr = r.wptr
      BY <3>1, <2>1, SetByte
    <3> QED
      BY <3>2, <2>1, <2>2, <1>4
  <2>3. CASE n = 2
    <3>1. q = [r EXCEPT !.wptr = (r.wptr + 1) % BufSize]
      BY <1>4, <2>3, StepsOf DEF Put
    <3>2. (r.wptr + 1) % BufSize \in 0 .. BufSize - 1
      BY <1>2, BelowSize
    <3>3. (r.wptr + 1) % BufSize \in 0 .. BufSize
      BY <1>1, <3>2
    <3>4. q \in Ring /\ q.rptr = r.rptr /\ q.wptr = (r.wptr + 1) % BufSize
      BY <3>1, <3>3, SetWptr
    <3> QED
      BY <3>2, <3>4, <2>1, <2>3, <1>4
  <2> QED
    BY <2>1, <2>2, <2>3
<1> QED
  BY <1>3, <1>4

(* The stores of taking a byte.                                            *)
LEMMA TakeType ==
  ASSUME NEW r \in Ring, r.rptr < BufSize, NEW q, q = [r EXCEPT !.rptr = @ + 1]
  PROVE  q \in Ring /\ q.rptr \in 1 .. BufSize /\ q.wptr = r.wptr
<1>1. BufSize \in Nat \ {0} /\ r.rptr \in 0 .. BufSize
  BY RingFacts
<1>2. r.rptr + 1 \in 1 .. BufSize /\ r.rptr + 1 \in 0 .. BufSize
  BY <1>1
<1> QED
  BY <1>2, SetRptr

LEMMA WrapType ==
  ASSUME NEW r \in Ring, NEW q, q = [r EXCEPT !.rptr = @ % BufSize]
  PROVE  q \in Ring /\ q.rptr \in 0 .. BufSize - 1 /\ q.wptr = r.wptr
<1>1. BufSize \in Nat \ {0} /\ r.rptr \in 0 .. BufSize
  BY RingFacts
<1>2. r.rptr % BufSize \in 0 .. BufSize - 1
  BY <1>1
<1>3. r.rptr % BufSize \in 0 .. BufSize
  BY <1>1, <1>2
<1> QED
  BY <1>2, <1>3, SetRptr

LEMMA TakenType ==
  ASSUME NEW r \in Ring, r.rptr \in 1 .. BufSize
  PROVE  r.buf[r.rptr - 1] \in Bytes \cup {None}
<1>1. BufSize \in Nat \ {0} /\ r.buf \in [0 .. BufSize - 1 -> Bytes \cup {None}]
  BY RingFacts
<1>2. r.rptr - 1 \in 0 .. BufSize - 1
  BY <1>1
<1> QED
  BY <1>1, <1>2

LEMMA RingsSplit ==
  RingsOK => /\ rings.in \in Ring /\ rings.out \in Ring
             /\ rings = [in |-> rings.in, out |-> rings.out]
BY DEF RingsOK

LEMMA PutInType == ASSUME Typed, SrvPut PROVE Typed'
<1> USE DEF SrvPut
<1>1. /\ srv \in SrvType /\ srv.pc = "Put" /\ srv.step \in DOMAIN PutSteps
      /\ rings.in \in Ring /\ rings.out \in Ring /\ srv.byte \in Bytes \cup {None}
      /\ rings.in.wptr \in IF Build = "O0" /\ srv.step # 1 THEN 1 .. BufSize ELSE 0 .. BufSize - 1
  BY RingsSplit DEF Typed, ThreadsOK, RingsOK, SrvType
<1> DEFINE n == srv.step
           q == Put(rings.in, PutSteps[n], srv.byte)
<1>2. /\ n # Len(PutSteps) => n + 1 \in DOMAIN PutSteps /\ n + 1 \in 1 .. 3
      /\ q \in Ring /\ q.rptr = rings.in.rptr
      /\ q.wptr \in IF Build = "O0" /\ n # Len(PutSteps) THEN 1 .. BufSize ELSE 0 .. BufSize - 1
  BY <1>1, PutType
<1>3. rings' = [in |-> q, out |-> rings.out]
  BY RingsSplit DEF Typed
<1> HIDE DEF q
<1>4. \/ n = Len(PutSteps) /\ srv' = [srv EXCEPT !.pc = "Room", !.step = 1, !.byte = None]
      \/ n # Len(PutSteps) /\ srv' = [srv EXCEPT !.step = n + 1]
  OBVIOUS
<1>5. CASE n = Len(PutSteps) /\ srv' = [srv EXCEPT !.pc = "Room", !.step = 1, !.byte = None]
  <2>1. srv' \in SrvType /\ srv'.pc = "Room"
    BY <1>1, <1>5, SrvUpdate
  <2>2. ThreadsOK'
    BY <2>1 DEF Typed, ThreadsOK, PutSteps
  <2>3. RingsOK'
    BY <2>1, <1>1, <1>2, <1>3, <1>5 DEF Typed, RingsOK
  <2> QED
    BY <2>2, <2>3 DEF Typed, ConnsOK, FdsOK, Quit
<1>6. CASE n # Len(PutSteps) /\ srv' = [srv EXCEPT !.step = n + 1]
  <2>1. srv' \in SrvType /\ srv'.pc = "Put" /\ srv'.step = n + 1 /\ n + 1 \in DOMAIN PutSteps
    BY <1>1, <1>2, <1>6 DEF SrvType
  <2>2. n + 1 # 1
    BY <1>1 DEF SrvType
  <2>3. ThreadsOK'
    BY <2>1 DEF Typed, ThreadsOK, PutSteps
  <2>4. RingsOK'
    BY <2>1, <2>2, <1>1, <1>2, <1>3, <1>6 DEF Typed, RingsOK
  <2> QED
    BY <2>3, <2>4 DEF Typed, ConnsOK, FdsOK, Quit
<1> QED
  BY <1>4, <1>5, <1>6

LEMMA GetType == ASSUME Typed, SrvGet PROVE Typed'
<1> USE DEF SrvGet
<1>1. /\ srv \in SrvType /\ srv.pc = "Get" /\ rings.in \in Ring /\ rings.out \in Ring
      /\ rings.out.rptr \in IF srv.step # 1 THEN 1 .. BufSize ELSE 0 .. BufSize - 1
      /\ srv.step \in 1 .. 3 /\ BufSize \in Nat
  BY RingsSplit, SizeAssumption DEF Typed, ThreadsOK, RingsOK, SrvType
<1>2. ConnsOK' /\ FdsOK'
  BY DEF Typed, ConnsOK, FdsOK, Quit
<1>3. CASE srv.step = 1 /\ Empty(rings.out)
  <2>1. SrvGo("Loop") /\ UNCHANGED <<rings, sim, run, handled>>
    BY <1>3
  <2>2. ThreadsOK'
    BY <2>1, GoType
  <2>3. RingsOK'
    BY <1>1, <1>3, <2>1 DEF Typed, RingsOK, SrvGo, SrvType
  <2> QED
    BY <1>2, <2>2, <2>3 DEF Typed
<1>4. CASE srv.step = 1 /\ ~Empty(rings.out)
  <2> DEFINE q == [rings.out EXCEPT !.rptr = @ + 1]
  <2>1. rings' = [in |-> rings.in, out |-> q] /\ srv' = [srv EXCEPT !.step = 2]
    BY <1>4, RingsSplit DEF Typed
  <2>2. q \in Ring /\ q.rptr \in 1 .. BufSize /\ q.wptr = rings.out.wptr
    BY <1>1, <1>4, TakeType
  <2> HIDE DEF q
  <2>3. srv' \in SrvType /\ srv'.pc = "Get" /\ srv'.step = 2
    BY <1>1, <2>1, SrvUpdate
  <2>4. ThreadsOK'
    BY <2>3 DEF Typed, ThreadsOK, PutSteps
  <2>5. RingsOK'
    BY <1>1, <2>1, <2>2, <2>3 DEF Typed, RingsOK
  <2> QED
    BY <1>2, <2>4, <2>5 DEF Typed
<1>5. CASE srv.step = 2
  <2>1. rings.out.buf[rings.out.rptr - 1] \in Bytes \cup {None}
    BY <1>1, <1>5, TakenType
  <2>2. UNCHANGED rings /\ srv' = [srv EXCEPT !.step = 3, !.byte = rings.out.buf[rings.out.rptr - 1]]
    BY <1>5
  <2>3. srv' \in SrvType /\ srv'.pc = "Get" /\ srv'.step = 3
    BY <1>1, <2>1, <2>2, SrvUpdate
  <2>4. ThreadsOK'
    BY <2>3 DEF Typed, ThreadsOK, PutSteps
  <2>5. RingsOK'
    BY <1>1, <1>5, <2>2, <2>3 DEF Typed, RingsOK
  <2> QED
    BY <1>2, <2>4, <2>5 DEF Typed
<1>6. CASE srv.step = 3
  <2> DEFINE q == [rings.out EXCEPT !.rptr = @ % BufSize]
  <2>1. rings' = [in |-> rings.in, out |-> q] /\ SrvGo("Send")
    BY <1>6, RingsSplit DEF Typed
  <2>2. q \in Ring /\ q.rptr \in 0 .. BufSize - 1 /\ q.wptr = rings.out.wptr
    BY <1>1, WrapType
  <2> HIDE DEF q
  <2>3. ThreadsOK'
    BY <2>1, GoType
  <2>4. srv'.pc = "Send"
    BY <1>1, <2>1 DEF SrvGo, SrvType
  <2>5. RingsOK'
    BY <1>1, <2>1, <2>2, <2>4 DEF Typed, RingsOK
  <2> QED
    BY <1>2, <2>3, <2>5 DEF Typed
<1> QED
  BY <1>1, <1>3, <1>4, <1>5, <1>6

(* A connection whose sockets change, with its state kept.                 *)
LEMMA ConnChanged ==
  ASSUME ConnsOK, FdsOK, NEW c \in Clients, NEW q \in ConnType,
         q.st = conns[c].st, q.next = conns[c].next,
         conns' = [conns EXCEPT ![c] = q], UNCHANGED <<cfd, fds>>
  PROVE  ConnsOK' /\ FdsOK'
<1>1. /\ conns' \in [Clients -> ConnType]
      /\ \A d \in Clients : conns'[d].next = conns[d].next /\ conns'[d].st = conns[d].st
  BY DEF ConnsOK
<1>2. ConnsOK'
  BY <1>1 DEF ConnsOK, Quit
<1>3. FdsOK'
  BY <1>1 DEF FdsOK
<1> QED
  BY <1>2, <1>3

LEMMA ReadType == ASSUME Typed, SrvRead PROVE Typed'
<1> USE DEF SrvRead
<1>1. /\ srv \in SrvType /\ srv.pc = "Read" /\ ConnsOK /\ FdsOK
      /\ UNCHANGED <<rings, run, sim, handled>>
  BY DEF Typed, ThreadsOK
<1>2. ASSUME NEW pc \in {"Out", "Abort"}, SrvGo(pc), ConnsOK', FdsOK'
      PROVE  Typed'
  <2>1. ThreadsOK'
    BY <1>1, <1>2, GoType
  <2>2. RingsOK'
    BY <1>1, <1>2 DEF Typed, RingsOK, SrvGo, SrvType
  <2> QED
    BY <1>2, <2>1, <2>2 DEF Typed
<1>3. CASE cfd = 0
  BY <1>2, <1>3 DEF Typed, ConnsOK, FdsOK, Quit
<1>4. CASE cfd # 0 /\ fds[cfd] = 0
  BY <1>2, <1>4, CloseType
<1>5. CASE cfd # 0 /\ fds[cfd] # 0
  <2> DEFINE c == fds[cfd]
             k == conns[c]
  <2>1. c \in Clients /\ k \in ConnType /\ Peer(cfd) = k
    BY <1>1, <1>5 DEF FdsOK, ConnsOK, Peer
  <2>2. CASE k.toSrv # <<>> /\ k.peer # "rst"
    <3> DEFINE q == [k EXCEPT !.toSrv = Tail(@)]
    <3>1. conns' = [conns EXCEPT ![c] = q] /\ UNCHANGED <<cfd, fds>>
          /\ srv' = [srv EXCEPT !.pc = "Put", !.step = 1, !.byte = Head(k.toSrv)]
      BY <1>5, <2>1, <2>2 DEF Peer
    <3>2. Head(k.toSrv) \in Bytes /\ Tail(k.toSrv) \in Seq(Bytes)
      BY <2>1, <2>2, ConnFields
    <3>3. q \in ConnType /\ q.st = k.st /\ q.next = k.next
      BY <2>1, <3>2 DEF ConnType
    <3> HIDE DEF q
    <3>4. ConnsOK' /\ FdsOK'
      BY <1>1, <2>1, <3>1, <3>3, ConnChanged
    <3>5. srv' \in SrvType /\ srv'.pc = "Put" /\ srv'.step = 1
      <4>1. 1 \in 1 .. 3 /\ Head(k.toSrv) \in Bytes \cup {None}
        BY <3>2
      <4> QED
        BY <1>1, <3>1, <4>1 DEF SrvType
    <3>6. 1 \in DOMAIN PutSteps
      <4>1. DOMAIN PutSteps = 1 .. 3 \/ DOMAIN PutSteps = 1 .. 2
        BY StepsOf
      <4> QED
        BY <4>1
    <3>7. ThreadsOK'
      BY <1>1, <3>5, <3>6 DEF Typed, ThreadsOK, PutSteps
    <3>8. RingsOK'
      BY <1>1, <3>5 DEF Typed, RingsOK
    <3> QED
      BY <3>4, <3>7, <3>8 DEF Typed
  <2>3. CASE ~(k.toSrv # <<>> /\ k.peer # "rst")
    <3>1. UNCHANGED <<cfd, fds, conns>> /\ (SrvGo("Abort") \/ SrvGo("Out"))
      BY <1>5, <2>1, <2>3
    <3> QED
      BY <1>1, <1>2, <3>1 DEF ConnsOK, FdsOK, Quit
  <2> QED
    BY <2>2, <2>3
<1> QED
  BY <1>3, <1>4, <1>5

LEMMA SendType == ASSUME Typed, SrvSend PROVE Typed'
<1> USE DEF SrvSend
<1>1. /\ srv \in SrvType /\ srv.pc = "Send" /\ ConnsOK /\ FdsOK
      /\ UNCHANGED <<rings, run, sim, handled>>
  BY DEF Typed, ThreadsOK
<1>2. ASSUME NEW pc \in {"Get", "Abort"}, SrvGo(pc), ConnsOK', FdsOK'
      PROVE  Typed'
  <2>1. ThreadsOK'
    BY <1>1, <1>2, GoType
  <2>2. RingsOK'
    BY <1>1, <1>2 DEF Typed, RingsOK, SrvGo, SrvType
  <2> QED
    BY <1>2, <2>1, <2>2 DEF Typed
<1>3. CASE UNCHANGED <<cfd, fds, conns>> /\ SrvGo("Abort")
  BY <1>1, <1>2, <1>3 DEF ConnsOK, FdsOK, Quit
<1>4. CASE ClientClose /\ SrvGo("Get")
  BY <1>2, <1>4, CloseType
<1>5. ASSUME Open(cfd), SrvGo("Get"), UNCHANGED <<cfd, fds>>,
             \/ conns' = [conns EXCEPT ![fds[cfd]].toCli = Append(@, srv.byte)]
             \/ conns' = [conns EXCEPT ![fds[cfd]].peer = "gone"]
      PROVE  Typed'
  <2> DEFINE c == fds[cfd]
             k == conns[c]
  <2>1. c \in Clients /\ k \in ConnType
    BY <1>1, <1>5 DEF FdsOK, ConnsOK, Open
  <2>2. Append(k.toCli, srv.byte) \in Seq(Bytes \cup {None})
    BY <1>1, <2>1, ConnFields DEF SrvType
  <2>3. PICK q \in ConnType : q.st = k.st /\ q.next = k.next /\ conns' = [conns EXCEPT ![c] = q]
    <3>1. [k EXCEPT !.toCli = Append(@, srv.byte)] \in ConnType
          /\ [k EXCEPT !.toCli = Append(@, srv.byte)].st = k.st
          /\ [k EXCEPT !.toCli = Append(@, srv.byte)].next = k.next
      BY <2>1, <2>2 DEF ConnType
    <3>2. [k EXCEPT !.peer = "gone"] \in ConnType /\ [k EXCEPT !.peer = "gone"].st = k.st
          /\ [k EXCEPT !.peer = "gone"].next = k.next
      BY <2>1 DEF ConnType
    <3> QED
      BY <1>5, <3>1, <3>2
  <2>4. ConnsOK' /\ FdsOK'
    BY <1>1, <1>5, <2>1, <2>3, ConnChanged
  <2> QED
    BY <1>2, <1>5, <2>4
<1> QED
  BY <1>3, <1>4, <1>5

LEMMA EndType == ASSUME Typed, SrvEnd PROVE Typed'
<1> USE DEF SrvEnd
<1>1. srv \in SrvType /\ ConnsOK /\ FdsOK /\ UNCHANGED <<rings, run, sim, handled>> /\ SrvGo("Ended")
  BY DEF Typed, ThreadsOK
<1>2. ThreadsOK'
  BY <1>1, GoType
<1>3. RingsOK'
  BY <1>1 DEF Typed, RingsOK, SrvGo, SrvType
<1>4. ASSUME NEW c \in Clients
      PROVE  /\ conns'[c] \in ConnType /\ conns'[c].next = conns[c].next
             /\ conns[c].st = "open" /\ ~(cfd # 0 /\ fds[cfd] = c) => conns'[c].st = "open"
  <2>1. conns[c] \in ConnType
    BY <1>1 DEF ConnsOK
  <2>2. [conns[c] EXCEPT !.st = "closed"] \in ConnType
        /\ [conns[c] EXCEPT !.st = "closed"].next = conns[c].next
    BY <2>1 DEF ConnType
  <2> QED
    BY <2>1, <2>2
<1>5. conns' \in [Clients -> ConnType]
  BY <1>4
<1>6. ConnsOK'
  BY <1>1, <1>4, <1>5 DEF ConnsOK, Quit
<1>7. FdsOK'
  <2>1. cfd' = 0 /\ fds' \in [Fds -> {0} \cup Clients]
    BY <1>1 DEF FdsOK
  <2>2. ASSUME NEW n \in Fds, fds'[n] # 0
        PROVE  conns'[fds'[n]].st = "open" /\ \A m \in Fds : fds'[m] = fds'[n] => m = n
    <3>1. fds'[n] = fds[n] /\ n # cfd /\ fds[n] # 0
      BY <2>2
    <3>2. fds[n] \in Clients /\ conns[fds[n]].st = "open" /\ \A m \in Fds : fds[m] = fds[n] => m = n
      BY <1>1, <3>1 DEF FdsOK
    <3>3. ~(cfd # 0 /\ fds[cfd] = fds[n])
      BY <1>1, <3>1, <3>2 DEF FdsOK
    <3>4. conns'[fds[n]].st = "open"
      BY <1>4, <3>2, <3>3
    <3>5. \A m \in Fds : fds'[m] \in {0, fds[m]}
      OBVIOUS
    <3> QED
      BY <3>1, <3>2, <3>4, <3>5
  <2> QED
    BY <2>1, <2>2 DEF FdsOK
<1> QED
  BY <1>2, <1>3, <1>6, <1>7 DEF Typed

LEMMA ServerTyped == ASSUME Typed, Server PROVE Typed'
BY SelectType, AcceptType, LookType, ReadType, PutInType, GetType, SendType, EndType DEF Server

LEMMA SimGoType ==
  ASSUME Typed, NEW pc \in {"Tick", "Full", "Stuck", "Close", "Join", "Done"}, SimGo(pc),
         UNCHANGED <<srv, handled>>, run' \in BOOLEAN
  PROVE  ThreadsOK' /\ sim'.pc = pc /\ sim'.step = 1
<1>1. sim \in SimType /\ sim' = [sim EXCEPT !.pc = pc, !.step = 1]
  BY DEF Typed, ThreadsOK, SimGo
<1>2. 1 \in 1 .. 3 /\ pc \in {"Tick", "Full", "Stuck", "Put", "Close", "Join", "Done"}
  OBVIOUS
<1>3. sim' \in SimType /\ sim'.pc = pc /\ sim'.step = 1
  BY <1>1, <1>2 DEF SimType
<1>4. sim'.pc # "Put"
  BY <1>3
<1> QED
  BY <1>3, <1>4 DEF Typed, ThreadsOK, PutSteps

LEMMA SimReadType == ASSUME Typed, SimRead PROVE Typed'
<1> USE DEF SimRead
<1>1. /\ sim \in SimType /\ sim.pc = "Tick" /\ rings.in \in Ring /\ rings.out \in Ring
      /\ rings.in.rptr \in IF sim.step # 1 THEN 1 .. BufSize ELSE 0 .. BufSize - 1
      /\ sim.step \in 1 .. 3 /\ BufSize \in Nat
      /\ UNCHANGED <<cfd, run, srv, fds, conns>>
  BY RingsSplit, SizeAssumption DEF Typed, ThreadsOK, RingsOK, SimType
<1>2. ConnsOK' /\ FdsOK'
  BY DEF Typed, ConnsOK, FdsOK, Quit
<1>3. CASE sim.step = 1
  <2> DEFINE q == [rings.in EXCEPT !.rptr = @ + 1]
  <2>1. /\ rings' = [in |-> q, out |-> rings.out] /\ sim' = [sim EXCEPT !.step = 2]
        /\ UNCHANGED handled
    BY <1>3, RingsSplit DEF Typed
  <2>2. q \in Ring /\ q.rptr \in 1 .. BufSize /\ q.wptr = rings.in.wptr
    BY <1>1, <1>3, TakeType
  <2> HIDE DEF q
  <2>3. sim' \in SimType /\ sim'.pc = "Tick" /\ sim'.step = 2
    <3>1. 2 \in 1 .. 3
      OBVIOUS
    <3> QED
      BY <1>1, <2>1, <3>1 DEF SimType
  <2>4. ThreadsOK'
    BY <1>1, <2>1, <2>3 DEF Typed, ThreadsOK, PutSteps
  <2>5. RingsOK'
    BY <1>1, <2>1, <2>2, <2>3 DEF Typed, RingsOK
  <2> QED
    BY <1>2, <2>4, <2>5 DEF Typed
<1>4. CASE sim.step = 2
  <2> DEFINE b == rings.in.buf[rings.in.rptr - 1]
  <2>1. b \in Bytes \cup {None}
    BY <1>1, <1>4, TakenType
  <2>2. UNCHANGED rings /\ sim' = [sim EXCEPT !.step = 3, !.byte = b] /\ handled' = Append(handled, sim'.byte)
    BY <1>4
  <2> HIDE DEF b
  <2>3. sim' \in SimType /\ sim'.pc = "Tick" /\ sim'.step = 3 /\ sim'.byte = b
    <3>1. 3 \in 1 .. 3
      OBVIOUS
    <3> QED
      BY <1>1, <2>1, <2>2, <3>1 DEF SimType
  <2>4. handled' \in Seq(Bytes \cup {None})
    BY <2>1, <2>2, <2>3, AppendProperties DEF Typed, ThreadsOK
  <2>5. ThreadsOK'
    BY <1>1, <2>3, <2>4 DEF Typed, ThreadsOK, PutSteps
  <2>6. RingsOK'
    BY <1>1, <1>4, <2>2, <2>3 DEF Typed, RingsOK
  <2> QED
    BY <1>2, <2>5, <2>6 DEF Typed
<1>5. CASE sim.step = 3
  <2> DEFINE q == [rings.in EXCEPT !.rptr = @ % BufSize]
  <2>1. rings' = [in |-> q, out |-> rings.out] /\ UNCHANGED handled
    BY <1>5, RingsSplit DEF Typed
  <2>2. PICK pc \in {"Tick", "Full", "Close"} : SimGo(pc)
    BY <1>5
  <2>3. q \in Ring /\ q.rptr \in 0 .. BufSize - 1 /\ q.wptr = rings.in.wptr
    BY <1>1, WrapType
  <2> HIDE DEF q
  <2>4. ThreadsOK' /\ sim'.pc = pc /\ sim'.step = 1
    BY <1>1, <2>1, <2>2, SimGoType DEF Typed, ThreadsOK
  <2>5. RingsOK'
    BY <1>1, <2>1, <2>3, <2>4 DEF Typed, RingsOK
  <2> QED
    BY <1>2, <2>4, <2>5 DEF Typed
<1> QED
  BY <1>1, <1>3, <1>4, <1>5

LEMMA SimFullType == ASSUME Typed, SimFull PROVE Typed'
<1> USE DEF SimFull
<1>1. /\ sim \in SimType /\ sim.pc = "Full" /\ UNCHANGED <<rings, cfd, run, srv, fds, conns, handled>>
  BY DEF Typed, ThreadsOK
<1>2. PICK pc \in {"Stuck", "Put"} : SimGo(pc)
  OBVIOUS
<1>3. sim' \in SimType /\ sim'.pc = pc /\ sim'.step = 1
  <2>1. 1 \in 1 .. 3
    OBVIOUS
  <2> QED
    BY <1>1, <1>2, <2>1 DEF SimType, SimGo
<1>4. 1 \in DOMAIN PutSteps
  <2>1. DOMAIN PutSteps = 1 .. 3 \/ DOMAIN PutSteps = 1 .. 2
    BY StepsOf
  <2> QED
    BY <2>1
<1>5. ThreadsOK'
  BY <1>1, <1>3, <1>4 DEF Typed, ThreadsOK, PutSteps
<1>6. RingsOK'
  BY <1>1, <1>3 DEF Typed, RingsOK
<1> QED
  BY <1>1, <1>5, <1>6 DEF Typed, ConnsOK, FdsOK, Quit

LEMMA SimPutType == ASSUME Typed, SimPut PROVE Typed'
<1> USE DEF SimPut
<1>1. /\ sim \in SimType /\ sim.pc = "Put" /\ sim.step \in DOMAIN PutSteps
      /\ rings.in \in Ring /\ rings.out \in Ring /\ sim.byte \in Bytes \cup {None}
      /\ rings.out.wptr \in IF Build = "O0" /\ sim.step # 1 THEN 1 .. BufSize ELSE 0 .. BufSize - 1
      /\ UNCHANGED <<cfd, run, srv, fds, conns, handled>>
  BY RingsSplit DEF Typed, ThreadsOK, RingsOK, SimType
<1> DEFINE n == sim.step
           q == Put(rings.out, PutSteps[n], sim.byte)
<1>2. /\ n # Len(PutSteps) => n + 1 \in DOMAIN PutSteps /\ n + 1 \in 1 .. 3
      /\ q \in Ring /\ q.rptr = rings.out.rptr
      /\ q.wptr \in IF Build = "O0" /\ n # Len(PutSteps) THEN 1 .. BufSize ELSE 0 .. BufSize - 1
  BY <1>1, PutType
<1>3. rings' = [in |-> rings.in, out |-> q]
  BY RingsSplit DEF Typed
<1> HIDE DEF q
<1>4. CASE n = Len(PutSteps)
  <2>1. SimGo("Tick")
    BY <1>4
  <2>2. ThreadsOK' /\ sim'.pc = "Tick" /\ sim'.step = 1
    BY <1>1, <2>1, SimGoType DEF Typed, ThreadsOK
  <2>3. RingsOK'
    BY <1>1, <1>2, <1>3, <1>4, <2>2 DEF Typed, RingsOK
  <2> QED
    BY <1>1, <2>2, <2>3 DEF Typed, ConnsOK, FdsOK, Quit
<1>5. CASE n # Len(PutSteps)
  <2>1. sim' = [sim EXCEPT !.step = n + 1]
    BY <1>5
  <2>2. sim' \in SimType /\ sim'.pc = "Put" /\ sim'.step = n + 1 /\ n + 1 \in DOMAIN PutSteps
    BY <1>1, <1>2, <1>5, <2>1 DEF SimType
  <2>3. n + 1 # 1
    BY <1>1 DEF SimType
  <2>4. ThreadsOK'
    BY <1>1, <2>2 DEF Typed, ThreadsOK, PutSteps
  <2>5. RingsOK'
    BY <1>1, <2>2, <2>3, <1>2, <1>3, <1>5 DEF Typed, RingsOK
  <2> QED
    BY <1>1, <2>4, <2>5 DEF Typed, ConnsOK, FdsOK, Quit
<1> QED
  BY <1>4, <1>5

LEMMA SimCloseType == ASSUME Typed, SimClose PROVE Typed'
<1> USE DEF SimClose
<1>1. /\ sim \in SimType /\ sim.pc = "Close" /\ ConnsOK /\ FdsOK /\ sim.step \in 1 .. 3
      /\ sim.step # 1 => sim.fd \in Fds
      /\ UNCHANGED <<rings, run, srv, handled>>
  BY DEF Typed, ThreadsOK, SimType
<1>2. ASSUME ThreadsOK', sim'.pc \in {"Tick", "Close"}, sim'.pc = "Tick" => sim'.step = 1
      PROVE  RingsOK'
  BY <1>1, <1>2 DEF Typed, RingsOK
<1>3. CASE sim.step = 1
  <2>1. ConnsOK' /\ FdsOK'
    BY <1>1, <1>3 DEF ConnsOK, FdsOK, Quit
  <2>2. CASE cfd = 0
    <3>1. sim' = [sim EXCEPT !.pc = "Tick"]
      BY <1>3, <2>2
    <3>2. sim' \in SimType /\ sim'.pc = "Tick" /\ sim'.step = 1
      BY <1>1, <1>3, <3>1 DEF SimType
    <3>3. ThreadsOK'
      BY <1>1, <3>2 DEF Typed, ThreadsOK, PutSteps
    <3> QED
      BY <1>2, <2>1, <3>2, <3>3 DEF Typed
  <2>3. CASE cfd # 0
    <3>1. sim' = [sim EXCEPT !.step = 2, !.fd = cfd] /\ cfd \in Fds
      BY <1>1, <1>3, <2>3 DEF FdsOK
    <3>2. sim' \in SimType /\ sim'.pc = "Close" /\ sim'.fd = cfd
      <4>1. 2 \in 1 .. 3
        OBVIOUS
      <4> QED
        BY <1>1, <3>1, <4>1 DEF SimType
    <3>3. ThreadsOK'
      BY <1>1, <3>1, <3>2 DEF Typed, ThreadsOK, PutSteps
    <3> QED
      BY <1>2, <2>1, <3>2, <3>3 DEF Typed
  <2> QED
    BY <2>2, <2>3
<1>4. CASE sim.step = 2
  <2>1. sim' = [sim EXCEPT !.step = 3] /\ sim.fd \in Fds
    BY <1>1, <1>4
  <2>2. sim' \in SimType /\ sim'.pc = "Close" /\ sim'.fd = sim.fd
    <3>1. 3 \in 1 .. 3
      OBVIOUS
    <3> QED
      BY <1>1, <2>1, <3>1 DEF SimType
  <2>3. ThreadsOK'
    BY <1>1, <2>1, <2>2 DEF Typed, ThreadsOK, PutSteps
  <2>4. ASSUME NEW c \in Clients
        PROVE  /\ conns'[c] \in ConnType /\ conns'[c].next = conns[c].next
               /\ fds[sim.fd] # c => conns'[c].st = conns[c].st
    <3>1. conns[c] \in ConnType
      BY <1>1 DEF ConnsOK
    <3>2. [conns[c] EXCEPT !.st = "closed"] \in ConnType
          /\ [conns[c] EXCEPT !.st = "closed"].next = conns[c].next
      BY <3>1 DEF ConnType
    <3>3. conns'[c] = IF fds[sim.fd] = c THEN [conns[c] EXCEPT !.st = "closed"] ELSE conns[c]
      BY <1>4
    <3> QED
      BY <3>1, <3>2, <3>3
  <2>5. conns' \in [Clients -> ConnType]
    <3>1. conns' = [c \in Clients |-> IF fds[sim.fd] = c
                                        THEN [conns[c] EXCEPT !.st = "closed"] ELSE conns[c]]
      BY <1>4
    <3>2. conns' = [c \in Clients |-> conns'[c]]
      BY <3>1
    <3> QED
      BY <2>4, <3>2
  <2>6. ConnsOK'
    BY <1>1, <2>4, <2>5 DEF ConnsOK, Quit
  <2>7. FdsOK'
    <3>1. cfd' = cfd /\ fds' = [fds EXCEPT ![sim.fd] = 0]
      BY <1>4
    <3>2. \A n \in Fds : fds'[n] = IF n = sim.fd THEN 0 ELSE fds[n]
      BY <1>1, <3>1 DEF FdsOK
    <3>3. fds' \in [Fds -> {0} \cup Clients]
      BY <1>1, <3>1 DEF FdsOK
    <3>4. ASSUME NEW n \in Fds, fds'[n] # 0
          PROVE  conns'[fds'[n]].st = "open" /\ \A m \in Fds : fds'[m] = fds'[n] => m = n
      <4>1. fds'[n] = fds[n] /\ n # sim.fd /\ fds[n] # 0 /\ fds[n] \in Clients
        BY <1>1, <3>2, <3>4 DEF FdsOK
      <4>2. conns[fds[n]].st = "open" /\ \A m \in Fds : fds[m] = fds[n] => m = n
        BY <1>1, <4>1 DEF FdsOK
      <4>3. fds[sim.fd] # fds[n]
        BY <1>1, <2>1, <4>1, <4>2
      <4>4. conns'[fds[n]].st = "open"
        BY <2>4, <4>1, <4>2, <4>3
      <4> QED
        BY <3>2, <4>1, <4>2, <4>4
    <3> QED
      BY <1>1, <3>1, <3>3, <3>4 DEF FdsOK
  <2> QED
    BY <1>2, <2>2, <2>3, <2>6, <2>7 DEF Typed
<1>5. CASE sim.step = 3
  <2>1. cfd' = 0 /\ SimGo("Tick") /\ UNCHANGED <<fds, conns>>
    BY <1>5
  <2>2. ThreadsOK' /\ sim'.pc = "Tick" /\ sim'.step = 1
    BY <1>1, <2>1, SimGoType DEF Typed, ThreadsOK
  <2>3. ConnsOK' /\ FdsOK'
    BY <1>1, <2>1 DEF ConnsOK, FdsOK, Quit
  <2> QED
    BY <1>2, <2>2, <2>3 DEF Typed
<1> QED
  BY <1>1, <1>3, <1>4, <1>5

LEMMA FinishType == ASSUME Typed, SimFinish \/ SimJoin PROVE Typed'
<1>1. PICK pc \in {"Join", "Done"} : SimGo(pc)
  BY DEF SimFinish, SimJoin
<1>2. /\ UNCHANGED <<rings, cfd, srv, fds, conns, handled>> /\ run' \in BOOLEAN
      /\ sim.pc \in {"Join", "Tick", "Close"} /\ (sim.pc = "Tick" => sim.step = 1)
  BY DEF SimFinish, SimJoin, Typed, ThreadsOK
<1>3. ThreadsOK' /\ sim'.pc = pc /\ sim'.step = 1
  BY <1>1, <1>2, SimGoType
<1>4. RingsOK'
  BY <1>2, <1>3 DEF Typed, RingsOK
<1> QED
  BY <1>2, <1>3, <1>4 DEF Typed, ConnsOK, FdsOK, Quit

(* Every step keeps the types.                                             *)
LEMMA NextTyped == ASSUME Typed, [Next]_vars PROVE Typed'
<1>1. CASE UNCHANGED vars
  BY <1>1 DEF vars, Typed, RingsOK, ThreadsOK, ConnsOK, FdsOK, Quit, PutSteps
<1>2. CASE Client
  BY <1>2, ClientType DEF Client
<1>3. CASE Server
  BY <1>3, ServerTyped
<1>4. CASE Simulation \/ SimFinish
  BY <1>4, SimReadType, SimFullType, SimPutType, SimCloseType, FinishType DEF Simulation
<1> QED
  BY <1>1, <1>2, <1>3, <1>4 DEF Next

(* The types, and one descriptor of an open client, whatever was compiled  *)
(* and whoever connects.                                                   *)
THEOREM TypeCorrect == Spec => []TypeOK
<1>1. Init => Typed
  BY InitInv, Parts
<1>2. Typed /\ [Next]_vars => Typed'
  BY NextTyped
<1>3. Typed => TypeOK
  BY Parts DEF IInv
<1> QED
  BY <1>1, <1>2, <1>3, PTL DEF Spec
-----------------------------------------------------------------------------
(* What % does within one turn of the buffer.                              *)
LEMMA Remainder ==
  ASSUME NEW B \in Nat \ {0}, NEW x \in Int
  PROVE  /\ x \in 0 .. B - 1 => x % B = x
         /\ x = B => x % B = 0
         /\ x \in B .. 2 * B - 1 => x % B = x - B
         /\ x \in 1 - B .. -1 => x % B = x + B
OBVIOUS

(* A ring whose writer is not within the stores of an unoptimised build.   *)
Settled(r) == r \in Ring /\ r.wptr < BufSize
First(r) == IF r.rptr = BufSize THEN 0 ELSE r.rptr
Count(r) == IF r.wptr >= First(r) THEN r.wptr - First(r) ELSE r.wptr - First(r) + BufSize
Slot(k) == IF k < BufSize THEN k ELSE k - BufSize

LEMMA RingFields ==
  ASSUME NEW r, Settled(r)
  PROVE  /\ r.rptr \in 0 .. BufSize /\ r.wptr \in 0 .. BufSize - 1
         /\ r.buf \in [0 .. BufSize - 1 -> Bytes \cup {None}]
         /\ First(r) \in 0 .. BufSize - 1 /\ Count(r) \in 0 .. BufSize - 1
         /\ BufSize \in Nat /\ BufSize > 1
BY SizeAssumption DEF Settled, Ring, First, Count

(* The contents, without remainders.                                       *)
LEMMA ContentsIs ==
  ASSUME NEW r, Settled(r)
  PROVE  /\ Contents(r) = [i \in 1 .. Count(r) |-> r.buf[Slot(First(r) + i - 1)]]
         /\ \A i \in 1 .. Count(r) : Slot(First(r) + i - 1) \in 0 .. BufSize - 1
         /\ Contents(r) \in Seq(Bytes \cup {None})
         /\ Len(Contents(r)) = Count(r)
<1> DEFINE B == BufSize
           n == Count(r)
<1>1. /\ r.rptr \in 0 .. BufSize /\ r.wptr \in 0 .. BufSize - 1
      /\ r.buf \in [0 .. BufSize - 1 -> Bytes \cup {None}]
      /\ First(r) \in 0 .. BufSize - 1 /\ n \in 0 .. BufSize - 1
      /\ B \in Nat /\ B > 1
  BY RingFields
<1>2. r.rptr % B = First(r) /\ r.wptr % B = r.wptr
  <2>1. B \in Nat \ {0} /\ r.wptr \in Int /\ r.rptr \in Int
    BY <1>1
  <2>2. r.wptr % B = r.wptr
    BY <1>1, <2>1, Remainder
  <2>3. r.rptr = B \/ r.rptr \in 0 .. B - 1
    BY <1>1
  <2>4. r.rptr % B = First(r)
    BY <2>1, <2>3, Remainder, <1>1 DEF First
  <2> QED
    BY <2>2, <2>4
<1>3. (r.wptr - First(r)) % B = n
  <2>1. r.wptr - First(r) \in Int /\ B \in Nat \ {0}
    BY <1>1
  <2>2. CASE r.wptr >= First(r)
    <3>1. r.wptr - First(r) \in 0 .. B - 1
      BY <1>1, <2>2
    <3> QED
      BY <2>1, <3>1, <2>2, Remainder DEF Count
  <2>3. CASE ~(r.wptr >= First(r))
    <3>1. r.wptr - First(r) \in 1 - B .. -1
      BY <1>1, <2>3
    <3> QED
      BY <2>1, <3>1, <2>3, Remainder DEF Count
  <2> QED
    BY <2>2, <2>3
<1>4. ASSUME NEW i \in 1 .. n
      PROVE  (First(r) + i - 1) % B = Slot(First(r) + i - 1) /\ Slot(First(r) + i - 1) \in 0 .. B - 1
  <2> DEFINE x == First(r) + i - 1
  <2>1. x \in 0 .. 2 * B - 1 /\ B \in Nat \ {0} /\ x \in Int
    BY <1>1
  <2> HIDE DEF x
  <2>2. CASE x < B
    <3>1. x \in 0 .. B - 1
      BY <2>1, <2>2
    <3> QED
      BY <2>1, <3>1, <2>2, Remainder DEF Slot, x
  <2>3. CASE ~(x < B)
    <3>1. x \in B .. 2 * B - 1
      BY <2>1, <2>3
    <3>2. x - B \in 0 .. B - 1
      BY <2>1, <3>1
    <3>3. x % B = x - B
      BY <2>1, <3>1, Remainder
    <3>4. Slot(x) = x - B
      BY <2>3 DEF Slot
    <3>5. x % B = Slot(x) /\ Slot(x) \in 0 .. B - 1
      BY <3>2, <3>3, <3>4
    <3> QED
      BY <3>5 DEF x
  <2> QED
    BY <2>2, <2>3
<1>5. Contents(r) = [i \in 1 .. n |-> r.buf[(First(r) + i - 1) % B]]
  BY <1>2, <1>3 DEF Contents
<1>6. Contents(r) = [i \in 1 .. n |-> r.buf[Slot(First(r) + i - 1)]]
  BY <1>4, <1>5
<1>7. Contents(r) \in [1 .. n -> Bytes \cup {None}] /\ n \in Nat
  BY <1>1, <1>4, <1>6
<1>8. Contents(r) \in Seq(Bytes \cup {None}) /\ Len(Contents(r)) = n
  <2>1. DOMAIN Contents(r) = 1 .. n
    BY <1>6
  <2> QED
    BY <1>7, <2>1, LenProperties
<1> QED
  BY <1>4, <1>6, <1>8
(* Two sequences with the same length and elements are one sequence.       *)
LEMMA SameSeq ==
  ASSUME NEW S, NEW s \in Seq(S), NEW t \in Seq(S), Len(s) = Len(t),
         \A i \in 1 .. Len(s) : s[i] = t[i]
  PROVE  s = t
BY LenProperties

(* What is known of the elements of the contents.                          *)
LEMMA Element ==
  ASSUME NEW r, Settled(r), NEW i \in 1 .. Count(r)
  PROVE  Contents(r)[i] = r.buf[Slot(First(r) + i - 1)]
BY ContentsIs

(* A buffer that is not full has room for one element besides the one that *)
(* the reader has begun to take.                                           *)
LEMMA Room ==
  ASSUME NEW r, Settled(r), ~Full(r)
  PROVE  /\ Count(r) <= BufSize - 2
         /\ r.rptr >= 1 => r.wptr # r.rptr - 1
BY RingFields DEF Full, Count, First

(* The first store of taking an element.                                   *)
LEMMA Take ==
  ASSUME NEW r, Settled(r), r.rptr < BufSize, ~Empty(r)
  PROVE  LET q == [r EXCEPT !.rptr = @ + 1] IN
         /\ Settled(q) /\ q.rptr \in 1 .. BufSize /\ q.buf = r.buf /\ q.wptr = r.wptr
         /\ <<q.buf[q.rptr - 1]>> \o Contents(q) = Contents(r)
         /\ ~Full(r) => ~Full(q)
<1> DEFINE q == [r EXCEPT !.rptr = @ + 1]
           S == Bytes \cup {None}
<1>1. /\ r.rptr \in 0 .. BufSize - 1 /\ r.wptr \in 0 .. BufSize - 1
      /\ r.buf \in [0 .. BufSize - 1 -> Bytes \cup {None}]
      /\ BufSize \in Nat /\ BufSize > 1 /\ r.rptr # r.wptr
  BY RingFields DEF Empty
<1>2. q \in Ring /\ q.rptr = r.rptr + 1 /\ q.wptr = r.wptr /\ q.buf = r.buf
  BY <1>1 DEF Settled, Ring
<1>3. Settled(q)
  BY <1>1, <1>2 DEF Settled
<1> HIDE DEF q
<1>4. /\ First(r) = r.rptr /\ First(q) = IF r.rptr + 1 = BufSize THEN 0 ELSE r.rptr + 1
      /\ Count(q) = Count(r) - 1 /\ Count(r) \in Nat /\ Count(q) \in Nat
  <2>1. First(r) = r.rptr /\ First(q) = IF r.rptr + 1 = BufSize THEN 0 ELSE r.rptr + 1
    BY <1>1, <1>2 DEF First
  <2>2. CASE r.wptr >= r.rptr
    <3>1. Count(r) = r.wptr - r.rptr /\ r.rptr + 1 <= r.wptr /\ First(q) = r.rptr + 1
      BY <1>1, <2>1, <2>2 DEF Count
    <3>2. Count(q) = r.wptr - (r.rptr + 1)
      BY <1>1, <1>2, <3>1 DEF Count
    <3> QED
      BY <1>1, <2>1, <3>1, <3>2
  <2>3. CASE ~(r.wptr >= r.rptr)
    <3>1. Count(r) = r.wptr - r.rptr + BufSize
      BY <1>1, <2>1, <2>3 DEF Count
    <3>2. Count(q) = r.wptr - (r.rptr + 1) + BufSize
      <4>1. CASE r.rptr + 1 = BufSize
        BY <1>1, <1>2, <2>1, <4>1 DEF Count
      <4>2. CASE r.rptr + 1 # BufSize
        <5>1. First(q) = r.rptr + 1 /\ ~(q.wptr >= First(q))
          BY <1>1, <1>2, <2>1, <2>3, <4>2
        <5> QED
          BY <5>1, <1>2 DEF Count
      <4> QED
        BY <4>1, <4>2
    <3>3. Count(q) = Count(r) - 1
      BY <1>1, <3>1, <3>2
    <3>4. Count(r) \in Nat /\ Count(r) > 0
      BY <1>1, <3>1
    <3>5. Count(q) \in Nat
      BY <3>3, <3>4
    <3> QED
      BY <2>1, <3>3, <3>4, <3>5
  <2> QED
    BY <2>2, <2>3
<1>5. Contents(q) \in Seq(S) /\ Len(Contents(q)) = Count(q)
  BY <1>3, ContentsIs
<1>6. Contents(r) \in Seq(S) /\ Len(Contents(r)) = Count(r)
  BY ContentsIs
<1>7. q.buf[q.rptr - 1] = r.buf[r.rptr] /\ r.buf[r.rptr] \in S
  BY <1>1, <1>2
<1> DEFINE t == <<q.buf[q.rptr - 1]>> \o Contents(q)
<1>8. t \in Seq(S) /\ Len(t) = Count(r)
      /\ \A i \in 1 .. Len(t) : t[i] = IF i = 1 THEN r.buf[r.rptr] ELSE Contents(q)[i - 1]
  BY <1>4, <1>5, <1>7
<1>9. ASSUME NEW i \in 1 .. Len(t)
      PROVE  t[i] = Contents(r)[i]
  <2>1. i \in 1 .. Count(r) /\ Contents(r)[i] = r.buf[Slot(First(r) + i - 1)]
    BY <1>8, Element
  <2>2. CASE i = 1
    BY <2>1, <2>2, <1>1, <1>8 DEF Slot, First
  <2>3. CASE i # 1
    <3>1. i - 1 \in 1 .. Count(q)
      BY <2>1, <2>3, <1>4
    <3>2. Contents(q)[i - 1] = q.buf[Slot(First(q) + i - 1 - 1)]
      BY <3>1, <1>3, Element
    <3>3. Slot(First(q) + i - 1 - 1) = Slot(First(r) + i - 1)
      <4>1. i \in Nat /\ i > 1 /\ BufSize \in Nat /\ r.rptr \in Nat
        BY <1>1, <1>4, <2>1, <2>3
      <4>2. CASE r.rptr + 1 = BufSize
        <5>1. First(q) = 0 /\ Count(q) < BufSize /\ i <= Count(q) + 1
          BY <1>3, <1>4, <2>1, <4>1, <4>2, RingFields
        <5>2. Slot(First(q) + i - 1 - 1) = i - 1 - 1
          BY <5>1, <4>1, <1>4 DEF Slot
        <5>3. Slot(First(r) + i - 1) = r.rptr + i - 1 - BufSize
          BY <1>4, <4>1, <4>2 DEF Slot
        <5> QED
          BY <5>2, <5>3, <4>1, <4>2
      <4>3. CASE r.rptr + 1 # BufSize
        <5>1. First(q) + i - 1 - 1 = First(r) + i - 1
          BY <1>4, <4>1, <4>3
        <5> QED
          BY <5>1
      <4> QED
        BY <4>2, <4>3
    <3> QED
      BY <3>2, <3>3, <2>1, <2>3, <1>2, <1>8
  <2> QED
    BY <2>2, <2>3
<1>10. t = Contents(r)
  BY <1>6, <1>8, <1>9, SameSeq
<1>11. ~Full(r) => ~Full(q)
  BY <1>1, <1>2 DEF Full
<1>12. q.rptr \in 1 .. BufSize
  BY <1>1, <1>2
<1> QED
  BY <1>2, <1>3, <1>10, <1>11, <1>12 DEF q

(* The last store of taking an element.                                    *)
LEMMA Wrap ==
  ASSUME NEW r, Settled(r)
  PROVE  LET q == [r EXCEPT !.rptr = @ % BufSize] IN
         /\ Settled(q) /\ q.rptr \in 0 .. BufSize - 1 /\ q.buf = r.buf /\ q.wptr = r.wptr
         /\ Contents(q) = Contents(r)
         /\ ~Full(r) => ~Full(q)
<1> DEFINE q == [r EXCEPT !.rptr = @ % BufSize]
<1>1. /\ r.rptr \in 0 .. BufSize /\ r.wptr \in 0 .. BufSize - 1
      /\ r.buf \in [0 .. BufSize - 1 -> Bytes \cup {None}]
      /\ BufSize \in Nat \ {0} /\ BufSize > 1
  BY RingFields
<1>2. r.rptr % BufSize = First(r)
  <2>1. r.rptr \in Int /\ (r.rptr = BufSize \/ r.rptr \in 0 .. BufSize - 1)
    BY <1>1
  <2> QED
    BY <1>1, <2>1, Remainder DEF First
<1>3. First(r) \in 0 .. BufSize - 1
  BY <1>1 DEF First
<1>4. q \in Ring /\ q.rptr = First(r) /\ q.wptr = r.wptr /\ q.buf = r.buf
  BY <1>1, <1>2, <1>3 DEF Settled, Ring
<1>5. Settled(q)
  BY <1>1, <1>4 DEF Settled
<1> HIDE DEF q
<1>6. First(q) = First(r) /\ Count(q) = Count(r)
  BY <1>3, <1>4 DEF First, Count
<1>7. Contents(q) = Contents(r)
  BY <1>4, <1>5, <1>6, ContentsIs
<1>8. ~Full(r) => ~Full(q)
  BY <1>1, <1>4 DEF Full, First
<1> QED
  BY <1>3, <1>4, <1>5, <1>7, <1>8 DEF q

(* Storing the byte at the write index changes nothing that is read.       *)
LEMMA StoreByte ==
  ASSUME NEW r, Settled(r), ~Full(r), NEW b \in Bytes \cup {None}
  PROVE  LET q == Store(r, r.wptr, b) IN
         /\ Settled(q) /\ q.rptr = r.rptr /\ q.wptr = r.wptr
         /\ Contents(q) = Contents(r) /\ q.buf[q.wptr] = b /\ ~Full(q)
         /\ r.rptr >= 1 => q.buf[q.rptr - 1] = r.buf[r.rptr - 1]
<1> DEFINE q == Store(r, r.wptr, b)
<1>1. /\ r.rptr \in 0 .. BufSize /\ r.wptr \in 0 .. BufSize - 1
      /\ r.buf \in [0 .. BufSize - 1 -> Bytes \cup {None}]
      /\ First(r) \in 0 .. BufSize - 1 /\ Count(r) \in 0 .. BufSize - 1
      /\ BufSize \in Nat /\ BufSize > 1
  BY RingFields
<1>2. q \in Ring /\ q.rptr = r.rptr /\ q.wptr = r.wptr /\ q.buf = [r.buf EXCEPT ![r.wptr] = b]
  BY <1>1 DEF Settled, Ring, Store
<1>3. Settled(q)
  BY <1>1, <1>2 DEF Settled
<1> HIDE DEF q
<1>4. First(q) = First(r) /\ Count(q) = Count(r) /\ ~Full(q)
  BY <1>2 DEF First, Count, Full
<1>5. Count(r) <= BufSize - 2 /\ (r.rptr >= 1 => r.wptr # r.rptr - 1)
  BY Room
<1>6. ASSUME NEW i \in 1 .. Count(r)
      PROVE  Contents(q)[i] = Contents(r)[i]
  <2>1. Slot(First(r) + i - 1) # r.wptr /\ Slot(First(r) + i - 1) \in 0 .. BufSize - 1
    <3>1. Slot(First(r) + i - 1) \in 0 .. BufSize - 1
      BY ContentsIs
    <3>2. Slot(First(r) + i - 1) # r.wptr
      BY <1>1 DEF Slot, Count
    <3> QED
      BY <3>1, <3>2
  <2>2. Contents(q)[i] = q.buf[Slot(First(r) + i - 1)]
    BY <1>3, <1>4, Element
  <2> QED
    BY <1>1, <1>2, <2>1, <2>2, Element
<1>7. Contents(q) = Contents(r)
  <2>1. /\ Contents(q) \in Seq(Bytes \cup {None}) /\ Len(Contents(q)) = Count(r)
        /\ Contents(r) \in Seq(Bytes \cup {None}) /\ Len(Contents(r)) = Count(r)
    BY <1>3, <1>4, ContentsIs
  <2> QED
    BY <1>6, <2>1, SameSeq
<1>8. r.rptr >= 1 => q.buf[q.rptr - 1] = r.buf[r.rptr - 1]
  BY <1>1, <1>2, <1>5
<1> QED
  BY <1>1, <1>2, <1>3, <1>4, <1>7, <1>8 DEF q

(* Storing the write index adds the byte.                                  *)
LEMMA StoreIndex ==
  ASSUME NEW r, Settled(r), ~Full(r)
  PROVE  LET q == [r EXCEPT !.wptr = (@ + 1) % BufSize] IN
         /\ Settled(q) /\ q.rptr = r.rptr /\ q.buf = r.buf
         /\ Contents(q) = Append(Contents(r), r.buf[r.wptr])
<1> DEFINE q == [r EXCEPT !.wptr = (@ + 1) % BufSize]
           S == Bytes \cup {None}
<1>1. /\ r.rptr \in 0 .. BufSize /\ r.wptr \in 0 .. BufSize - 1
      /\ r.buf \in [0 .. BufSize - 1 -> Bytes \cup {None}]
      /\ First(r) \in 0 .. BufSize - 1 /\ Count(r) \in 0 .. BufSize - 1
      /\ BufSize \in Nat \ {0} /\ BufSize > 1
  BY RingFields
<1>2. (r.wptr + 1) % BufSize = Slot(r.wptr + 1) /\ Slot(r.wptr + 1) \in 0 .. BufSize - 1
  <2>1. r.wptr + 1 \in Int /\ (r.wptr + 1 = BufSize \/ r.wptr + 1 \in 0 .. BufSize - 1)
    BY <1>1
  <2>2. CASE r.wptr + 1 = BufSize
    <3>1. (r.wptr + 1) % BufSize = 0
      BY <1>1, <2>1, <2>2, Remainder
    <3> QED
      BY <1>1, <2>2, <3>1 DEF Slot
  <2>3. CASE r.wptr + 1 \in 0 .. BufSize - 1
    <3>1. (r.wptr + 1) % BufSize = r.wptr + 1
      BY <1>1, <2>1, <2>3, Remainder
    <3> QED
      BY <1>1, <2>3, <3>1 DEF Slot
  <2> QED
    BY <2>1, <2>2, <2>3
<1>3. q \in Ring /\ q.rptr = r.rptr /\ q.wptr = Slot(r.wptr + 1) /\ q.buf = r.buf
  BY <1>1, <1>2 DEF Settled, Ring
<1>4. Settled(q)
  BY <1>1, <1>2, <1>3 DEF Settled
<1> HIDE DEF q
<1>5. Count(r) <= BufSize - 2
  BY Room
<1>6. First(q) = First(r) /\ Count(q) = Count(r) + 1
  BY <1>1, <1>3, <1>5 DEF First, Count, Slot
<1>7. /\ Contents(q) \in Seq(S) /\ Len(Contents(q)) = Count(r) + 1
      /\ Contents(r) \in Seq(S) /\ Len(Contents(r)) = Count(r)
  BY <1>4, <1>6, ContentsIs
<1> DEFINE t == Append(Contents(r), r.buf[r.wptr])
<1>8. /\ t \in Seq(S) /\ Len(t) = Count(r) + 1
      /\ \A i \in 1 .. Len(t) : t[i] = IF i <= Count(r) THEN Contents(r)[i] ELSE r.buf[r.wptr]
  <2>1. r.buf[r.wptr] \in S
    BY <1>1
  <2> QED
    BY <1>1, <1>7, <2>1
<1>9. ASSUME NEW i \in 1 .. Len(t)
      PROVE  Contents(q)[i] = t[i]
  <2>1. i \in 1 .. Count(q) /\ Contents(q)[i] = r.buf[Slot(First(r) + i - 1)]
    BY <1>3, <1>4, <1>6, <1>8, Element
  <2>2. CASE i <= Count(r)
    <3>1. i \in 1 .. Count(r)
      BY <2>1, <2>2, <1>1, <1>6
    <3> QED
      BY <3>1, <2>1, <2>2, <1>8, Element
  <2>3. CASE ~(i <= Count(r))
    <3>1. i = Count(r) + 1
      BY <2>1, <2>3, <1>1, <1>6
    <3>2. Slot(First(r) + i - 1) = r.wptr
      <4>1. First(r) + i - 1 = First(r) + Count(r)
        BY <3>1, <1>1
      <4>2. CASE r.wptr >= First(r)
        <5>1. First(r) + Count(r) = r.wptr
          BY <1>1, <4>2 DEF Count
        <5> QED
          BY <1>1, <4>1, <5>1 DEF Slot
      <4>3. CASE ~(r.wptr >= First(r))
        <5>1. First(r) + Count(r) = r.wptr + BufSize
          BY <1>1, <4>3 DEF Count
        <5> QED
          BY <1>1, <4>1, <5>1 DEF Slot
      <4> QED
        BY <4>2, <4>3
    <3> QED
      BY <3>2, <2>1, <2>3, <1>8
  <2> QED
    BY <2>2, <2>3
<1>10. Contents(q) = t
  BY <1>7, <1>8, <1>9, SameSeq
<1> QED
  BY <1>3, <1>4, <1>10 DEF q
-----------------------------------------------------------------------------
(* What a sequence carries of a client, byte by byte.                      *)
LEMMA CarriesEach ==
  ASSUME NEW s \in Seq(Bytes), NEW c, NEW N, Carries(s, c, N), NEW i \in DOMAIN s, s[i][1] = c
  PROVE  s[i][2] \in N /\ s[i][2] \in Nat
<1>1. s[i] \in Bytes
  BY LenProperties
<1> QED
  BY <1>1 DEF Carries, NumbersOf, Of, Bytes

LEMMA CarriesFrom ==
  ASSUME NEW s \in Seq(Bytes), NEW c, NEW N, Carries(s, c, N), NEW x \in N
  PROVE  \E i \in DOMAIN s : s[i][1] = c /\ s[i][2] = x
BY DEF Carries, NumbersOf, Of

(* A byte of the client after those with a smaller number, and a byte of   *)
(* another client.                                                         *)
LEMMA CarriesAppend ==
  ASSUME NEW s \in Seq(Bytes), NEW c, NEW N, Carries(s, c, N), NEW b \in Bytes,
         b[1] = c, \A x \in N : x < b[2]
  PROVE  Carries(Append(s, b), c, N \cup {b[2]})
<1> DEFINE t == Append(s, b)
<1>1. /\ t \in Seq(Bytes) /\ Len(s) \in Nat /\ DOMAIN s = 1 .. Len(s)
      /\ DOMAIN t = 1 .. Len(s) + 1
      /\ \A i \in DOMAIN t : t[i] = IF i = Len(s) + 1 THEN b ELSE s[i]
  BY AppendProperties, LenProperties
<1> HIDE DEF t
<1>2. ASSUME NEW i \in Of(t, c), NEW j \in Of(t, c), i < j
      PROVE  t[i][2] < t[j][2]
  <2>1. i \in DOMAIN s /\ i \in Of(s, c) /\ t[i] = s[i]
    BY <1>1, <1>2 DEF Of
  <2>2. CASE j = Len(s) + 1
    BY <1>1, <1>2, <2>1, <2>2, CarriesEach DEF Of
  <2>3. CASE j # Len(s) + 1
    <3>1. j \in Of(s, c) /\ t[j] = s[j]
      BY <1>1, <1>2, <2>3 DEF Of
    <3> QED
      BY <2>1, <3>1, <1>2 DEF Carries, NumbersOf
  <2> QED
    BY <2>2, <2>3
<1>3. ASSUME NEW i \in Of(t, c)
      PROVE  t[i][2] \in N \cup {b[2]}
  BY <1>1, CarriesEach DEF Of
<1>4. ASSUME NEW x \in N \cup {b[2]}
      PROVE  \E i \in Of(t, c) : t[i][2] = x
  <2>1. CASE x \in N
    <3>1. PICK i \in DOMAIN s : s[i][1] = c /\ s[i][2] = x
      BY <2>1, CarriesFrom
    <3>2. i \in DOMAIN t /\ t[i] = s[i]
      BY <1>1
    <3> QED
      BY <3>1, <3>2 DEF Of
  <2>2. CASE x = b[2]
    <3>1. Len(s) + 1 \in DOMAIN t /\ t[Len(s) + 1] = b
      BY <1>1
    <3> QED
      BY <2>2, <3>1 DEF Of
  <2> QED
    BY <2>1, <2>2
<1>5. {t[i][2] : i \in Of(t, c)} = N \cup {b[2]}
  BY <1>3, <1>4
<1> QED
  BY <1>2, <1>5 DEF Carries, NumbersOf, t

LEMMA CarriesOther ==
  ASSUME NEW s \in Seq(Bytes), NEW c, NEW N, Carries(s, c, N), NEW b \in Bytes, b[1] # c
  PROVE  Carries(Append(s, b), c, N)
<1> DEFINE t == Append(s, b)
<1>1. /\ t \in Seq(Bytes) /\ Len(s) \in Nat /\ DOMAIN s = 1 .. Len(s)
      /\ DOMAIN t = 1 .. Len(s) + 1
      /\ \A i \in DOMAIN t : t[i] = IF i = Len(s) + 1 THEN b ELSE s[i]
  BY AppendProperties, LenProperties
<1> HIDE DEF t
<1>2. Of(t, c) = Of(s, c) /\ \A i \in Of(t, c) : t[i] = s[i]
  BY <1>1 DEF Of
<1> QED
  BY <1>2 DEF Carries, NumbersOf, t

(* The first byte is taken.                                                *)
LEMMA CarriesTail ==
  ASSUME NEW s \in Seq(Bytes), s # <<>>, NEW c, NEW N, Carries(s, c, N)
  PROVE  /\ Head(s) \in Bytes /\ Tail(s) \in Seq(Bytes)
         /\ Head(s)[1] = c => /\ Head(s)[2] \in N
                              /\ \A x \in N : x >= Head(s)[2]
                              /\ Carries(Tail(s), c, N \ {Head(s)[2]})
         /\ Head(s)[1] # c => Carries(Tail(s), c, N)
<1> DEFINE t == Tail(s)
           m == Head(s)[2]
<1>1. /\ t \in Seq(Bytes) /\ Head(s) \in Bytes /\ Head(s) = s[1] /\ 1 \in DOMAIN s
      /\ Len(s) \in Nat /\ DOMAIN s = 1 .. Len(s) /\ DOMAIN t = 1 .. Len(s) - 1
      /\ \A i \in DOMAIN t : t[i] = s[i + 1]
  BY HeadTailProperties, LenProperties, EmptySeq
<1> HIDE DEF t
<1>2. ASSUME NEW i \in Of(t, c)
      PROVE  i \in Nat /\ i + 1 \in Of(s, c) /\ i + 1 # 1 /\ t[i] = s[i + 1]
  BY <1>1 DEF Of
<1>3. ASSUME NEW j \in Of(s, c), j # 1
      PROVE  j - 1 \in Of(t, c) /\ t[j - 1] = s[j]
  <2>1. j \in 1 .. Len(s) /\ j - 1 \in DOMAIN t /\ t[j - 1] = s[j - 1 + 1]
    BY <1>1, <1>3 DEF Of
  <2>2. j - 1 + 1 = j
    BY <2>1
  <2> QED
    BY <2>1, <2>2 DEF Of
<1>4. ASSUME NEW i \in Of(t, c), NEW j \in Of(t, c), i < j
      PROVE  t[i][2] < t[j][2]
  <2>1. i \in Nat /\ j \in Nat /\ i + 1 \in Of(s, c) /\ j + 1 \in Of(s, c)
        /\ t[i] = s[i + 1] /\ t[j] = s[j + 1]
    BY <1>2
  <2>2. i + 1 < j + 1
    BY <1>4, <2>1
  <2> QED
    BY <2>1, <2>2 DEF Carries, NumbersOf
<1>5. ASSUME Head(s)[1] = c
      PROVE  m \in N /\ (\A x \in N : x >= m) /\ Carries(t, c, N \ {m})
  <2>1. 1 \in Of(s, c) /\ s[1][2] = m
    BY <1>1, <1>5 DEF Of
  <2>2. m \in N /\ m \in Nat
    BY <2>1, CarriesEach DEF Of
  <2>3. ASSUME NEW j \in Of(s, c), j # 1
        PROVE  s[j][2] > m /\ s[j][2] \in Nat
    <3>1. j > 1
      BY <1>1, <2>3 DEF Of
    <3>2. s[1][2] < s[j][2]
      BY <2>1, <3>1 DEF Carries, NumbersOf
    <3>3. s[j][2] \in Nat
      BY <2>3, CarriesEach DEF Of
    <3> QED
      BY <2>1, <2>2, <3>2, <3>3
  <2>4. ASSUME NEW x \in N
        PROVE  x >= m /\ (x # m => \E i \in Of(t, c) : t[i][2] = x)
    <3>1. PICK j \in DOMAIN s : s[j][1] = c /\ s[j][2] = x
      BY CarriesFrom
    <3>2. j \in Of(s, c)
      BY <3>1 DEF Of
    <3>3. CASE j = 1
      BY <3>1, <3>3, <2>1, <2>2
    <3>4. CASE j # 1
      BY <3>1, <3>2, <3>4, <2>2, <2>3, <1>3
    <3> QED
      BY <3>3, <3>4
  <2>5. ASSUME NEW i \in Of(t, c)
        PROVE  t[i][2] \in N \ {m}
    <3>1. i + 1 \in Of(s, c) /\ i + 1 # 1 /\ t[i] = s[i + 1]
      BY <1>2
    <3>2. s[i + 1][2] \in N
      BY <3>1, CarriesEach DEF Of
    <3> QED
      BY <3>1, <3>2, <2>2, <2>3
  <2>6. {t[i][2] : i \in Of(t, c)} = N \ {m}
    BY <2>4, <2>5
  <2> QED
    BY <2>2, <2>4, <2>6, <1>4 DEF Carries, NumbersOf
<1>6. ASSUME Head(s)[1] # c
      PROVE  Carries(t, c, N)
  <2>1. 1 \notin Of(s, c)
    BY <1>1, <1>6 DEF Of
  <2>2. ASSUME NEW x \in N
        PROVE  \E i \in Of(t, c) : t[i][2] = x
    <3>1. PICK j \in DOMAIN s : s[j][1] = c /\ s[j][2] = x
      BY CarriesFrom
    <3>2. j \in Of(s, c) /\ j # 1
      BY <3>1, <2>1 DEF Of
    <3> QED
      BY <3>1, <3>2, <1>3
  <2>3. ASSUME NEW i \in Of(t, c)
        PROVE  t[i][2] \in N
    <3>1. i + 1 \in Of(s, c) /\ t[i] = s[i + 1]
      BY <1>2
    <3> QED
      BY <3>1, CarriesEach DEF Of
  <2>4. {t[i][2] : i \in Of(t, c)} = N
    BY <2>2, <2>3
  <2> QED
    BY <2>4, <1>4 DEF Carries, NumbersOf
<1> QED
  BY <1>1, <1>5, <1>6 DEF t

(* One sequence after another.                                             *)
LEMMA CarriesConcat ==
  ASSUME NEW s \in Seq(Bytes), NEW t \in Seq(Bytes), NEW c, NEW M, NEW N,
         Carries(s, c, M), Carries(t, c, N), \A x \in M, y \in N : x < y
  PROVE  Carries(s \o t, c, M \cup N)
<1> DEFINE u == s \o t
<1>1. /\ Len(s) \in Nat /\ Len(t) \in Nat /\ DOMAIN s = 1 .. Len(s) /\ DOMAIN t = 1 .. Len(t)
      /\ DOMAIN u = 1 .. Len(s) + Len(t)
      /\ \A i \in DOMAIN u : u[i] = IF i <= Len(s) THEN s[i] ELSE t[i - Len(s)]
  BY ConcatProperties, LenProperties
<1> HIDE DEF u
<1>2. ASSUME NEW i \in Of(u, c)
      PROVE  /\ i \in Nat
             /\ \/ i <= Len(s) /\ i \in Of(s, c) /\ u[i] = s[i] /\ u[i][2] \in M
                \/ i > Len(s) /\ i - Len(s) \in Of(t, c) /\ u[i] = t[i - Len(s)] /\ u[i][2] \in N
  <2>1. i \in DOMAIN u /\ i \in 1 .. Len(s) + Len(t) /\ u[i][1] = c
    BY <1>1 DEF Of
  <2>2. CASE i <= Len(s)
    <3>1. i \in DOMAIN s /\ u[i] = s[i]
      BY <1>1, <2>1, <2>2
    <3> QED
      BY <2>1, <2>2, <3>1, CarriesEach DEF Of
  <2>3. CASE i > Len(s)
    <3>1. i - Len(s) \in DOMAIN t /\ u[i] = t[i - Len(s)]
      BY <1>1, <2>1, <2>3
    <3>2. i - Len(s) \in Of(t, c) /\ t[i - Len(s)][2] \in N
      BY <2>1, <3>1, CarriesEach DEF Of
    <3> QED
      BY <2>1, <2>3, <3>1, <3>2
  <2> QED
    BY <2>1, <2>2, <2>3, <1>1
<1>3. ASSUME NEW i \in Of(u, c), NEW j \in Of(u, c), i < j
      PROVE  u[i][2] < u[j][2]
  <2>1. CASE j <= Len(s)
    <3>1. i <= Len(s)
      BY <1>1, <1>2, <1>3, <2>1
    <3>2. i \in Of(s, c) /\ j \in Of(s, c) /\ u[i] = s[i] /\ u[j] = s[j]
      BY <1>1, <1>2, <2>1, <3>1
    <3> QED
      BY <3>2, <1>3 DEF Carries, NumbersOf
  <2>2. CASE j > Len(s) /\ i <= Len(s)
    <3>1. u[i][2] \in M /\ u[j][2] \in N
      BY <1>1, <1>2, <2>2
    <3> QED
      BY <3>1
  <2>3. CASE i > Len(s)
    <3>1. i \in Nat /\ j \in Nat /\ j > Len(s)
      BY <1>1, <1>2, <1>3, <2>3
    <3>2. i - Len(s) \in Of(t, c) /\ j - Len(s) \in Of(t, c)
          /\ u[i] = t[i - Len(s)] /\ u[j] = t[j - Len(s)]
      BY <1>1, <1>2, <2>3, <3>1
    <3>3. i - Len(s) < j - Len(s)
      BY <1>1, <1>3, <3>1
    <3> QED
      BY <3>2, <3>3 DEF Carries, NumbersOf
  <2> QED
    BY <1>1, <1>2, <2>1, <2>2, <2>3
<1>4. ASSUME NEW x \in M \cup N
      PROVE  \E i \in Of(u, c) : u[i][2] = x
  <2>1. CASE x \in M
    <3>1. PICK i \in DOMAIN s : s[i][1] = c /\ s[i][2] = x
      BY <2>1, CarriesFrom
    <3>2. i \in DOMAIN u /\ u[i] = s[i]
      BY <1>1
    <3> QED
      BY <3>1, <3>2 DEF Of
  <2>2. CASE x \in N
    <3>1. PICK i \in DOMAIN t : t[i][1] = c /\ t[i][2] = x
      BY <2>2, CarriesFrom
    <3>2. Len(s) + i \in DOMAIN u /\ u[Len(s) + i] = t[i]
      <4>1. i \in 1 .. Len(t) /\ Len(s) + i \in DOMAIN u /\ ~(Len(s) + i <= Len(s))
        BY <1>1
      <4>2. Len(s) + i - Len(s) = i
        BY <1>1, <4>1
      <4> QED
        BY <1>1, <4>1, <4>2
    <3> QED
      BY <3>1, <3>2 DEF Of
  <2> QED
    BY <2>1, <2>2
<1>5. {u[i][2] : i \in Of(u, c)} = M \cup N
  BY <1>2, <1>4
<1> QED
  BY <1>3, <1>5 DEF Carries, NumbersOf, u

(* Nothing carries nothing.                                                *)
LEMMA CarriesNone ==
  ASSUME NEW c
  PROVE  Carries(<<>>, c, {})
BY DEF Carries, NumbersOf, Of
-----------------------------------------------------------------------------
(* An optimised build: the byte is stored before the index.                *)
LEMMA Optimised ==
  ASSUME Typed, Build = "O2"
  PROVE  /\ Settled(rings.in) /\ Settled(rings.out)
         /\ DOMAIN PutSteps = 1 .. 2 /\ Len(PutSteps) = 2
         /\ PutSteps[1] = "byte" /\ PutSteps[2] = "both"
         /\ rings = [in |-> rings.in, out |-> rings.out]
<1>1. Build # "O0"
  OBVIOUS
<1>2. BufSize \in Nat
  BY SizeAssumption
<1>3. /\ rings.in \in Ring /\ rings.out \in Ring
      /\ rings.in.wptr \in 0 .. BufSize - 1 /\ rings.out.wptr \in 0 .. BufSize - 1
  BY <1>1, RingsSplit DEF Typed, RingsOK
<1> QED
  BY <1>1, <1>2, <1>3, StepsOf, RingsSplit DEF Typed, Settled

LEMMA ConcatFirst ==
  ASSUME NEW x \in Bytes \cup {None}, NEW s \in Seq(Bytes \cup {None}), NEW t \in Seq(Bytes \cup {None})
  PROVE  /\ (<<x>> \o s) \o t = <<x>> \o (s \o t)
         /\ <<x>> \o s \in Seq(Bytes \cup {None}) /\ <<x>> \o s # <<>>
         /\ Head(<<x>> \o s) = x /\ Tail(<<x>> \o s) = s
         /\ s \o <<x>> = Append(s, x) /\ <<>> \o s = s /\ s \o <<>> = s
         /\ t \o Append(s, x) = Append(t \o s, x)
<1> DEFINE S == Bytes \cup {None}
<1>1. <<x>> \in Seq(S) /\ Len(<<x>>) = 1 /\ <<x>>[1] = x
  OBVIOUS
<1>2. <<x>> \o s \in Seq(S) /\ Len(<<x>> \o s) = 1 + Len(s) /\ Len(s) \in Nat
  BY <1>1, ConcatProperties, LenProperties
<1>3. <<x>> \o s # <<>> /\ (<<x>> \o s)[1] = x
  BY <1>1, <1>2, ConcatProperties
<1>4. Tail(<<x>> \o s) = s
  <2>1. Tail(<<x>> \o s) \in Seq(S) /\ Len(Tail(<<x>> \o s)) = Len(s)
    BY <1>2, <1>3, HeadTailProperties
  <2>2. \A i \in 1 .. Len(s) : Tail(<<x>> \o s)[i] = s[i]
    BY <1>1, <1>2, <1>3, HeadTailProperties, ConcatProperties
  <2> QED
    BY <2>1, <2>2, SameSeq
<1>5. (<<x>> \o s) \o t = <<x>> \o (s \o t)
  BY <1>1, ConcatAssociative
<1>6. s \o <<x>> = Append(s, x) /\ <<>> \o s = s /\ s \o <<>> = s
  BY AppendIsConcat, ConcatEmptySeq
<1>7. t \o Append(s, x) = Append(t \o s, x)
  <2>1. t \o s \in Seq(S)
    BY ConcatProperties
  <2>2. t \o (s \o <<x>>) = (t \o s) \o <<x>>
    BY <1>1, ConcatAssociative
  <2> QED
    BY <1>6, <2>1, <2>2, AppendIsConcat
<1> QED
  BY <1>2, <1>3, <1>4, <1>5, <1>6, <1>7, HeadTailProperties

LEMMA FirstOf ==
  ASSUME NEW x \in Bytes \cup {None}, NEW s \in Seq(Bytes \cup {None})
  PROVE  <<x>> \o s # <<>> /\ Head(<<x>> \o s) = x /\ Tail(<<x>> \o s) = s
BY ConcatFirst

(* SrvPut moves the byte that the socket thread holds into the contents.   *)
LEMMA PutInbound ==
  ASSUME Typed, Build = "O2", SpaceIn, StoredIn, SrvPut
  PROVE  /\ Inbound' = Inbound /\ SpaceIn' /\ StoredIn'
         /\ srv'.pc = "Put" => ~Full(rings.in)'
<1> DEFINE S == Bytes \cup {None}
           r == rings.in
           b == srv.byte
<1>1. /\ Settled(r) /\ ~Full(r) /\ srv.pc = "Put" /\ srv.step \in 1 .. 2 /\ b \in S /\ srv \in SrvType
      /\ Len(PutSteps) = 2 /\ rings = [in |-> rings.in, out |-> rings.out]
      /\ PutSteps[1] = "byte" /\ PutSteps[2] = "both" /\ r.rptr \in 0 .. BufSize
      /\ (sim.pc = "Tick" /\ sim.step = 2 => r.rptr >= 1)
      /\ sim' = sim
  BY Optimised, SizeAssumption DEF Typed, RingsOK, ThreadsOK, SrvType, SrvPut, SpaceIn, Settled, Ring
<1>2. Contents(r) \in Seq(S)
  BY <1>1, ContentsIs
<1> DEFINE P == IF sim.pc = "Tick" /\ sim.step = 2 THEN <<r.buf[r.rptr - 1]>> ELSE <<>>
<1>3. P \in Seq(S)
  <2>1. sim.pc = "Tick" /\ sim.step = 2 => r.buf[r.rptr - 1] \in S
    <3>1. ASSUME sim.pc = "Tick" /\ sim.step = 2
          PROVE  r.rptr - 1 \in 0 .. BufSize - 1
      BY <1>1, <3>1, SizeAssumption
    <3> QED
      BY <3>1, <1>1, RingFields
  <2>2. \A x \in S : <<x>> \in Seq(S)
    OBVIOUS
  <2>3. <<>> \in Seq(S)
    BY EmptySeq
  <2> QED
    BY <2>1, <2>2, <2>3
<1>4. Inbound = (P \o Contents(r)) \o <<b>>
  BY <1>1 DEF Inbound, InFlight
<1>5. CASE srv.step = 1
  <2> DEFINE q == Store(r, r.wptr, b)
  <2>1. rings' = [in |-> q, out |-> rings.out] /\ srv' = [srv EXCEPT !.step = 2]
    <3>1. PutSteps[srv.step] = "byte" /\ srv.step # Len(PutSteps) /\ srv.step + 1 = 2
      BY <1>1, <1>5
    <3>2. rings' = [rings EXCEPT !.in = Put(@, "byte", b)] /\ srv' = [srv EXCEPT !.step = srv.step + 1]
      BY <3>1 DEF SrvPut
    <3>3. Put(r, "byte", b) = q
      BY DEF Put
    <3>4. srv' = [srv EXCEPT !.step = 2]
      BY <3>1, <3>2
    <3> QED
      BY <1>1, <3>2, <3>3, <3>4
  <2>2. /\ Contents(q) = Contents(r) /\ q.buf[q.wptr] = b /\ ~Full(q) /\ q.rptr = r.rptr
        /\ r.rptr >= 1 => q.buf[q.rptr - 1] = r.buf[r.rptr - 1]
    BY <1>1, StoreByte
  <2> HIDE DEF q
  <2>3. srv'.pc = "Put" /\ srv'.byte = b /\ srv'.step = 2
    BY <1>1, <2>1 DEF SrvType
  <2>4. Inbound' = (P \o Contents(r)) \o <<b>>
    BY <1>1, <2>1, <2>2, <2>3 DEF Inbound, InFlight
  <2> QED
    BY <1>4, <2>1, <2>2, <2>3, <2>4 DEF SpaceIn, StoredIn
<1>6. CASE srv.step = 2
  <2> DEFINE q == [r EXCEPT !.wptr = (@ + 1) % BufSize]
  <2>1. rings' = [in |-> q, out |-> rings.out] /\ srv' = [srv EXCEPT !.pc = "Room", !.step = 1, !.byte = None]
    BY <1>1, <1>6 DEF SrvPut, Put
  <2>2. q.rptr = r.rptr /\ q.buf = r.buf /\ Contents(q) = Append(Contents(r), r.buf[r.wptr])
    BY <1>1, StoreIndex
  <2>3. r.buf[r.wptr] = b
    BY <1>1, <1>6 DEF StoredIn
  <2> HIDE DEF q
  <2>4. srv'.pc = "Room"
    BY <1>1, <2>1 DEF SrvType
  <2>5. Inbound' = (P \o Append(Contents(r), b)) \o <<>>
    BY <1>1, <2>1, <2>2, <2>3, <2>4 DEF Inbound, InFlight
  <2>6. P \o Append(Contents(r), b) = Append(P \o Contents(r), b) /\ P \o Contents(r) \in Seq(S)
        /\ Append(P \o Contents(r), b) \in Seq(S)
    BY <1>1, <1>2, <1>3, ConcatFirst, ConcatProperties, AppendProperties
  <2>7. Inbound' = Append(P \o Contents(r), b)
    BY <2>5, <2>6, <1>1, ConcatFirst
  <2>8. Inbound = Append(P \o Contents(r), b)
    BY <1>1, <1>4, <2>6, ConcatFirst
  <2> QED
    BY <2>4, <2>7, <2>8 DEF SpaceIn, StoredIn
<1> QED
  BY <1>1, <1>5, <1>6

(* SimRead moves the first command on the way to what was handled, in the  *)
(* middle one of its three steps.                                          *)
LEMMA TakeInbound ==
  ASSUME Typed, Build = "O2", SpaceIn, StoredIn, SimRead
  PROVE  /\ SpaceIn' /\ StoredIn'
         /\ sim.step # 2 => Inbound' = Inbound /\ handled' = handled
         /\ sim.step = 2 => /\ Inbound # <<>> /\ Inbound' = Tail(Inbound)
                            /\ sim'.byte = Head(Inbound) /\ handled' = Append(handled, Head(Inbound))
<1> DEFINE S == Bytes \cup {None}
           r == rings.in
           W == IF srv.pc = "Put" THEN <<srv.byte>> ELSE <<>>
<1>1. /\ Settled(r) /\ sim.pc = "Tick" /\ sim \in SimType /\ sim.step \in 1 .. 3 /\ srv.byte \in S
      /\ rings = [in |-> rings.in, out |-> rings.out] /\ srv' = srv
      /\ r.rptr \in IF sim.step # 1 THEN 1 .. BufSize ELSE 0 .. BufSize - 1
      /\ BufSize \in Nat \ {0}
  BY Optimised, SizeAssumption DEF Typed, RingsOK, ThreadsOK, SrvType, SimType, SimRead
<1>2. Contents(r) \in Seq(S)
  BY <1>1, ContentsIs
<1>3. W \in Seq(S)
  <2>1. \A x \in S : <<x>> \in Seq(S)
    OBVIOUS
  <2>2. <<>> \in Seq(S)
    BY EmptySeq
  <2> QED
    BY <1>1, <2>1, <2>2
<1>4. CASE sim.step = 1
  <2> DEFINE q == [r EXCEPT !.rptr = @ + 1]
  <2>1. /\ rings' = [in |-> q, out |-> rings.out] /\ sim' = [sim EXCEPT !.step = 2] /\ handled' = handled
        /\ ~Empty(r) /\ r.rptr < BufSize
    BY <1>1, <1>4 DEF SimRead
  <2>2. /\ Settled(q) /\ q.wptr = r.wptr /\ q.buf = r.buf /\ (~Full(r) => ~Full(q))
        /\ <<q.buf[q.rptr - 1]>> \o Contents(q) = Contents(r)
    BY <1>1, <2>1, Take
  <2> HIDE DEF q
  <2>3. sim'.pc = "Tick" /\ sim'.step = 2
    BY <1>1, <2>1 DEF SimType
  <2>4. Inbound' = (<<q.buf[q.rptr - 1]>> \o Contents(q)) \o W
    BY <1>1, <2>1, <2>3 DEF Inbound, InFlight
  <2>5. Inbound = (<<>> \o Contents(r)) \o W
    BY <1>1, <1>4 DEF Inbound, InFlight
  <2>6. <<>> \o Contents(r) = Contents(r)
    BY <1>2, ConcatEmptySeq
  <2>7. SpaceIn' /\ StoredIn'
    BY <1>1, <2>1, <2>2 DEF SpaceIn, StoredIn
  <2> QED
    BY <1>4, <2>1, <2>2, <2>4, <2>5, <2>6, <2>7
<1>5. CASE sim.step = 2
  <2> DEFINE x == r.buf[r.rptr - 1]
  <2>1. rings' = rings /\ sim' = [sim EXCEPT !.step = 3, !.byte = x] /\ handled' = Append(handled, sim'.byte)
    BY <1>1, <1>5 DEF SimRead
  <2>2. x \in S
    <3>1. r.rptr - 1 \in 0 .. BufSize - 1
      BY <1>1, <1>5
    <3> QED
      BY <3>1, <1>1, RingFields
  <2> HIDE DEF x
  <2>3. sim'.pc = "Tick" /\ sim'.step = 3 /\ sim'.byte = x
    BY <1>1, <2>1 DEF SimType
  <2>4. Inbound = (<<x>> \o Contents(r)) \o W
    BY <1>1, <1>5 DEF Inbound, InFlight, x
  <2>5. Inbound' = (<<>> \o Contents(r)) \o W
    BY <1>1, <2>1, <2>3 DEF Inbound, InFlight
  <2>6. Inbound' = Contents(r) \o W /\ Contents(r) \o W \in Seq(S)
    BY <1>2, <1>3, <2>5, ConcatEmptySeq, ConcatProperties
  <2>7. Inbound = <<x>> \o (Contents(r) \o W)
    BY <1>2, <1>3, <2>2, <2>4, ConcatFirst
  <2>8. Inbound # <<>> /\ Head(Inbound) = x /\ Tail(Inbound) = Contents(r) \o W
    BY <2>2, <2>6, <2>7, FirstOf
  <2>9. SpaceIn' /\ StoredIn'
    BY <1>1, <2>1 DEF SpaceIn, StoredIn
  <2> QED
    BY <1>5, <2>1, <2>3, <2>6, <2>8, <2>9
<1>6. CASE sim.step = 3
  <2> DEFINE q == [r EXCEPT !.rptr = @ % BufSize]
  <2>1. rings' = [in |-> q, out |-> rings.out] /\ handled' = handled /\ \E pc \in {"Tick", "Full", "Close"} : SimGo(pc)
    BY <1>1, <1>6 DEF SimRead
  <2>2. /\ Settled(q) /\ q.wptr = r.wptr /\ q.buf = r.buf /\ (~Full(r) => ~Full(q))
        /\ Contents(q) = Contents(r)
    BY <1>1, Wrap
  <2> HIDE DEF q
  <2>3. sim'.step = 1
    BY <1>1, <2>1 DEF SimType, SimGo
  <2>4. Inbound' = (<<>> \o Contents(q)) \o W
    BY <1>1, <2>1, <2>3 DEF Inbound, InFlight
  <2>5. Inbound = (<<>> \o Contents(r)) \o W
    BY <1>1, <1>6 DEF Inbound, InFlight
  <2>6. SpaceIn' /\ StoredIn'
    BY <1>1, <2>1, <2>2 DEF SpaceIn, StoredIn
  <2> QED
    BY <1>6, <2>1, <2>2, <2>4, <2>5, <2>6
<1> QED
  BY <1>1, <1>4, <1>5, <1>6

(* The other steps leave the commands on the way as they are, unless       *)
(* SrvRead takes one from the socket.                                      *)
LEMMA OtherInbound ==
  ASSUME Typed, Build = "O2", SpaceIn, StoredIn, [Next]_vars, ~SimRead, ~SrvPut
  PROVE  /\ SpaceIn' /\ StoredIn' /\ handled' = handled
         /\ ~(srv.pc = "Read" /\ srv'.pc = "Put") => Inbound' = Inbound
         /\ srv.pc = "Read" /\ srv'.pc = "Put" => Inbound' = Append(Inbound, srv'.byte)
<1> DEFINE S == Bytes \cup {None}
<1>0. srv \in SrvType /\ sim \in SimType /\ rings = [in |-> rings.in, out |-> rings.out] /\ Settled(rings.in)
      /\ (sim.pc = "Tick" /\ sim.step = 2 => rings.in.rptr \in 1 .. BufSize)
  BY Optimised DEF Typed, ThreadsOK, RingsOK
<1>1. handled' = handled /\ rings'.in = rings.in
  BY <1>0, ClientType DEF Next, vars, Client, Server, Simulation, SrvSelect, SrvAccept, SrvIn, SrvRoom, SrvRead,
     SrvOut, SrvGet, SrvSend, SrvEnd, SimFull, SimPut, SimClose, SimFinish, SimJoin
<1>2. \/ sim' = sim
      \/ sim.pc \in {"Full", "Put", "Close", "Join"} /\ ~(sim'.pc = "Tick" /\ sim'.step = 2)
      \/ SimFinish
  <2>1. CASE SimFull
    BY <1>0, <2>1 DEF SimFull, SimGo, SimType
  <2>2. CASE SimPut
    <3>1. sim.pc = "Put" /\ (SimGo("Tick") \/ sim' = [sim EXCEPT !.step = @ + 1])
      BY <2>2 DEF SimPut
    <3>2. SimGo("Tick") => sim'.step = 1
      BY <1>0 DEF SimGo, SimType
    <3>3. sim' = [sim EXCEPT !.step = @ + 1] => sim'.pc = "Put"
      BY <1>0, <3>1 DEF SimType
    <3> QED
      BY <3>1, <3>2, <3>3
  <2>3. CASE SimClose
    <3>1. sim.step = 1 /\ cfd = 0 => sim'.step = 1
      BY <1>0, <2>3 DEF SimClose, SimType
    <3>2. sim.step = 1 /\ cfd # 0 => sim'.pc = "Close"
      BY <1>0, <2>3 DEF SimClose, SimType
    <3>3. sim.step = 2 => sim'.pc = "Close"
      BY <1>0, <2>3 DEF SimClose, SimType
    <3>4. sim.step = 3 => sim'.step = 1
      <4>1. sim.step = 3 => SimGo("Tick")
        BY <2>3 DEF SimClose
      <4> QED
        BY <1>0, <4>1 DEF SimGo, SimType
    <3> QED
      BY <1>0, <2>3, <3>1, <3>2, <3>3, <3>4 DEF SimClose, SimType
  <2>4. CASE SimJoin
    BY <1>0, <2>4 DEF SimJoin, SimGo, SimType
  <2>5. CASE SimFinish
    BY <2>5
  <2>6. CASE ~(SimFull \/ SimPut \/ SimClose \/ SimJoin \/ SimFinish)
    BY <1>0, <2>6, ClientType DEF Next, vars, Client, Server, Simulation, SrvSelect, SrvAccept, SrvIn, SrvRoom,
       SrvRead, SrvOut, SrvGet, SrvSend, SrvEnd
  <2> QED
    BY <2>1, <2>2, <2>3, <2>4, <2>5, <2>6
<1>3. (sim'.pc = "Tick" /\ sim'.step = 2) <=> (sim.pc = "Tick" /\ sim.step = 2)
  <2>1. SimFinish => sim.step = 1 /\ sim'.step = 1
    BY <1>0 DEF SimFinish, SimGo, SimType
  <2> QED
    BY <1>2, <2>1
<1>4. InFlight' = InFlight
  BY <1>1, <1>3 DEF InFlight
<1>5. InFlight \in Seq(S)
  <2>1. Contents(rings.in) \in Seq(S)
    BY <1>0, ContentsIs
  <2>2. sim.pc = "Tick" /\ sim.step = 2 => rings.in.buf[rings.in.rptr - 1] \in S
    <3>1. ASSUME sim.pc = "Tick" /\ sim.step = 2
          PROVE  rings.in.rptr - 1 \in 0 .. BufSize - 1
      BY <1>0, <3>1, SizeAssumption
    <3> QED
      BY <3>1, <1>0, RingFields
  <2>3. \A x \in S : <<x>> \in Seq(S)
    OBVIOUS
  <2>4. <<>> \in Seq(S)
    BY EmptySeq
  <2>5. (IF sim.pc = "Tick" /\ sim.step = 2 THEN <<rings.in.buf[rings.in.rptr - 1]>> ELSE <<>>) \in Seq(S)
    BY <2>2, <2>3, <2>4
  <2> QED
    BY <2>1, <2>5, ConcatProperties DEF InFlight
<1>6. \/ srv' = srv
      \/ srv.pc # "Put" /\ srv'.pc \notin {"Put", "Read"}
      \/ SrvRoom \/ SrvRead
  <2>1. CASE SrvGet
    BY <1>0, <2>1 DEF SrvGet, SrvGo, SrvType
  <2>2. CASE SrvSelect \/ SrvAccept \/ SrvIn \/ SrvOut \/ SrvSend \/ SrvEnd
    BY <1>0, <2>2 DEF SrvSelect, SrvAccept, SrvIn, SrvOut, SrvSend, SrvEnd, SrvGo, SrvType
  <2>3. CASE ~Server
    BY <2>3, ClientType DEF Next, vars, Client, Simulation, SimFull, SimPut, SimClose, SimFinish, SimJoin
  <2> QED
    BY <2>1, <2>2, <2>3 DEF Server
<1>7. CASE srv' = srv
  <2>1. Inbound' = Inbound
    BY <1>4, <1>7 DEF Inbound
  <2> QED
    BY <1>1, <1>7, <2>1 DEF SpaceIn, StoredIn
<1>8. CASE srv.pc # "Put" /\ srv'.pc \notin {"Put", "Read"}
  <2>1. Inbound' = Inbound
    BY <1>4, <1>8 DEF Inbound
  <2> QED
    BY <1>1, <1>8, <2>1 DEF SpaceIn, StoredIn
<1>9. CASE SrvRoom
  <2>1. srv.pc = "Room" /\ srv'.pc \in {"Out", "Read"} /\ (srv'.pc = "Read" => ~Full(rings.in))
    BY <1>0, <1>9 DEF SrvRoom, SrvGo, SrvType
  <2>2. Inbound' = Inbound
    BY <1>4, <2>1 DEF Inbound
  <2> QED
    BY <1>1, <2>1, <2>2 DEF SpaceIn, StoredIn
<1>10. CASE SrvRead
  <2>1. srv.pc = "Read" /\ \/ srv'.pc \in {"Out", "Abort"}
                           \/ srv'.pc = "Put" /\ srv'.step = 1 /\ srv'.byte \in S
    <3>1. srv'.byte \in S
      BY ServerTyped, <1>10 DEF Server, Typed, ThreadsOK, SrvType
    <3>2. CASE cfd = 0 \/ fds[cfd] = 0
      BY <1>0, <1>10, <3>2 DEF SrvRead, SrvGo, SrvType
    <3>3. CASE cfd # 0 /\ fds[cfd] # 0
      BY <1>0, <1>10, <3>1, <3>3 DEF SrvRead, SrvGo, SrvType
    <3> QED
      BY <3>2, <3>3
  <2>2. SpaceIn' /\ StoredIn'
    BY <1>1, <2>1 DEF SpaceIn, StoredIn
  <2>3. InFlight \o <<>> = InFlight /\ Inbound = InFlight \o <<>>
    BY <1>5, <2>1, ConcatEmptySeq DEF Inbound
  <2>4. CASE srv'.pc \in {"Out", "Abort"}
    <3>1. Inbound' = Inbound
      BY <1>4, <2>1, <2>4 DEF Inbound
    <3> QED
      BY <1>1, <2>2, <2>4, <3>1
  <2>5. CASE srv'.pc = "Put" /\ srv'.step = 1 /\ srv'.byte \in S
    <3>1. Inbound' = InFlight \o <<srv'.byte>>
      BY <1>4, <2>5 DEF Inbound
    <3>2. InFlight \o <<srv'.byte>> = Append(InFlight, srv'.byte)
      BY <1>5, <2>5, AppendIsConcat
    <3> QED
      BY <1>1, <2>1, <2>2, <2>3, <2>5, <3>1, <3>2
  <2> QED
    BY <2>1, <2>4, <2>5
<1> QED
  BY <1>6, <1>7, <1>8, <1>9, <1>10

(* The three ways a stream moves.                                          *)
LEMMA StreamSend ==
  ASSUME NEW c \in Clients, NEW past, NEW coming, NEW k \in ConnType, NEW q \in ConnType,
         StreamOK(c, past, coming, k), <<c, k.next>> \in Bytes,
         q.next = k.next + 1, q.toSrv = Append(k.toSrv, <<c, k.next>>)
  PROVE  StreamOK(c, past, coming, q)
<1> DEFINE t == k.next - 1 - Len(k.toSrv)
           u == q.next - 1 - Len(q.toSrv)
           n == Len(k.toSrv)
<1>1. /\ k.toSrv \in Seq(Bytes) /\ k.next \in Nat /\ n \in Nat /\ DOMAIN k.toSrv = 1 .. n
      /\ q.toSrv \in Seq(Bytes) /\ Len(q.toSrv) = n + 1 /\ DOMAIN q.toSrv = 1 .. n + 1
      /\ \A i \in 1 .. n : q.toSrv[i] = k.toSrv[i]
      /\ q.toSrv[n + 1] = <<c, k.next>>
  BY ConnFields, LenProperties, AppendProperties
<1>2. u = t
  <2>1. q.next = k.next + 1 /\ Len(q.toSrv) = n + 1 /\ k.next \in Int /\ n \in Int
    BY <1>1
  <2>2. \A x, y \in Int : (x + 1) - 1 - (y + 1) = x - 1 - y
    OBVIOUS
  <2> QED
    BY <2>1, <2>2
<1>3. \A i \in DOMAIN k.toSrv : k.toSrv[i] = <<c, t + i>>
  BY DEF StreamOK
<1>4. PICK h \in 0 .. t : Carries(past, c, 1 .. h) /\ Carries(coming, c, h + 1 .. t)
  BY DEF StreamOK
<1>5. ASSUME NEW i \in 1 .. n + 1
      PROVE  q.toSrv[i] = <<c, t + i>>
  <2>1. CASE i = n + 1
    <3>1. t + i = k.next
      BY <1>1, <2>1
    <3> QED
      BY <1>1, <2>1, <3>1
  <2>2. CASE i # n + 1
    <3>1. i \in 1 .. n
      BY <1>1, <2>2
    <3> QED
      BY <1>1, <1>3, <3>1
  <2> QED
    BY <2>1, <2>2
<1> HIDE DEF t, u
<1>6. \A i \in DOMAIN q.toSrv : q.toSrv[i] = <<c, u + i>>
  BY <1>1, <1>2, <1>5
<1>7. \E h1 \in 0 .. u : Carries(past, c, 1 .. h1) /\ Carries(coming, c, h1 + 1 .. u)
  BY <1>2, <1>4
<1> QED
  BY <1>6, <1>7 DEF StreamOK, u

(* The stream of the client whose byte the socket thread reads.            *)
LEMMA StreamRead ==
  ASSUME NEW c \in Clients, NEW past, NEW coming \in Seq(Bytes), NEW k \in ConnType, NEW q \in ConnType,
         StreamOK(c, past, coming, k), k.toSrv # <<>>,
         q.next = k.next, q.toSrv = Tail(k.toSrv)
  PROVE  /\ StreamOK(c, past, Append(coming, Head(k.toSrv)), q)
         /\ Head(k.toSrv) \in Bytes /\ Head(k.toSrv)[1] = c
<1> DEFINE t == k.next - 1 - Len(k.toSrv)
           u == q.next - 1 - Len(q.toSrv)
           n == Len(k.toSrv)
           b == Head(k.toSrv)
<1>1. /\ k.toSrv \in Seq(Bytes) /\ k.next \in Nat /\ n \in Nat \ {0} /\ DOMAIN k.toSrv = 1 .. n
      /\ q.toSrv \in Seq(Bytes) /\ Len(q.toSrv) = n - 1 /\ DOMAIN q.toSrv = 1 .. n - 1
      /\ \A i \in 1 .. n - 1 : q.toSrv[i] = k.toSrv[i + 1]
      /\ b = k.toSrv[1] /\ b \in Bytes
  BY ConnFields, LenProperties, HeadTailProperties, EmptySeq
<1>2. u = t + 1 /\ t \in Int
  BY <1>1
<1>3. \A i \in 1 .. n : k.toSrv[i] = <<c, t + i>>
  BY <1>1 DEF StreamOK
<1>4. PICK h \in 0 .. t : Carries(past, c, 1 .. h) /\ Carries(coming, c, h + 1 .. t)
  BY DEF StreamOK
<1>5. ASSUME NEW i \in 1 .. n - 1
      PROVE  q.toSrv[i] = <<c, u + i>>
  <2>1. i + 1 \in 1 .. n /\ q.toSrv[i] = k.toSrv[i + 1]
    BY <1>1
  <2>2. t + (i + 1) = u + i
    BY <1>2
  <2> QED
    BY <1>3, <2>1, <2>2
<1>6. b = <<c, t + 1>>
  <2>1. 1 \in 1 .. n
    BY <1>1
  <2> QED
    BY <1>1, <1>3, <2>1
<1> HIDE DEF t, u
<1>7. Carries(Append(coming, b), c, (h + 1 .. t) \cup {t + 1})
  BY <1>1, <1>2, <1>4, <1>6, CarriesAppend
<1>8. (h + 1 .. t) \cup {t + 1} = h + 1 .. u
  BY <1>2, <1>4
<1>9. h \in 0 .. u
  BY <1>2, <1>4
<1>10. StreamOK(c, past, Append(coming, b), q)
  <2>1. \A i \in DOMAIN q.toSrv : q.toSrv[i] = <<c, u + i>>
    BY <1>1, <1>5
  <2>2. \E h1 \in 0 .. u : Carries(past, c, 1 .. h1) /\ Carries(Append(coming, b), c, h1 + 1 .. u)
    BY <1>4, <1>7, <1>8, <1>9
  <2> QED
    BY <2>1, <2>2 DEF StreamOK, u
<1> QED
  BY <1>1, <1>6, <1>10

(* The streams of the other clients.                                       *)
LEMMA StreamOther ==
  ASSUME NEW c \in Clients, NEW past, NEW coming \in Seq(Bytes), NEW k, NEW q,
         StreamOK(c, past, coming, k), q.next = k.next, q.toSrv = k.toSrv,
         NEW b \in Bytes, b[1] # c
  PROVE  StreamOK(c, past, Append(coming, b), q)
<1>1. ASSUME NEW N, Carries(coming, c, N)
      PROVE  Carries(Append(coming, b), c, N)
  BY <1>1, CarriesOther
<1> QED
  BY <1>1 DEF StreamOK

(* The streams when the simulation takes a byte.                           *)
LEMMA StreamTake ==
  ASSUME NEW c \in Clients, NEW past \in Seq(Bytes), NEW coming \in Seq(Bytes), NEW k \in ConnType,
         NEW q, StreamOK(c, past, coming, k), q.next = k.next, q.toSrv = k.toSrv, coming # <<>>
  PROVE  StreamOK(c, Append(past, Head(coming)), Tail(coming), q)
<1> DEFINE t == k.next - 1 - Len(k.toSrv)
           b == Head(coming)
<1>1. t \in Int
  BY ConnFields, LenProperties
<1>2. PICK h \in 0 .. t : Carries(past, c, 1 .. h) /\ Carries(coming, c, h + 1 .. t)
  BY DEF StreamOK
<1>3. b \in Bytes
  BY HeadTailProperties
<1>4. \E i \in 0 .. t : Carries(Append(past, b), c, 1 .. i) /\ Carries(Tail(coming), c, i + 1 .. t)
  <2> HIDE DEF t
  <2>1. CASE b[1] = c
    <3> DEFINE m == b[2]
    <3>1. m \in h + 1 .. t /\ (\A x \in h + 1 .. t : x >= m) /\ Carries(Tail(coming), c, (h + 1 .. t) \ {m})
      BY <1>2, <2>1, CarriesTail
    <3> HIDE DEF m
    <3>2. m = h + 1
      BY <1>1, <1>2, <3>1
    <3>3. Carries(Append(past, b), c, (1 .. h) \cup {h + 1})
      <4>1. \A x \in 1 .. h : x < b[2]
        BY <3>2, <1>2 DEF m
      <4> QED
        BY <1>2, <1>3, <2>1, <3>2, <4>1, CarriesAppend DEF m
    <3>4. (1 .. h) \cup {h + 1} = 1 .. h + 1 /\ (h + 1 .. t) \ {m} = h + 1 + 1 .. t /\ h + 1 \in 0 .. t
      BY <1>1, <1>2, <3>1, <3>2
    <3> QED
      BY <3>1, <3>3, <3>4
  <2>2. CASE b[1] # c
    <3>1. Carries(Append(past, b), c, 1 .. h)
      BY <1>2, <1>3, <2>2, CarriesOther
    <3>2. Carries(Tail(coming), c, h + 1 .. t)
      BY <1>2, <2>2, CarriesTail
    <3> QED
      BY <1>2, <3>1, <3>2
  <2> QED
    BY <2>1, <2>2
<1> QED
  BY <1>4 DEF StreamOK

SameStream(c) == conns'[c].next = conns[c].next /\ conns'[c].toSrv = conns[c].toSrv

LEMMA ClosedStreams ==
  ASSUME Typed, ClientClose, NEW c \in Clients
  PROVE  SameStream(c)
<1>1. conns \in [Clients -> ConnType]
  BY DEF Typed, ConnsOK
<1> QED
  BY <1>1 DEF ClientClose, SameStream, ConnType

(* What SrvRead takes.                                                     *)
LEMMA ReadOne ==
  ASSUME Typed, SrvRead
  PROVE  \/ srv'.pc # "Put" /\ \A c \in Clients : SameStream(c)
         \/ \E c \in Clients : /\ srv'.pc = "Put" /\ conns[c].toSrv # <<>> /\ srv'.byte = Head(conns[c].toSrv)
                               /\ conns'[c].next = conns[c].next /\ conns'[c].toSrv = Tail(conns[c].toSrv)
                               /\ \A d \in Clients : d # c => SameStream(d)
<1>1. /\ srv \in SrvType /\ conns \in [Clients -> ConnType] /\ cfd \in {0} \cup Fds
      /\ fds \in [Fds -> {0} \cup Clients]
  BY DEF Typed, ThreadsOK, ConnsOK, FdsOK
<1>2. CASE cfd = 0
  BY <1>1, <1>2 DEF SrvRead, SrvGo, SrvType, SameStream
<1>3. CASE cfd # 0 /\ fds[cfd] = 0
  BY <1>1, <1>3, ClosedStreams DEF SrvRead, SrvGo, SrvType
<1>4. CASE cfd # 0 /\ fds[cfd] # 0
  <2> DEFINE c == fds[cfd]
  <2>1. c \in Clients
    BY <1>1, <1>4
  <2>2. CASE Peer(cfd).toSrv # <<>> /\ Peer(cfd).peer # "rst"
    <3>1. /\ srv' = [srv EXCEPT !.pc = "Put", !.step = 1, !.byte = Head(conns[c].toSrv)]
          /\ conns' = [conns EXCEPT ![c].toSrv = Tail(@)] /\ conns[c].toSrv # <<>>
      BY <1>4, <2>2 DEF SrvRead, Peer
    <3> HIDE DEF c
    <3>2. /\ srv'.pc = "Put" /\ srv'.byte = Head(conns[c].toSrv)
          /\ conns'[c].next = conns[c].next /\ conns'[c].toSrv = Tail(conns[c].toSrv)
          /\ \A d \in Clients : d # c => SameStream(d)
      BY <1>1, <2>1, <3>1 DEF SrvType, ConnType, SameStream
    <3> QED
      BY <2>1, <3>1, <3>2
  <2>3. CASE ~(Peer(cfd).toSrv # <<>> /\ Peer(cfd).peer # "rst")
    BY <1>1, <1>4, <2>3 DEF SrvRead, SrvGo, SrvType, SameStream
  <2> QED
    BY <2>2, <2>3
<1> QED
  BY <1>1, <1>2, <1>3, <1>4

(* Changes of a connection that leave its commands alone.                  *)
LEMMA ConnSet ==
  ASSUME NEW k \in ConnType, NEW x, NEW y
  PROVE  /\ [k EXCEPT !.st = x].next = k.next /\ [k EXCEPT !.st = x].toSrv = k.toSrv
         /\ [k EXCEPT !.peer = x].next = k.next /\ [k EXCEPT !.peer = x].toSrv = k.toSrv
         /\ [k EXCEPT !.toCli = x].next = k.next /\ [k EXCEPT !.toCli = x].toSrv = k.toSrv
         /\ [k EXCEPT !.got = x, !.toCli = y].next = k.next
         /\ [k EXCEPT !.got = x, !.toCli = y].toSrv = k.toSrv
         /\ [k EXCEPT !.peer = x, !.toCli = y].next = k.next
         /\ [k EXCEPT !.peer = x, !.toCli = y].toSrv = k.toSrv
BY DEF ConnType

LEMMA KeepsStream ==
  ASSUME Typed, NEW c \in Clients, NEW d, NEW q, d \in Clients => q.next = conns[d].next /\ q.toSrv = conns[d].toSrv,
         conns' = [conns EXCEPT ![d] = q]
  PROVE  SameStream(c)
<1>1. conns \in [Clients -> ConnType]
  BY DEF Typed, ConnsOK
<1> QED
  BY <1>1 DEF SameStream

(* Every other step leaves a client's stream alone.                        *)
LEMMA StreamsKept ==
  ASSUME Typed, [Next]_vars, ~SrvRead, ~\E c \in Clients : Send(c) \/ LeaveQuit(c), NEW c \in Clients
  PROVE  SameStream(c)
<1>1. conns \in [Clients -> ConnType]
  BY DEF Typed, ConnsOK
<1>2. ASSUME NEW d \in Clients, Connect(d) \/ Receive(d) \/ LeaveClose(d)
      PROVE  SameStream(c)
  <2>1. conns[d] \in ConnType
    BY <1>1
  <2>2. \/ conns' = [conns EXCEPT ![d].st = "backlog"]
        \/ \E x, y : conns' = [conns EXCEPT ![d].got = x, ![d].toCli = y]
        \/ \E x, y : conns' = [conns EXCEPT ![d].peer = x, ![d].toCli = y]
    <3>1. Connect(d) => conns' = [conns EXCEPT ![d].st = "backlog"]
      BY DEF Connect
    <3>2. Receive(d) => conns' = [conns EXCEPT ![d].got = Append(@, Head(conns[d].toCli)), ![d].toCli = Tail(@)]
      BY DEF Receive
    <3>3. Receive(d) => conns' = [conns EXCEPT ![d].got = Append(conns[d].got, Head(conns[d].toCli)),
                                              ![d].toCli = Tail(conns[d].toCli)]
      BY <1>1, <2>1, <3>2 DEF ConnType
    <3>4. LeaveClose(d) => conns' = [conns EXCEPT ![d].peer = IF conns[d].toCli = <<>> THEN "fin" ELSE "rst",
                                                 ![d].toCli = <<>>]
      BY DEF LeaveClose
    <3> QED
      BY <1>2, <3>1, <3>3, <3>4
  <2>3. CASE conns' = [conns EXCEPT ![d].st = "backlog"]
    BY <2>1, <2>3, ConnSet, KeepsStream
  <2>4. CASE \E x, y : conns' = [conns EXCEPT ![d].got = x, ![d].toCli = y]
    <3>1. PICK x, y : conns' = [conns EXCEPT ![d].got = x, ![d].toCli = y]
      BY <2>4
    <3> DEFINE q == [conns[d] EXCEPT !.got = x, !.toCli = y]
    <3>2. conns' = [conns EXCEPT ![d] = q]
      BY <1>1, <2>1, <3>1
    <3>3. q.next = conns[d].next /\ q.toSrv = conns[d].toSrv
      BY <2>1, ConnSet
    <3> HIDE DEF q
    <3> QED
      BY <3>2, <3>3, KeepsStream
  <2>5. CASE \E x, y : conns' = [conns EXCEPT ![d].peer = x, ![d].toCli = y]
    <3>1. PICK x, y : conns' = [conns EXCEPT ![d].peer = x, ![d].toCli = y]
      BY <2>5
    <3> DEFINE q == [conns[d] EXCEPT !.peer = x, !.toCli = y]
    <3>2. conns' = [conns EXCEPT ![d] = q]
      BY <1>1, <2>1, <3>1
    <3>3. q.next = conns[d].next /\ q.toSrv = conns[d].toSrv
      BY <2>1, ConnSet
    <3> HIDE DEF q
    <3> QED
      BY <3>2, <3>3, KeepsStream
  <2> QED
    BY <2>2, <2>3, <2>4, <2>5
<1>3. CASE SrvSelect
  BY <1>3, ClosedStreams DEF SrvSelect, SameStream
<1>4. CASE SrvAccept
  <2>1. CASE conns' = conns
    BY <2>1 DEF SameStream
  <2>2. CASE conns' # conns
    <3>1. PICK d \in Waiting : \/ conns' = [conns EXCEPT ![d].st = "closed"]
                               \/ conns' = [conns EXCEPT ![d].st = "open"]
      BY <1>4, <2>2 DEF SrvAccept
    <3>2. d \in Clients /\ conns[d] \in ConnType
      BY <1>1, <3>1 DEF Waiting
    <3> QED
      BY <3>1, <3>2, ConnSet, KeepsStream
  <2> QED
    BY <2>1, <2>2
<1>5. CASE SrvSend
  <2>1. \/ conns' = conns \/ ClientClose
        \/ conns' = [conns EXCEPT ![fds[cfd]].toCli = Append(@, srv.byte)]
        \/ conns' = [conns EXCEPT ![fds[cfd]].peer = "gone"]
    BY <1>5 DEF SrvSend
  <2> DEFINE d == fds[cfd]
  <2>2. CASE conns' = conns
    BY <2>2 DEF SameStream
  <2>3. CASE ClientClose
    BY <2>3, ClosedStreams
  <2>4. d \in Clients => conns[d] \in ConnType
    BY <1>1
  <2>5. CASE conns' = [conns EXCEPT ![d].toCli = Append(@, srv.byte)]
    <3> HIDE DEF d
    <3> QED
      BY <2>4, <2>5, ConnSet, KeepsStream
  <2>6. CASE conns' = [conns EXCEPT ![d].peer = "gone"]
    <3> HIDE DEF d
    <3> QED
      BY <2>4, <2>6, ConnSet, KeepsStream
  <2> QED
    BY <2>1, <2>2, <2>3, <2>5, <2>6
<1>6. CASE SrvEnd
  BY <1>1, <1>6 DEF SrvEnd, SameStream, ConnType
<1>7. CASE SimClose
  <2>1. \/ conns' = conns
        \/ conns' = [d \in Clients |-> IF fds[sim.fd] = d THEN [conns[d] EXCEPT !.st = "closed"] ELSE conns[d]]
    BY <1>7 DEF SimClose
  <2>2. conns[c] \in ConnType
    BY <1>1
  <2>3. CASE conns' = conns
    BY <2>3 DEF SameStream
  <2>4. CASE conns' = [d \in Clients |-> IF fds[sim.fd] = d THEN [conns[d] EXCEPT !.st = "closed"] ELSE conns[d]]
    <3>1. conns'[c] = IF fds[sim.fd] = c THEN [conns[c] EXCEPT !.st = "closed"] ELSE conns[c]
      BY <2>4
    <3> QED
      BY <2>2, <3>1, ConnSet DEF SameStream
  <2> QED
    BY <2>1, <2>3, <2>4
<1>8. CASE \/ SrvIn \/ SrvRoom \/ SrvPut \/ SrvOut \/ SrvGet \/ SimRead \/ SimFull \/ SimPut \/ SimFinish
           \/ SimJoin \/ UNCHANGED vars
  BY <1>8 DEF SrvIn, SrvRoom, SrvPut, SrvOut, SrvGet, SimRead, SimFull, SimPut, SimFinish, SimJoin, vars,
     SameStream
<1> QED
  BY <1>2, <1>3, <1>4, <1>5, <1>6, <1>7, <1>8 DEF Next, Client, Server, Simulation

(* What a client sends.                                                    *)
LEMMA SendOne ==
  ASSUME Typed, NEW c \in Clients, Send(c) \/ LeaveQuit(c)
  PROVE  /\ <<c, conns[c].next>> \in Bytes /\ conns'[c].next = conns[c].next + 1
         /\ conns'[c].toSrv = Append(conns[c].toSrv, <<c, conns[c].next>>)
         /\ \A d \in Clients : d # c => SameStream(d)
<1>1. conns \in [Clients -> ConnType] /\ conns[c].next \in Nat \ {0}
  BY ConnFields DEF Typed, ConnsOK
<1>2. conns[c].next \in 1 .. Quit(c)
  BY <1>1, ScriptFacts DEF Send, LeaveQuit
<1>3. <<c, conns[c].next>> \in Bytes
  BY <1>2, ScriptFacts
<1>4. CASE Send(c)
  BY <1>1, <1>3, <1>4 DEF Send, ConnType, SameStream
<1>5. CASE LeaveQuit(c)
  <2>1. conns[c].next = Quit(c)
    BY <1>5 DEF LeaveQuit
  <2> QED
    BY <1>1, <1>3, <1>5, <2>1 DEF LeaveQuit, ConnType, SameStream
<1> QED
  BY <1>4, <1>5

(* The commands on the way after the first step.                           *)
LEMMA InitCommands == Init => CommandInv
<1> SUFFICES ASSUME Init
             PROVE  CommandInv
  OBVIOUS
<1>1. /\ rings.in = NewRing /\ srv.pc = "Loop" /\ sim.pc = "Tick" /\ sim.step = 1 /\ handled = <<>>
      /\ \A c \in Clients : conns[c].next = 1 /\ conns[c].toSrv = <<>>
  BY DEF Init
<1>2. BufSize \in Nat \ {0, 1}
  BY SizeAssumption
<1>3. Settled(NewRing) /\ NewRing.rptr = 0 /\ NewRing.wptr = 0
  <2>1. [i \in 0 .. BufSize - 1 |-> None] \in [0 .. BufSize - 1 -> Bytes \cup {None}]
    OBVIOUS
  <2> QED
    BY <1>2, <2>1 DEF NewRing, Settled, Ring
<1>4. Contents(NewRing) = <<>>
  <2>1. First(NewRing) = 0 /\ Count(NewRing) = 0
    BY <1>2, <1>3, Remainder DEF First, Count
  <2>2. Contents(NewRing) \in Seq(Bytes \cup {None}) /\ Len(Contents(NewRing)) = 0
    BY <1>3, <2>1, ContentsIs
  <2> QED
    BY <2>2, EmptySeq
<1>5. Inbound = <<>>
  <2>1. Inbound = (<<>> \o <<>>) \o <<>>
    BY <1>1, <1>4 DEF Inbound, InFlight
  <2>2. <<>> \o <<>> = <<>>
    OBVIOUS
  <2> QED
    BY <2>1, <2>2
<1>6. ASSUME NEW c \in Clients
      PROVE  StreamOK(c, <<>>, <<>>, conns[c])
  <2>1. Carries(<<>>, c, {}) /\ 1 .. 0 = {} /\ 0 + 1 .. 0 = {} /\ Len(<<>>) = 0 /\ 1 - 1 - 0 = 0
    BY CarriesNone
  <2>2. \E h \in 0 .. 0 : Carries(<<>>, c, 1 .. h) /\ Carries(<<>>, c, h + 1 .. 0)
    BY <2>1
  <2> QED
    BY <1>1, <2>1, <2>2 DEF StreamOK
<1>7. <<>> \in Seq(Bytes)
  BY EmptySeq
<1> QED
  BY <1>1, <1>5, <1>6, <1>7 DEF CommandInv, SpaceIn, StoredIn

(* Every step keeps the commands on their way.                             *)
LEMMA StepCommands ==
  ASSUME Typed, CommandInv, Build = "O2", [Next]_vars
  PROVE  CommandInv'
<1>1. Typed'
  BY NextTyped
<1>2. /\ conns \in [Clients -> ConnType] /\ conns' \in [Clients -> ConnType]
      /\ handled \in Seq(Bytes) /\ Inbound \in Seq(Bytes) /\ SpaceIn /\ StoredIn
      /\ \A c \in Clients : StreamOK(c, handled, Inbound, conns[c])
  BY <1>1 DEF Typed, ConnsOK, CommandInv
<1>3. CASE SimRead
  <2>1. /\ SpaceIn' /\ StoredIn'
        /\ sim.step # 2 => Inbound' = Inbound /\ handled' = handled
        /\ sim.step = 2 => /\ Inbound # <<>> /\ Inbound' = Tail(Inbound)
                           /\ handled' = Append(handled, Head(Inbound))
    BY <1>2, <1>3, TakeInbound
  <2>2. conns' = conns
    BY <1>3 DEF SimRead
  <2>3. CASE sim.step # 2
    BY <1>2, <2>1, <2>2, <2>3 DEF CommandInv
  <2>4. CASE sim.step = 2
    <3>1. Head(Inbound) \in Bytes /\ Tail(Inbound) \in Seq(Bytes)
      BY <1>2, <2>1, <2>4, HeadTailProperties
    <3>2. Append(handled, Head(Inbound)) \in Seq(Bytes)
      BY <1>2, <3>1, AppendProperties
    <3>3. ASSUME NEW c \in Clients
          PROVE  StreamOK(c, handled', Inbound', conns'[c])
      <4>1. StreamOK(c, Append(handled, Head(Inbound)), Tail(Inbound), conns[c])
        BY <1>2, <2>1, <2>4, StreamTake
      <4> QED
        BY <2>1, <2>2, <2>4, <4>1
    <3> QED
      BY <2>1, <2>4, <3>1, <3>2, <3>3 DEF CommandInv
  <2> QED
    BY <2>3, <2>4
<1>4. CASE SrvPut
  <2>1. Inbound' = Inbound /\ SpaceIn' /\ StoredIn' /\ conns' = conns /\ handled' = handled
    BY <1>2, <1>4, PutInbound DEF SrvPut
  <2> QED
    BY <1>2, <2>1 DEF CommandInv
<1>5. CASE ~SimRead /\ ~SrvPut
  <2>1. /\ SpaceIn' /\ StoredIn' /\ handled' = handled
        /\ ~(srv.pc = "Read" /\ srv'.pc = "Put") => Inbound' = Inbound
        /\ srv.pc = "Read" /\ srv'.pc = "Put" => Inbound' = Append(Inbound, srv'.byte)
    BY <1>2, <1>5, OtherInbound
  <2>2. CASE SrvRead
    <3>0. srv.pc = "Read"
      BY <2>2 DEF SrvRead
    <3>1. CASE srv'.pc # "Put" /\ \A c \in Clients : SameStream(c)
      <4>1. ASSUME NEW c \in Clients
            PROVE  StreamOK(c, handled', Inbound', conns'[c])
        BY <1>2, <2>1, <3>1 DEF StreamOK, SameStream
      <4> QED
        BY <1>2, <2>1, <3>1, <4>1 DEF CommandInv
    <3>2. ASSUME NEW c \in Clients, srv'.pc = "Put", conns[c].toSrv # <<>>, srv'.byte = Head(conns[c].toSrv),
                 conns'[c].next = conns[c].next, conns'[c].toSrv = Tail(conns[c].toSrv),
                 \A d \in Clients : d # c => SameStream(d)
          PROVE  CommandInv'
      <4>1. Inbound' = Append(Inbound, srv'.byte)
        BY <2>1, <3>0, <3>2
      <4>2. StreamOK(c, handled', Inbound', conns'[c]) /\ srv'.byte \in Bytes /\ srv'.byte[1] = c
        BY <1>2, <2>1, <3>2, <4>1, StreamRead
      <4>3. ASSUME NEW d \in Clients, d # c
            PROVE  StreamOK(d, handled', Inbound', conns'[d])
        <5>1. SameStream(d)
          BY <3>2, <4>3
        <5>2. StreamOK(d, handled, Append(Inbound, srv'.byte), conns'[d])
          BY <1>2, <4>2, <4>3, <5>1, StreamOther DEF SameStream
        <5> QED
          BY <2>1, <4>1, <5>2
      <4>4. Inbound' \in Seq(Bytes)
        BY <1>2, <4>1, <4>2, AppendProperties
      <4> QED
        BY <1>2, <2>1, <4>2, <4>3, <4>4 DEF CommandInv
    <3> QED
      BY <2>2, <3>1, <3>2, ReadOne
  <2>3. CASE ~SrvRead
    <3>1. Inbound' = Inbound
      <4>1. ASSUME srv.pc = "Read", srv'.pc = "Put"
            PROVE  FALSE
        <5>1. srv \in SrvType
          BY DEF Typed, ThreadsOK
        <5>2. ~Server
          BY <1>5, <2>3, <4>1, <5>1 DEF Server, SrvSelect, SrvAccept, SrvIn, SrvRoom, SrvOut, SrvGet, SrvSend, SrvEnd
        <5>3. srv' = srv
          BY <5>2, ClientType DEF Next, vars, Client, Simulation, SimRead, SimFull, SimPut, SimClose, SimFinish,
             SimJoin
        <5> QED
          BY <4>1, <5>3
      <4> QED
        BY <2>1, <4>1
    <3>2. CASE ~\E c \in Clients : Send(c) \/ LeaveQuit(c)
      <4>1. ASSUME NEW c \in Clients
            PROVE  StreamOK(c, handled', Inbound', conns'[c])
        <5>1. SameStream(c)
          BY <2>3, <3>2, StreamsKept
        <5> QED
          BY <1>2, <2>1, <3>1, <5>1 DEF StreamOK, SameStream
      <4> QED
        BY <1>2, <2>1, <3>1, <4>1 DEF CommandInv
    <3>3. ASSUME NEW c \in Clients, Send(c) \/ LeaveQuit(c)
          PROVE  CommandInv'
      <4>1. /\ <<c, conns[c].next>> \in Bytes /\ conns'[c].next = conns[c].next + 1
            /\ conns'[c].toSrv = Append(conns[c].toSrv, <<c, conns[c].next>>)
            /\ \A d \in Clients : d # c => SameStream(d)
        BY <3>3, SendOne
      <4>2. conns[c] \in ConnType /\ conns'[c] \in ConnType /\ StreamOK(c, handled, Inbound, conns[c])
        BY <1>2
      <4>3. StreamOK(c, handled, Inbound, conns'[c])
        BY <4>1, <4>2, StreamSend
      <4>4. ASSUME NEW d \in Clients
            PROVE  StreamOK(d, handled', Inbound', conns'[d])
        <5>1. CASE d = c
          BY <2>1, <3>1, <4>3, <5>1
        <5>2. CASE d # c
          <6>1. StreamOK(d, handled, Inbound, conns[d]) /\ SameStream(d)
            BY <1>2, <4>1, <5>2
          <6>2. StreamOK(d, handled, Inbound, conns'[d])
            BY <6>1 DEF StreamOK, SameStream
          <6> QED
            BY <2>1, <3>1, <6>2
        <5> QED
          BY <5>1, <5>2
      <4> QED
        BY <1>2, <2>1, <3>1, <4>4 DEF CommandInv
    <3> QED
      BY <3>2, <3>3
  <2> QED
    BY <2>2, <2>3
<1> QED
  BY <1>3, <1>4, <1>5

LEMMA InFlightType ==
  ASSUME Typed, Build = "O2"
  PROVE  InFlight \in Seq(Bytes \cup {None})
<1> DEFINE S == Bytes \cup {None}
<1>0. rings.in.rptr \in Int /\ Settled(rings.in)
      /\ (sim.pc = "Tick" /\ sim.step = 2 => rings.in.rptr \in 1 .. BufSize)
  BY Optimised, RingFields DEF Typed, RingsOK
<1>1. Contents(rings.in) \in Seq(S)
  BY <1>0, ContentsIs
<1>2. sim.pc = "Tick" /\ sim.step = 2 => rings.in.buf[rings.in.rptr - 1] \in S
  <2>1. ASSUME sim.pc = "Tick" /\ sim.step = 2
        PROVE  rings.in.rptr - 1 \in 0 .. BufSize - 1
    BY <1>0, <2>1, SizeAssumption
  <2> QED
    BY <2>1, <1>0, RingFields
<1>3. \A x \in S : <<x>> \in Seq(S)
  OBVIOUS
<1>4. <<>> \in Seq(S)
  BY EmptySeq
<1>5. (IF sim.pc = "Tick" /\ sim.step = 2 THEN <<rings.in.buf[rings.in.rptr - 1]>> ELSE <<>>) \in Seq(S)
  BY <1>2, <1>3, <1>4
<1> QED
  BY <1>1, <1>5, ConcatProperties DEF InFlight

(* A socket whose bytes are numbered one after the other.                  *)
LEMMA CarriesNumbered ==
  ASSUME NEW s \in Seq(Bytes), NEW c, NEW t \in Int, NEW m \in Int, m = t + Len(s),
         \A i \in DOMAIN s : s[i] = <<c, t + i>>
  PROVE  Carries(s, c, t + 1 .. m)
<1>1. DOMAIN s = 1 .. Len(s) /\ Len(s) \in Nat
  BY LenProperties
<1>2. Of(s, c) = DOMAIN s
  <2>1. \A i \in DOMAIN s : s[i][1] = c
    OBVIOUS
  <2> QED
    BY <2>1 DEF Of
<1>3. \A i \in DOMAIN s : s[i][2] = t + i
  OBVIOUS
<1>4. {s[i][2] : i \in DOMAIN s} = t + 1 .. m
  <2>1. ASSUME NEW x \in t + 1 .. m
        PROVE  x \in {s[i][2] : i \in DOMAIN s}
    <3>1. x - t \in DOMAIN s /\ t + (x - t) = x
      BY <1>1
    <3>2. s[x - t][2] = x
      BY <1>3, <3>1
    <3> QED
      BY <3>1, <3>2
  <2>2. ASSUME NEW i \in DOMAIN s
        PROVE  s[i][2] \in t + 1 .. m
    BY <1>1, <1>3
  <2> QED
    BY <2>1, <2>2
<1>5. \A i, j \in DOMAIN s : i < j => s[i][2] < s[j][2]
  BY <1>1, <1>3
<1> QED
  BY <1>2, <1>4, <1>5 DEF Carries, NumbersOf

(* What is kept of each stream says that the commands are in order.        *)
LEMMA CommandsFollow ==
  ASSUME Typed, CommandInv, Build = "O2"
  PROVE  CommandsInOrder
<1>1. handled \in Seq(Bytes) /\ Inbound \in Seq(Bytes) /\ conns \in [Clients -> ConnType]
  BY DEF CommandInv, Typed, ConnsOK
<1>2. ASSUME NEW i \in DOMAIN handled
      PROVE  handled[i] # None
  <2>1. handled[i] \in Bytes
    BY <1>1, ElementOfSeq, LenProperties
  <2>2. handled[i][2] # 0
    BY <2>1 DEF Bytes
  <2> QED
    BY <2>2 DEF None
<1>3. ASSUME NEW c \in Clients
      PROVE  /\ \E n \in 0 .. conns[c].next - 1 : Carries(handled, c, 1 .. n)
             /\ srv.pc # "Put" =>
                  Carries((handled \o InFlight) \o conns[c].toSrv, c, 1 .. conns[c].next - 1)
  <2> DEFINE k == conns[c]
             t == k.next - 1 - Len(k.toSrv)
             m == k.next - 1
  <2>1. k \in ConnType /\ k.next \in Nat \ {0} /\ k.toSrv \in Seq(Bytes) /\ Len(k.toSrv) \in Nat
    BY <1>1, ConnFields, LenProperties
  <2>2. t \in Int /\ m \in Int /\ m = t + Len(k.toSrv) /\ t <= m
    BY <2>1
  <2>3. StreamOK(c, handled, Inbound, k)
    BY DEF CommandInv
  <2>4. PICK h \in 0 .. t : Carries(handled, c, 1 .. h) /\ Carries(Inbound, c, h + 1 .. t)
    BY <2>3 DEF StreamOK
  <2>5. \A i \in DOMAIN k.toSrv : k.toSrv[i] = <<c, t + i>>
    BY <2>3 DEF StreamOK
  <2> HIDE DEF t, m
  <2>6. \E n \in 0 .. m : Carries(handled, c, 1 .. n)
    <3>1. h \in 0 .. m
      BY <2>2, <2>4
    <3> QED
      BY <2>4, <3>1
  <2>7. ASSUME srv.pc # "Put"
        PROVE  Carries((handled \o InFlight) \o k.toSrv, c, 1 .. m)
    <3>1. Inbound = InFlight
      BY <2>7, InFlightType, ConcatEmptySeq DEF Inbound
    <3>2. Carries(InFlight, c, h + 1 .. t) /\ InFlight \in Seq(Bytes)
      BY <1>1, <2>4, <3>1
    <3>3. Carries(handled \o InFlight, c, (1 .. h) \cup (h + 1 .. t))
      <4>1. \A x \in 1 .. h, y \in h + 1 .. t : x < y
        BY <2>2, <2>4
      <4> QED
        BY <1>1, <2>4, <3>2, <4>1, CarriesConcat
    <3>4. (1 .. h) \cup (h + 1 .. t) = 1 .. t /\ (1 .. t) \cup (t + 1 .. m) = 1 .. m
      BY <2>2, <2>4
    <3>5. handled \o InFlight \in Seq(Bytes)
      BY <1>1, <3>2, ConcatProperties
    <3>6. Carries(k.toSrv, c, t + 1 .. m)
      BY <2>1, <2>2, <2>5, CarriesNumbered
    <3>7. Carries((handled \o InFlight) \o k.toSrv, c, (1 .. t) \cup (t + 1 .. m))
      <4>1. \A x \in 1 .. t, y \in t + 1 .. m : x < y
        BY <2>2, <2>4
      <4> QED
        BY <2>1, <3>3, <3>4, <3>5, <3>6, <4>1, CarriesConcat
    <3> QED
      BY <3>4, <3>7
  <2> QED
    BY <2>6, <2>7 DEF m
<1> QED
  BY <1>2, <1>3 DEF CommandsInOrder

(* CommandsInOrder: no byte of a client is lost, duplicated or overtaken   *)
(* between its socket and the simulation, whatever the steps of the socket *)
(* thread (tcp_server.c, server_create) and of the simulation (tcp_server_ *)
(* read) that interleave, in a build that stores the byte before the index.*)
THEOREM CommandsKept ==
  ASSUME Build = "O2"
  PROVE  Spec => []CommandsInOrder
<1> DEFINE Inv == Typed /\ CommandInv
<1>1. Init => Inv
  BY InitInv, InitCommands, Parts
<1>2. Inv /\ [Next]_vars => Inv'
  BY NextTyped, StepCommands
<1>3. Inv => CommandsInOrder
  BY CommandsFollow
<1> QED
  BY <1>1, <1>2, <1>3, PTL DEF Spec
-----------------------------------------------------------------------------
(* The answers on the way are bytes of clients.                            *)
LEMMA OutParts ==
  ASSUME Typed, Build = "O2"
  PROVE  /\ Leaving \in Seq(Bytes \cup {None}) /\ Entering \in Seq(Bytes \cup {None})
         /\ Contents(rings.out) \in Seq(Bytes \cup {None}) /\ Settled(rings.out)
         /\ Outbound \in Seq(Bytes \cup {None})
         /\ rings.out.rptr \in IF srv.pc = "Get" /\ srv.step # 1 THEN 1 .. BufSize ELSE 0 .. BufSize - 1
         /\ srv.byte \in Bytes \cup {None} /\ sim.byte \in Bytes \cup {None}
         /\ srv \in SrvType /\ sim \in SimType /\ BufSize \in Nat \ {0, 1}
<1> DEFINE S == Bytes \cup {None}
<1>0. /\ rings.out.rptr \in IF srv.pc = "Get" /\ srv.step # 1 THEN 1 .. BufSize ELSE 0 .. BufSize - 1
      /\ srv \in SrvType /\ sim \in SimType /\ srv.byte \in S /\ sim.byte \in S /\ Settled(rings.out)
      /\ BufSize \in Nat \ {0, 1}
  BY Optimised, SizeAssumption DEF Typed, RingsOK, ThreadsOK, SrvType, SimType
<1>1. Contents(rings.out) \in Seq(S)
  BY <1>0, ContentsIs
<1>2. \A x \in S : <<x>> \in Seq(S)
  OBVIOUS
<1>3. <<>> \in Seq(S)
  BY EmptySeq
<1>4. srv.pc = "Get" /\ srv.step = 2 => rings.out.buf[rings.out.rptr - 1] \in S
  <2>1. ASSUME srv.pc = "Get" /\ srv.step = 2
        PROVE  rings.out.rptr - 1 \in 0 .. BufSize - 1
    BY <1>0, <2>1
  <2> QED
    BY <2>1, <1>0, RingFields
<1>5. Leaving \in Seq(S)
  BY <1>0, <1>2, <1>3, <1>4 DEF Leaving
<1>6. Entering \in Seq(S)
  BY <1>0, <1>2, <1>3 DEF Entering
<1>7. Outbound \in Seq(S)
  BY <1>1, <1>5, <1>6, ConcatProperties DEF Outbound
<1> QED
  BY <1>0, <1>1, <1>5, <1>6, <1>7

(* SrvGet moves the first answer out of the buffer in three steps.         *)
LEMMA GetOut ==
  ASSUME Typed, Build = "O2", SpaceOut, StoredOut, SrvGet
  PROVE  SpaceOut' /\ StoredOut' /\ Outbound' = Outbound
<1> DEFINE S == Bytes \cup {None}
           r == rings.out
<1>1. /\ Settled(r) /\ srv.pc = "Get" /\ srv \in SrvType /\ srv.step \in 1 .. 3
      /\ rings = [in |-> rings.in, out |-> rings.out] /\ sim' = sim
      /\ r.rptr \in IF srv.step # 1 THEN 1 .. BufSize ELSE 0 .. BufSize - 1
      /\ Contents(r) \in Seq(S) /\ Entering \in Seq(S) /\ BufSize \in Nat \ {0, 1}
  BY Optimised, OutParts DEF SrvType, SrvGet
<1>2. Entering' = Entering
  BY <1>1 DEF Entering, Handling, Kind, Quit
<1>3. <<>> \o Contents(r) = Contents(r)
  BY <1>1, ConcatEmptySeq
<1>4. CASE srv.step = 1 /\ Empty(r)
  <2>0. rings' = rings /\ srv' = [srv EXCEPT !.pc = "Loop", !.step = 1]
    BY <1>1, <1>4 DEF SrvGet, SrvGo
  <2>1. rings' = rings /\ srv'.pc = "Loop"
    BY <1>1, <2>0 DEF SrvType
  <2>2. Leaving = <<>> /\ Leaving' = <<>>
    BY <1>1, <1>4, <2>1 DEF Leaving
  <2> QED
    BY <1>1, <1>2, <2>1, <2>2 DEF Outbound, SpaceOut, StoredOut
<1>5. CASE srv.step = 1 /\ ~Empty(r)
  <2> DEFINE q == [r EXCEPT !.rptr = @ + 1]
  <2>1. rings' = [in |-> rings.in, out |-> q] /\ srv' = [srv EXCEPT !.step = 2]
    BY <1>1, <1>5 DEF SrvGet
  <2>2. r.rptr < BufSize
    BY <1>1, <1>5
  <2>3. /\ Settled(q) /\ q.wptr = r.wptr /\ q.buf = r.buf /\ (~Full(r) => ~Full(q))
        /\ <<q.buf[q.rptr - 1]>> \o Contents(q) = Contents(r)
    BY <1>1, <1>5, <2>2, Take
  <2> HIDE DEF q
  <2>4. srv'.pc = "Get" /\ srv'.step = 2
    BY <1>1, <2>1 DEF SrvType
  <2>5. Leaving = <<>> /\ Leaving' = <<q.buf[q.rptr - 1]>>
    BY <1>1, <1>5, <2>1, <2>4 DEF Leaving
  <2>6. Outbound' = Outbound
    BY <1>2, <1>3, <2>1, <2>3, <2>5 DEF Outbound
  <2> QED
    BY <1>1, <2>1, <2>3, <2>6 DEF SpaceOut, StoredOut
<1>6. CASE srv.step = 2
  <2>1. rings' = rings /\ srv' = [srv EXCEPT !.step = 3, !.byte = r.buf[r.rptr - 1]]
    BY <1>1, <1>6 DEF SrvGet
  <2>2. srv'.pc = "Get" /\ srv'.step = 3 /\ srv'.byte = r.buf[r.rptr - 1]
    BY <1>1, <2>1 DEF SrvType
  <2>3. Leaving' = Leaving
    BY <1>1, <1>6, <2>2 DEF Leaving
  <2> QED
    BY <1>1, <1>2, <2>1, <2>3 DEF Outbound, SpaceOut, StoredOut
<1>7. CASE srv.step = 3
  <2> DEFINE q == [r EXCEPT !.rptr = @ % BufSize]
  <2>1. rings' = [in |-> rings.in, out |-> q] /\ srv' = [srv EXCEPT !.pc = "Send", !.step = 1]
    BY <1>1, <1>7 DEF SrvGet, SrvGo
  <2>2. /\ Settled(q) /\ q.wptr = r.wptr /\ q.buf = r.buf /\ (~Full(r) => ~Full(q))
        /\ Contents(q) = Contents(r)
    BY <1>1, Wrap
  <2> HIDE DEF q
  <2>3. srv'.pc = "Send" /\ srv'.byte = srv.byte
    BY <1>1, <2>1 DEF SrvType
  <2>4. Leaving' = Leaving
    BY <1>1, <1>7, <2>3 DEF Leaving
  <2> QED
    BY <1>1, <1>2, <2>1, <2>2, <2>4 DEF Outbound, SpaceOut, StoredOut
<1> QED
  BY <1>1, <1>4, <1>5, <1>6, <1>7

(* SrvSend takes the first answer, whatever comes of it.                   *)
LEMMA SendOut ==
  ASSUME Typed, Build = "O2", SpaceOut, StoredOut, SrvSend
  PROVE  /\ SpaceOut' /\ StoredOut'
         /\ Outbound # <<>> /\ Outbound' = Tail(Outbound) /\ Head(Outbound) = srv.byte
<1> DEFINE S == Bytes \cup {None}
           C == Contents(rings.out)
           b == srv.byte
<1>1. /\ srv.pc = "Send" /\ srv \in SrvType /\ b \in S /\ C \in Seq(S) /\ Entering \in Seq(S)
      /\ sim' = sim /\ rings' = rings
  BY OutParts DEF SrvSend
<1>2. SrvGo("Get") \/ SrvGo("Abort")
  BY DEF SrvSend
<1>3. srv'.pc \in {"Get", "Abort"} /\ srv'.step = 1
  BY <1>1, <1>2 DEF SrvGo, SrvType
<1>4. Leaving = <<b>> /\ Leaving' = <<>> /\ Entering' = Entering
  BY <1>1, <1>3 DEF Leaving, Entering, Handling, Kind, Quit
<1>5. Outbound = (<<b>> \o C) \o Entering /\ Outbound' = (<<>> \o C) \o Entering
  BY <1>1, <1>4 DEF Outbound
<1>6. <<>> \o C = C /\ C \o Entering \in Seq(S)
  BY <1>1, ConcatEmptySeq, ConcatProperties
<1>7. Outbound = <<b>> \o (C \o Entering)
  BY <1>1, <1>5, ConcatFirst
<1>8. Outbound # <<>> /\ Head(Outbound) = b /\ Tail(Outbound) = C \o Entering
  BY <1>1, <1>6, <1>7, FirstOf
<1> QED
  BY <1>1, <1>5, <1>6, <1>8 DEF SpaceOut, StoredOut

(* SimPut moves the byte that the simulation holds into the contents.      *)
LEMMA PutOut ==
  ASSUME Typed, Build = "O2", SpaceOut, StoredOut, SimPut
  PROVE  SpaceOut' /\ StoredOut' /\ Outbound' = Outbound
<1> DEFINE S == Bytes \cup {None}
           r == rings.out
           b == sim.byte
<1>1. /\ Settled(r) /\ ~Full(r) /\ sim.pc = "Put" /\ sim.step \in 1 .. 2 /\ b \in S /\ sim \in SimType
      /\ Len(PutSteps) = 2 /\ rings = [in |-> rings.in, out |-> rings.out] /\ srv' = srv
      /\ PutSteps[1] = "byte" /\ PutSteps[2] = "both" /\ r.rptr \in 0 .. BufSize
      /\ (srv.pc = "Get" /\ srv.step = 2 => r.rptr >= 1) /\ srv \in SrvType
      /\ Contents(r) \in Seq(S) /\ Leaving \in Seq(S) /\ BufSize \in Nat \ {0, 1}
  BY Optimised, OutParts DEF Typed, ThreadsOK, SimPut, SpaceOut, Settled, Ring
<1>2. Outbound = (Leaving \o Contents(r)) \o <<b>>
  BY <1>1 DEF Outbound, Entering
<1>3. CASE sim.step = 1
  <2> DEFINE q == Store(r, r.wptr, b)
  <2>1. rings' = [in |-> rings.in, out |-> q] /\ sim' = [sim EXCEPT !.step = 2]
    <3>1. PutSteps[sim.step] = "byte" /\ sim.step # Len(PutSteps) /\ sim.step + 1 = 2
      BY <1>1, <1>3
    <3>2. rings' = [rings EXCEPT !.out = Put(@, "byte", b)] /\ sim' = [sim EXCEPT !.step = sim.step + 1]
      BY <3>1 DEF SimPut
    <3>3. Put(r, "byte", b) = q
      BY DEF Put
    <3>4. sim' = [sim EXCEPT !.step = 2]
      BY <3>1, <3>2
    <3> QED
      BY <1>1, <3>2, <3>3, <3>4
  <2>2. /\ Contents(q) = Contents(r) /\ q.buf[q.wptr] = b /\ ~Full(q) /\ q.rptr = r.rptr
        /\ r.rptr >= 1 => q.buf[q.rptr - 1] = r.buf[r.rptr - 1]
    BY <1>1, StoreByte
  <2> HIDE DEF q
  <2>3. sim'.pc = "Put" /\ sim'.byte = b /\ sim'.step = 2
    BY <1>1, <2>1 DEF SimType
  <2>4. Leaving' = Leaving
    BY <1>1, <2>1, <2>2 DEF Leaving
  <2>5. Outbound' = (Leaving \o Contents(r)) \o <<b>>
    BY <2>1, <2>2, <2>3, <2>4 DEF Outbound, Entering
  <2> QED
    BY <1>2, <2>1, <2>2, <2>3, <2>5 DEF SpaceOut, StoredOut
<1>4. CASE sim.step = 2
  <2> DEFINE q == [r EXCEPT !.wptr = (@ + 1) % BufSize]
  <2>1. rings' = [in |-> rings.in, out |-> q] /\ SimGo("Tick")
    BY <1>1, <1>4 DEF SimPut, Put
  <2>2. q.rptr = r.rptr /\ q.buf = r.buf /\ Contents(q) = Append(Contents(r), r.buf[r.wptr])
    BY <1>1, StoreIndex
  <2>3. r.buf[r.wptr] = b
    BY <1>1, <1>4 DEF StoredOut
  <2> HIDE DEF q
  <2>4. sim'.pc = "Tick" /\ sim'.step = 1
    BY <1>1, <2>1 DEF SimType, SimGo
  <2>5. Leaving' = Leaving
    BY <1>1, <2>1, <2>2 DEF Leaving
  <2>6. Entering' = <<>>
    BY <2>4 DEF Entering, Handling
  <2>7. Outbound' = (Leaving \o Append(Contents(r), b)) \o <<>>
    BY <2>1, <2>2, <2>3, <2>5, <2>6 DEF Outbound
  <2>8. Leaving \o Append(Contents(r), b) = Append(Leaving \o Contents(r), b) /\ Leaving \o Contents(r) \in Seq(S)
        /\ Append(Leaving \o Contents(r), b) \in Seq(S)
    BY <1>1, ConcatFirst, ConcatProperties, AppendProperties
  <2>9. Outbound' = Append(Leaving \o Contents(r), b)
    BY <1>1, <2>7, <2>8, ConcatFirst
  <2>10. Outbound = Append(Leaving \o Contents(r), b)
    BY <1>1, <1>2, <2>8, ConcatFirst
  <2> QED
    BY <2>4, <2>9, <2>10 DEF SpaceOut, StoredOut
<1> QED
  BY <1>1, <1>3, <1>4

(* What the simulation takes is a byte; an 'R' is one of those answered.   *)
LEMMA KindOf ==
  ASSUME NEW b \in Bytes
  PROVE  /\ b[1] \in Clients /\ b[2] \in 1 .. Quit(b[1]) /\ b # None
         /\ Kind(b) \in {"w", "R", "Q"}
         /\ (Kind(b) = "R" <=> b[2] \in Answers(b[1]))
         /\ (Kind(b) = "Q" <=> b[2] = Quit(b[1]))
<1> DEFINE c == b[1]
           n == b[2]
<1>1. c \in Clients /\ n \in Nat \ {0} /\ n <= Quit(c)
  BY DEF Bytes
<1>2. b # None
  BY <1>1 DEF None
<1>3. Len(Script[c]) \in Nat /\ Quit(c) = Len(Script[c]) + 1
  BY <1>1, ScriptFacts
<1>4. n # Quit(c) => n \in 1 .. Len(Script[c])
  BY <1>1, <1>3
<1>5. n # Quit(c) => Script[c][n] \in {"w", "R"}
  <2>1. Script[c] \in Seq({"w", "R"})
    BY <1>1, ClientAssumption, LenProperties, ElementOfSeq DEF Clients
  <2> QED
    BY <1>4, <2>1, ElementOfSeq
<1>6. Kind(b) = IF n = Quit(c) THEN "Q" ELSE Script[c][n]
  BY DEF Kind
<1>7. n \in Answers(c) <=> n \in 1 .. Len(Script[c]) /\ Script[c][n] = "R"
  BY DEF Answers
<1>8. n = Quit(c) => n \notin 1 .. Len(Script[c])
  BY <1>3
<1>9. n \in 1 .. Quit(c)
  BY <1>1, <1>3
<1> HIDE DEF c, n
<1>10. /\ Kind(b) \in {"w", "R", "Q"} /\ (Kind(b) = "R" <=> n \in Answers(c))
       /\ (Kind(b) = "Q" <=> n = Quit(c))
  BY <1>4, <1>5, <1>6, <1>7, <1>8
<1> QED
  BY <1>1, <1>2, <1>9, <1>10 DEF c, n

(* SimRead: the command it takes is answered if it is an 'R'.              *)
LEMMA ReadOut ==
  ASSUME Typed, CommandInv, Build = "O2", SpaceOut, StoredOut, Latest, SimRead, Outbound \in Seq(Bytes)
  PROVE  /\ SpaceOut' /\ StoredOut' /\ Latest' /\ Outbound' \in Seq(Bytes)
         /\ sim.step # 2 => Outbound' = Outbound
         /\ sim.step = 2 => /\ sim'.byte = Head(Inbound) /\ sim'.byte \in Bytes
                            /\ Outbound' = IF Kind(sim'.byte) = "R" THEN Append(Outbound, sim'.byte)
                                           ELSE Outbound
         /\ (Handling' <=> sim.step = 2)
         /\ sim'.pc = "Close" => Handling /\ sim'.step = 1 /\ sim'.byte = sim.byte /\ Kind(sim.byte) = "Q"
<1> DEFINE S == Bytes \cup {None}
           X == Leaving \o Contents(rings.out)
<1>1. /\ sim.pc = "Tick" /\ sim \in SimType /\ sim.step \in 1 .. 3 /\ rings.out' = rings.out /\ srv' = srv
      /\ X \in Seq(S) /\ handled \in Seq(Bytes) /\ Inbound \in Seq(Bytes)
      /\ SpaceIn /\ StoredIn /\ rings = [in |-> rings.in, out |-> rings.out]
  BY OutParts, Optimised, ConcatProperties DEF SimRead, SimType, CommandInv
<1>2. Leaving' = Leaving /\ Outbound = X \o Entering /\ Outbound' = X \o Entering'
  BY <1>1 DEF Leaving, Outbound
<1>3. X \o <<>> = X
  BY <1>1, ConcatEmptySeq
<1>4. CASE sim.step = 1
  <2>1. sim' = [sim EXCEPT !.step = 2]
    BY <1>1, <1>4 DEF SimRead
  <2>2. sim'.pc = "Tick" /\ sim'.step = 2
    BY <1>1, <2>1 DEF SimType
  <2>3. Entering = <<>> /\ Entering' = <<>>
    BY <1>1, <1>4, <2>2 DEF Entering, Handling
  <2> QED
    BY <1>1, <1>2, <1>4, <2>2, <2>3 DEF SpaceOut, StoredOut, Latest, Handling
<1>5. CASE sim.step = 2
  <2>1. Inbound # <<>> /\ sim'.byte = Head(Inbound) /\ handled' = Append(handled, Head(Inbound))
    BY <1>1, <1>5, TakeInbound
  <2>2. Head(Inbound) \in Bytes
    BY <1>1, <2>1, HeadTailProperties
  <2>3. sim'.pc = "Tick" /\ sim'.step = 3
    BY <1>1, <1>5 DEF SimRead, SimType
  <2>4. Entering = <<>> /\ Entering' = IF Kind(sim'.byte) = "R" THEN <<sim'.byte>> ELSE <<>>
    BY <1>1, <1>5, <2>3 DEF Entering, Handling, Kind, Quit
  <2>5. Outbound = X
    BY <1>2, <1>3, <2>4
  <2>6. Outbound' = IF Kind(sim'.byte) = "R" THEN Append(Outbound, sim'.byte) ELSE Outbound
    <3>1. X \o <<Head(Inbound)>> = Append(X, Head(Inbound))
      BY <1>1, <2>2, AppendIsConcat
    <3> QED
      BY <1>2, <1>3, <2>1, <2>4, <2>5, <3>1
  <2>7. Outbound' \in Seq(Bytes)
    BY <2>1, <2>2, <2>6, AppendProperties
  <2>8. handled' # <<>> /\ handled'[Len(handled')] = Head(Inbound)
    <3>1. /\ Append(handled, Head(Inbound)) # <<>> /\ Len(handled') = Len(handled) + 1
          /\ Append(handled, Head(Inbound))[Len(handled) + 1] = Head(Inbound)
      BY <1>1, <2>1, <2>2, AppendProperties
    <3> QED
      BY <2>1, <3>1
  <2>9. Latest'
    BY <2>1, <2>8 DEF Latest
  <2> QED
    BY <1>5, <2>1, <2>2, <2>3, <2>6, <2>7, <2>9 DEF SpaceOut, StoredOut, Handling
<1>6. CASE sim.step = 3
  <2>1. Handling /\ handled # <<>> /\ sim.byte = handled[Len(handled)]
    BY <1>1, <1>6 DEF Handling, Latest
  <2>2. sim.byte \in Bytes
    <3>1. Len(handled) \in 1 .. Len(handled)
      BY <1>1, <2>1, EmptySeq, LenProperties
    <3> QED
      BY <1>1, <2>1, <3>1, ElementOfSeq
  <2>3. sim.byte # None /\ Kind(sim.byte) \in {"w", "R", "Q"}
    BY <2>2, KindOf
  <2> DEFINE pc == CASE Kind(sim.byte) = "w" -> "Tick" [] Kind(sim.byte) = "R" -> "Full" [] OTHER -> "Close"
  <2>4. SimGo(pc)
    BY <1>1, <1>6, <2>3 DEF SimRead
  <2> HIDE DEF pc
  <2>5. sim'.pc = pc /\ sim'.step = 1 /\ sim'.byte = sim.byte /\ handled' = handled
    BY <1>1, <1>6, <2>4 DEF SimGo, SimType, SimRead
  <2>6. pc = "Full" <=> Kind(sim.byte) = "R"
    BY <2>3 DEF pc
  <2>7. pc \in {"Tick", "Full", "Close"} /\ (pc = "Close" => Kind(sim.byte) = "Q")
    BY <2>3 DEF pc
  <2>8. Entering' = Entering
    BY <1>1, <2>1, <2>5, <2>6, <2>7 DEF Entering, Handling
  <2>9. Latest' /\ ~Handling'
    BY <2>1, <2>5 DEF Latest, Handling
  <2> QED
    BY <1>1, <1>2, <1>6, <2>1, <2>5, <2>7, <2>8, <2>9 DEF SpaceOut, StoredOut
<1> QED
  BY <1>1, <1>4, <1>5, <1>6

(* The other steps leave the answers on the way as they are.               *)
LEMMA OtherOut ==
  ASSUME Typed, Build = "O2", SpaceOut, StoredOut, Latest, [Next]_vars,
         ~SrvGet, ~SrvSend, ~SimPut, ~SimRead
  PROVE  /\ SpaceOut' /\ StoredOut' /\ Latest' /\ Outbound' = Outbound
         /\ (Handling' <=> Handling) /\ sim'.byte = sim.byte /\ handled' = handled
         /\ sim'.pc = "Close" => sim.pc = "Close"
<1>1. srv \in SrvType /\ sim \in SimType /\ rings = [in |-> rings.in, out |-> rings.out]
  BY Optimised DEF Typed, ThreadsOK
<1>2. CASE UNCHANGED <<rings, srv, sim, handled>>
  <2>1. Outbound' = Outbound /\ Handling' = Handling
    BY <1>2 DEF Outbound, Leaving, Entering, Handling, Kind, Quit
  <2> QED
    BY <1>2, <2>1 DEF SpaceOut, StoredOut, Latest
<1>3. CASE SrvSelect \/ SrvAccept \/ SrvIn \/ SrvRoom \/ SrvRead \/ SrvPut \/ SrvOut \/ SrvEnd
  <2>1. sim' = sim /\ handled' = handled
    BY <1>3 DEF SrvSelect, SrvAccept, SrvIn, SrvRoom, SrvRead, SrvPut, SrvOut, SrvEnd
  <2>2. rings'.out = rings.out
    BY <1>1, <1>3 DEF SrvSelect, SrvAccept, SrvIn, SrvRoom, SrvRead, SrvPut, SrvOut, SrvEnd
  <2>3. srv.pc \notin {"Get", "Send"} /\ srv'.pc # "Send" /\ (srv'.pc = "Get" => srv'.step = 1)
    <3>1. CASE SrvSelect \/ SrvAccept \/ SrvIn \/ SrvRoom \/ SrvEnd
      BY <1>1, <3>1 DEF SrvSelect, SrvAccept, SrvIn, SrvRoom, SrvEnd, SrvGo, SrvType
    <3>2. CASE SrvOut
      BY <1>1, <3>2 DEF SrvOut, SrvGo, SrvType
    <3>3. CASE SrvRead
      <4>1. \/ SrvGo("Out") \/ SrvGo("Abort")
            \/ srv' = [srv EXCEPT !.pc = "Put", !.step = 1, !.byte = Head(Peer(cfd).toSrv)]
        BY <3>3 DEF SrvRead
      <4> QED
        BY <1>1, <3>3, <4>1 DEF SrvRead, SrvGo, SrvType
    <3>4. CASE SrvPut
      <4>1. \/ srv' = [srv EXCEPT !.pc = "Room", !.step = 1, !.byte = None]
            \/ srv' = [srv EXCEPT !.step = @ + 1]
        BY <3>4 DEF SrvPut
      <4> QED
        BY <1>1, <3>4, <4>1 DEF SrvPut, SrvType
    <3> QED
      BY <1>3, <3>1, <3>2, <3>3, <3>4
  <2>4. Leaving = <<>> /\ Leaving' = <<>>
    BY <2>3 DEF Leaving
  <2>5. Entering' = Entering /\ Handling' = Handling
    BY <2>1 DEF Entering, Handling, Kind, Quit
  <2> QED
    BY <2>1, <2>2, <2>4, <2>5 DEF Outbound, SpaceOut, StoredOut, Latest
<1>4. CASE SimFull \/ SimClose \/ SimFinish \/ SimJoin
  <2>1. srv' = srv /\ rings' = rings /\ handled' = handled
    BY <1>4 DEF SimFull, SimClose, SimFinish, SimJoin
  <2>2. Leaving' = Leaving
    BY <2>1 DEF Leaving
  <2>3. CASE SimFull
    <3>1. sim.pc = "Full" /\ (SimGo("Stuck") \/ (SimGo("Put") /\ ~Full(rings.out)))
      BY <2>3 DEF SimFull
    <3>2. sim'.pc \in {"Stuck", "Put"} /\ sim'.byte = sim.byte /\ sim'.step = 1 /\ (sim'.pc = "Put" => ~Full(rings.out))
      BY <1>1, <3>1 DEF SimGo, SimType
    <3>3. Entering' = Entering /\ ~Handling /\ ~Handling'
      BY <3>1, <3>2 DEF Entering, Handling
    <3> QED
      BY <2>1, <2>2, <3>2, <3>3 DEF Outbound, SpaceOut, StoredOut, Latest
  <2>4. CASE SimClose \/ SimFinish \/ SimJoin
    <3>1. /\ sim.pc \in {"Close", "Join"} \/ (sim.pc = "Tick" /\ sim.step = 1)
          /\ sim'.pc \in {"Tick", "Close", "Join", "Done"} /\ (sim'.pc = "Close" => sim.pc = "Close")
          /\ (sim'.pc = "Tick" => sim'.step = 1) /\ sim'.byte = sim.byte
      <4>1. CASE SimClose
        <5>1. \/ sim' = [sim EXCEPT !.pc = "Tick"] /\ sim.step = 1
              \/ sim' = [sim EXCEPT !.step = 2, !.fd = cfd]
              \/ sim' = [sim EXCEPT !.step = 3] \/ SimGo("Tick")
          BY <4>1 DEF SimClose
        <5> QED
          BY <1>1, <4>1, <5>1 DEF SimClose, SimGo, SimType
      <4>2. CASE SimFinish \/ SimJoin
        BY <1>1, <4>2 DEF SimFinish, SimJoin, SimGo, SimType
      <4> QED
        BY <2>4, <4>1, <4>2
    <3>2. Entering = <<>> /\ Entering' = <<>> /\ ~Handling /\ ~Handling'
      BY <3>1 DEF Entering, Handling
    <3> QED
      BY <2>1, <2>2, <3>1, <3>2 DEF Outbound, SpaceOut, StoredOut, Latest
  <2> QED
    BY <1>4, <2>3, <2>4
<1>5. CASE Client
  BY <1>2, <1>5, ClientType DEF Client
<1>6. CASE UNCHANGED vars
  BY <1>2, <1>6 DEF vars
<1> QED
  BY <1>3, <1>4, <1>5, <1>6 DEF Next, Server, Simulation

(* What each step of a client does to its connection.                      *)
LEMMA ClientStep ==
  ASSUME Typed, NEW c \in Clients
  PROVE  /\ Connect(c) => /\ conns[c].st = "new" /\ conns'[c].st = "backlog"
                          /\ conns'[c].peer = conns[c].peer /\ conns'[c].next = conns[c].next
                          /\ conns'[c].got = conns[c].got /\ conns'[c].toCli = conns[c].toCli
         /\ Send(c) => /\ conns[c].peer = "up" /\ conns'[c].peer = "up" /\ conns'[c].st = conns[c].st
                       /\ conns'[c].next <= Quit(c) /\ conns[c].next <= Quit(c)
                       /\ conns'[c].got = conns[c].got /\ conns'[c].toCli = conns[c].toCli
         /\ Receive(c) => /\ conns[c].peer = "up" /\ conns'[c].peer = "up" /\ conns'[c].st = conns[c].st
                          /\ conns'[c].next = conns[c].next /\ conns[c].toCli # <<>>
                          /\ conns'[c].got = Append(conns[c].got, Head(conns[c].toCli))
                          /\ conns'[c].toCli = Tail(conns[c].toCli)
         /\ LeaveQuit(c) => /\ conns[c].peer = "up" /\ conns'[c].peer = "fin" /\ conns'[c].st = conns[c].st
                            /\ conns[c].next = Quit(c) /\ conns'[c].next = Quit(c) + 1
                            /\ conns'[c].got = conns[c].got /\ conns'[c].toCli = conns[c].toCli
                            /\ Len(conns[c].got) = Cardinality(Answers(c))
         /\ LeaveClose(c) => /\ conns[c].peer = "up" /\ conns'[c].peer # "up" /\ conns'[c].next = conns[c].next
<1>1. conns \in [Clients -> ConnType] /\ conns[c] \in ConnType /\ conns[c].next \in Nat
  BY ConnFields DEF Typed, ConnsOK
<1>2. Len(Script[c]) \in Nat /\ Quit(c) = Len(Script[c]) + 1
  BY ScriptFacts
<1>3. Connect(c) => /\ conns[c].st = "new" /\ conns'[c].st = "backlog"
                    /\ conns'[c].peer = conns[c].peer /\ conns'[c].next = conns[c].next
                    /\ conns'[c].got = conns[c].got /\ conns'[c].toCli = conns[c].toCli
  BY <1>1 DEF Connect, ConnType
<1>4. Send(c) => /\ conns[c].peer = "up" /\ conns'[c].peer = "up" /\ conns'[c].st = conns[c].st
                 /\ conns'[c].next <= Quit(c) /\ conns[c].next <= Quit(c)
                 /\ conns'[c].got = conns[c].got /\ conns'[c].toCli = conns[c].toCli
  <2> SUFFICES ASSUME Send(c)
               PROVE  /\ conns[c].peer = "up" /\ conns'[c].peer = "up" /\ conns'[c].st = conns[c].st
                      /\ conns'[c].next <= Quit(c) /\ conns[c].next <= Quit(c)
                      /\ conns'[c].got = conns[c].got /\ conns'[c].toCli = conns[c].toCli
    OBVIOUS
  <2>1. conns[c].peer = "up" /\ conns[c].next <= Len(Script[c])
    BY DEF Send, Connected
  <2>2. conns' = [conns EXCEPT ![c].toSrv = Append(@, <<c, conns[c].next>>), ![c].next = @ + 1]
    BY DEF Send
  <2>3. /\ conns'[c].peer = conns[c].peer /\ conns'[c].st = conns[c].st /\ conns'[c].next = conns[c].next + 1
        /\ conns'[c].got = conns[c].got /\ conns'[c].toCli = conns[c].toCli
    BY <1>1, <2>2 DEF ConnType
  <2> QED
    BY <1>1, <1>2, <2>1, <2>3
<1>5. Receive(c) => /\ conns[c].peer = "up" /\ conns'[c].peer = "up" /\ conns'[c].st = conns[c].st
                    /\ conns'[c].next = conns[c].next /\ conns[c].toCli # <<>>
                    /\ conns'[c].got = Append(conns[c].got, Head(conns[c].toCli))
                    /\ conns'[c].toCli = Tail(conns[c].toCli)
  BY <1>1 DEF Receive, Connected, ConnType
<1>6. LeaveQuit(c) => /\ conns[c].peer = "up" /\ conns'[c].peer = "fin" /\ conns'[c].st = conns[c].st
                      /\ conns[c].next = Quit(c) /\ conns'[c].next = Quit(c) + 1
                      /\ conns'[c].got = conns[c].got /\ conns'[c].toCli = conns[c].toCli
                      /\ Len(conns[c].got) = Cardinality(Answers(c))
  BY <1>1 DEF LeaveQuit, Connected, ConnType
<1>7. LeaveClose(c) => conns[c].peer = "up" /\ conns'[c].peer # "up" /\ conns'[c].next = conns[c].next
  BY <1>1 DEF LeaveClose, Connected, ConnType
<1> QED
  BY <1>3, <1>4, <1>5, <1>6, <1>7

(* Closing a connection changes no more than its state.                    *)
OnlySt(c) == /\ conns'[c].peer = conns[c].peer /\ conns'[c].next = conns[c].next
             /\ conns'[c].got = conns[c].got /\ conns'[c].toCli = conns[c].toCli

LEMMA SetSt ==
  ASSUME NEW k \in ConnType, NEW x
  PROVE  /\ [k EXCEPT !.st = x].st = x /\ [k EXCEPT !.st = x].peer = k.peer
         /\ [k EXCEPT !.st = x].next = k.next /\ [k EXCEPT !.st = x].got = k.got
         /\ [k EXCEPT !.st = x].toCli = k.toCli
BY DEF ConnType

(* The steps of the two threads close, open, read and send.                *)
LEMMA ThreadStep ==
  ASSUME Typed, Server \/ Simulation \/ SimFinish, NEW c \in Clients
  PROVE  OnlySt(c) \/ (SrvSend /\ conns'[c].next = conns[c].next
                       /\ \/ conns'[c].peer = conns[c].peer
                          \/ conns[c].peer \in {"fin", "gone"} /\ conns'[c].peer = "gone")
<1>1. conns \in [Clients -> ConnType] /\ conns[c] \in ConnType
  BY DEF Typed, ConnsOK
<1>2. CASE conns' = conns
  BY <1>2 DEF OnlySt
<1>3. CASE ClientClose
  BY <1>1, <1>3, SetSt DEF ClientClose, OnlySt
<1>4. CASE SrvSelect
  BY <1>2, <1>3, <1>4 DEF SrvSelect
<1>5. CASE SrvAccept
  <2>1. conns' = conns \/ \E d \in Waiting : \E st \in {"open", "closed"} : conns' = [conns EXCEPT ![d].st = st]
    BY <1>5 DEF SrvAccept
  <2>2. ASSUME NEW d \in Waiting, NEW st, conns' = [conns EXCEPT ![d].st = st]
        PROVE  OnlySt(c)
    <3>1. d \in Clients /\ conns[d] \in ConnType
      BY <1>1 DEF Waiting
    <3>2. conns'[c] = IF c = d THEN [conns[c] EXCEPT !.st = st] ELSE conns[c]
      BY <1>1, <2>2, <3>1
    <3> QED
      BY <1>1, <3>2, SetSt DEF OnlySt
  <2> QED
    BY <1>2, <2>1, <2>2
<1>6. CASE SrvRead
  <2>1. conns' = conns \/ ClientClose \/ conns' = [conns EXCEPT ![fds[cfd]].toSrv = Tail(@)]
    BY <1>6 DEF SrvRead
  <2>2. CASE conns' = [conns EXCEPT ![fds[cfd]].toSrv = Tail(@)]
    <3> DEFINE d == fds[cfd]
    <3> HIDE DEF d
    <3>1. conns'[c] = conns[c] \/ conns'[c] = [conns[c] EXCEPT !.toSrv = Tail(@)]
      BY <1>1, <2>2 DEF d
    <3> QED
      BY <1>1, <3>1 DEF OnlySt, ConnType
  <2> QED
    BY <1>2, <1>3, <2>1, <2>2
<1>7. CASE SrvSend
  <2>1. \/ conns' = conns \/ ClientClose
        \/ conns' = [conns EXCEPT ![fds[cfd]].toCli = Append(@, srv.byte)]
        \/ conns' = [conns EXCEPT ![fds[cfd]].peer = "gone"] /\ conns[fds[cfd]].peer \in {"fin", "gone"}
    BY <1>7 DEF SrvSend, Peer
  <2> DEFINE d == fds[cfd]
  <2>2. CASE conns' = [conns EXCEPT ![d].toCli = Append(@, srv.byte)]
    <3> HIDE DEF d
    <3>1. conns'[c] = conns[c] \/ conns'[c] = [conns[c] EXCEPT !.toCli = Append(@, srv.byte)]
      BY <1>1, <2>2
    <3> QED
      BY <1>1, <1>7, <3>1 DEF ConnType
  <2>3. CASE conns' = [conns EXCEPT ![d].peer = "gone"] /\ conns[d].peer \in {"fin", "gone"}
    <3> HIDE DEF d
    <3>1. conns'[c] = conns[c] \/ (conns'[c] = [conns[c] EXCEPT !.peer = "gone"] /\ c = d)
      BY <1>1, <2>3
    <3>2. conns'[c] = [conns[c] EXCEPT !.peer = "gone"] => conns'[c].peer = "gone" /\ conns'[c].next = conns[c].next
      BY <1>1 DEF ConnType
    <3> QED
      BY <1>1, <1>7, <2>3, <3>1, <3>2
  <2> QED
    BY <1>2, <1>3, <2>1, <2>2, <2>3
<1>8. CASE SrvEnd
  <2>1. conns'[c] = conns[c] \/ conns'[c] = [conns[c] EXCEPT !.st = "closed"]
    BY <1>1, <1>8 DEF SrvEnd
  <2> DEFINE q == [conns[c] EXCEPT !.st = "closed"]
  <2>2. q.peer = conns[c].peer /\ q.next = conns[c].next /\ q.got = conns[c].got /\ q.toCli = conns[c].toCli
    BY <1>1, SetSt
  <2> HIDE DEF q
  <2>3. conns'[c] = conns[c] \/ conns'[c] = q
    BY <2>1 DEF q
  <2> QED
    BY <2>2, <2>3 DEF OnlySt
<1>9. CASE SimClose
  <2>1. conns'[c] = conns[c] \/ conns'[c] = [conns[c] EXCEPT !.st = "closed"]
    BY <1>1, <1>9 DEF SimClose
  <2> DEFINE q == [conns[c] EXCEPT !.st = "closed"]
  <2>2. q.peer = conns[c].peer /\ q.next = conns[c].next /\ q.got = conns[c].got /\ q.toCli = conns[c].toCli
    BY <1>1, SetSt
  <2> HIDE DEF q
  <2>3. conns'[c] = conns[c] \/ conns'[c] = q
    BY <2>1 DEF q
  <2> QED
    BY <2>2, <2>3 DEF OnlySt
<1>10. CASE SrvIn \/ SrvRoom \/ SrvPut \/ SrvOut \/ SrvGet \/ SimRead \/ SimFull \/ SimPut \/ SimFinish \/ SimJoin
  BY <1>2, <1>10 DEF SrvIn, SrvRoom, SrvPut, SrvOut, SrvGet, SimRead, SimFull, SimPut, SimFinish, SimJoin
<1> QED
  BY <1>4, <1>5, <1>6, <1>7, <1>8, <1>9, <1>10 DEF Server, Simulation

(* A client that went away without quitting never comes back.              *)
LEMMA EarlyStays ==
  ASSUME Typed, QuitsLast, [Next]_vars
  PROVE  QuitsLast' /\ (Early => Early')
<1>1. ASSUME NEW c \in Clients
      PROVE  /\ conns'[c].next > Quit(c) => conns'[c].peer \in {"fin", "gone"}
             /\ conns[c].peer # "up" /\ conns[c].next <= Quit(c)
                  => conns'[c].peer # "up" /\ conns'[c].next <= Quit(c)
  <2>1. /\ conns[c].next \in Nat /\ conns'[c].next \in Nat /\ Quit(c) \in Nat
        /\ conns[c].next > Quit(c) => conns[c].peer \in {"fin", "gone"}
    <3>1. conns[c].next \in Nat /\ conns'[c].next \in Nat
      BY NextTyped, ConnFields DEF Typed, ConnsOK
    <3> QED
      BY <3>1, ScriptFacts DEF QuitsLast
  <2>2. CASE conns'[c] = conns[c]
    BY <2>1, <2>2
  <2>3. CASE Client
    <3>1. PICK d \in Clients : Connect(d) \/ Send(d) \/ Receive(d) \/ LeaveQuit(d) \/ LeaveClose(d)
      BY <2>3 DEF Client
    <3>2. CASE d # c
      BY <2>2, <3>1, <3>2, ClientType
    <3>3. CASE d = c
      BY <2>1, <3>1, <3>3, ClientStep
    <3> QED
      BY <3>2, <3>3
  <2>4. CASE Server \/ Simulation \/ SimFinish
    BY <2>1, <2>4, ThreadStep DEF OnlySt
  <2>5. CASE UNCHANGED vars
    BY <2>2, <2>5 DEF vars
  <2> QED
    BY <2>3, <2>4, <2>5 DEF Next
<1> QED
  BY <1>1 DEF QuitsLast, Early

(* Sequences of the bytes of one client.                                   *)
LEMMA OnlyEmpty ==
  ASSUME NEW s \in Seq(Bytes), OnlyOf(s, 0)
  PROVE  s = <<>>
<1>1. ASSUME s # <<>>
      PROVE  FALSE
  <2>1. 1 \in DOMAIN s /\ s[1] \in Bytes
    BY <1>1, EmptySeq, LenProperties, ElementOfSeq
  <2>2. s[1][1] = 0 /\ s[1][1] \in Clients
    BY <2>1, KindOf DEF OnlyOf
  <2> QED
    BY <2>2, ScriptFacts
<1> QED
  BY <1>1

LEMMA OnlyBytes ==
  ASSUME NEW s \in Seq(Bytes \cup {None}), NEW c \in Clients, OnlyOf(s, c)
  PROVE  s \in Seq(Bytes)
<1>1. DOMAIN s = 1 .. Len(s) /\ Len(s) \in Nat /\ s \in [1 .. Len(s) -> Bytes \cup {None}]
  BY LenProperties
<1>2. ASSUME NEW i \in 1 .. Len(s)
      PROVE  s[i] \in Bytes
  <2>1. s[i][1] = c /\ None[1] = 0 /\ c # 0
    BY <1>1, ScriptFacts DEF OnlyOf, None
  <2> QED
    BY <1>1, <2>1
<1>3. s \in [1 .. Len(s) -> Bytes]
  BY <1>1, <1>2
<1> QED
  BY <1>1, <1>3, SeqDef

LEMMA OnlyAppend ==
  ASSUME NEW s \in Seq(Bytes \cup {None}), NEW c, OnlyOf(s, c), NEW b \in Bytes \cup {None}, b[1] = c
  PROVE  OnlyOf(Append(s, b), c)
BY AppendProperties, LenProperties DEF OnlyOf

LEMMA OnlyTail ==
  ASSUME NEW s \in Seq(Bytes), NEW c, OnlyOf(s, c), s # <<>>
  PROVE  OnlyOf(Tail(s), c) /\ Head(s)[1] = c /\ Head(s) \in Bytes /\ Tail(s) \in Seq(Bytes)
<1>1. /\ DOMAIN s = 1 .. Len(s) /\ Len(s) \in Nat \ {0} /\ Tail(s) \in Seq(Bytes) /\ Head(s) \in Bytes
      /\ DOMAIN Tail(s) = 1 .. Len(s) - 1 /\ Head(s) = s[1]
      /\ \A i \in 1 .. Len(s) - 1 : Tail(s)[i] = s[i + 1]
  BY HeadTailProperties, LenProperties, EmptySeq
<1>2. \A i \in 1 .. Len(s) - 1 : i + 1 \in 1 .. Len(s)
  BY <1>1
<1> QED
  BY <1>1, <1>2 DEF OnlyOf

(* Two sequences are of one client when both are.                          *)
LEMMA OnlyJoin ==
  ASSUME NEW s \in Seq(Bytes \cup {None}), NEW t \in Seq(Bytes \cup {None}), NEW c
  PROVE  OnlyOf(s \o t, c) <=> OnlyOf(s, c) /\ OnlyOf(t, c)
<1> DEFINE u == s \o t
<1>1. /\ Len(s) \in Nat /\ Len(t) \in Nat /\ DOMAIN s = 1 .. Len(s) /\ DOMAIN t = 1 .. Len(t)
      /\ DOMAIN u = 1 .. Len(s) + Len(t)
      /\ \A i \in DOMAIN u : u[i] = IF i <= Len(s) THEN s[i] ELSE t[i - Len(s)]
  BY ConcatProperties, LenProperties
<1> HIDE DEF u
<1>2. ASSUME OnlyOf(u, c)
      PROVE  OnlyOf(s, c) /\ OnlyOf(t, c)
  <2>1. \A i \in DOMAIN s : i \in DOMAIN u /\ u[i] = s[i]
    BY <1>1
  <2>2. \A i \in DOMAIN t : Len(s) + i \in DOMAIN u /\ u[Len(s) + i] = t[i]
    BY <1>1
  <2> QED
    BY <1>2, <2>1, <2>2 DEF OnlyOf
<1>3. ASSUME OnlyOf(s, c), OnlyOf(t, c)
      PROVE  OnlyOf(u, c)
  <2>1. \A i \in DOMAIN u : \/ i \in DOMAIN s /\ u[i] = s[i]
                            \/ i - Len(s) \in DOMAIN t /\ u[i] = t[i - Len(s)]
    BY <1>1
  <2> QED
    BY <1>3, <2>1 DEF OnlyOf
<1> QED
  BY <1>2, <1>3 DEF u

(* What two sequences carry together, each of them carries a part of.      *)
LEMMA CarriesSplit ==
  ASSUME NEW s \in Seq(Bytes), NEW t \in Seq(Bytes), NEW c, NEW N, NEW u, u = s \o t, Carries(u, c, N)
  PROVE  /\ Carries(s, c, NumbersOf(s, c)) /\ Carries(t, c, NumbersOf(t, c))
         /\ N = NumbersOf(s, c) \cup NumbersOf(t, c)
         /\ \A x \in NumbersOf(s, c), y \in NumbersOf(t, c) : x < y
<1> DEFINE n == Len(s)
<1>1. /\ n \in Nat /\ Len(t) \in Nat /\ DOMAIN s = 1 .. n /\ DOMAIN t = 1 .. Len(t)
      /\ DOMAIN u = 1 .. n + Len(t)
      /\ \A i \in DOMAIN u : u[i] = IF i <= n THEN s[i] ELSE t[i - n]
  BY ConcatProperties, LenProperties
<1>2. NumbersOf(u, c) = N /\ \A i, j \in Of(u, c) : i < j => u[i][2] < u[j][2]
  BY DEF Carries
<1> HIDE DEF n
<1>3. ASSUME NEW i \in Of(s, c)
      PROVE  i \in Of(u, c) /\ u[i] = s[i] /\ i \in 1 .. n
  <2>1. i \in 1 .. n /\ s[i][1] = c
    BY <1>1 DEF Of
  <2>2. i \in DOMAIN u /\ u[i] = s[i]
    BY <1>1, <2>1
  <2> QED
    BY <2>1, <2>2 DEF Of
<1>4. ASSUME NEW i \in Of(t, c)
      PROVE  n + i \in Of(u, c) /\ u[n + i] = t[i] /\ i \in 1 .. Len(t)
  <2>1. i \in 1 .. Len(t) /\ t[i][1] = c
    BY <1>1 DEF Of
  <2>2. n + i \in DOMAIN u /\ u[n + i] = t[i]
    BY <1>1, <2>1
  <2> QED
    BY <2>1, <2>2 DEF Of
<1>5. ASSUME NEW i \in Of(u, c)
      PROVE  \/ i \in Of(s, c) /\ u[i] = s[i]
             \/ i - n \in Of(t, c) /\ u[i] = t[i - n]
  <2>1. i \in 1 .. n + Len(t) /\ u[i][1] = c /\ u[i] = IF i <= n THEN s[i] ELSE t[i - n]
    BY <1>1 DEF Of
  <2>2. i <= n => i \in DOMAIN s
    BY <1>1, <2>1
  <2>3. ~(i <= n) => i - n \in DOMAIN t
    BY <1>1, <2>1
  <2> QED
    BY <2>1, <2>2, <2>3 DEF Of
<1>6. Carries(s, c, NumbersOf(s, c))
  BY <1>2, <1>3 DEF Carries
<1>7. Carries(t, c, NumbersOf(t, c))
  <2>1. ASSUME NEW i \in Of(t, c), NEW j \in Of(t, c), i < j
        PROVE  t[i][2] < t[j][2]
    <3>1. n + i < n + j
      BY <1>1, <1>4, <2>1
    <3> QED
      BY <1>2, <1>4, <3>1
  <2> QED
    BY <2>1 DEF Carries
<1>8. N = NumbersOf(s, c) \cup NumbersOf(t, c)
  <2>1. ASSUME NEW x \in N
        PROVE  x \in NumbersOf(s, c) \cup NumbersOf(t, c)
    <3>1. PICK i \in Of(u, c) : x = u[i][2]
      BY <1>2 DEF NumbersOf
    <3> QED
      BY <1>5, <3>1 DEF NumbersOf
  <2>2. ASSUME NEW x \in NumbersOf(s, c)
        PROVE  x \in N
    BY <1>2, <1>3 DEF NumbersOf
  <2>3. ASSUME NEW x \in NumbersOf(t, c)
        PROVE  x \in N
    BY <1>2, <1>4 DEF NumbersOf
  <2> QED
    BY <2>1, <2>2, <2>3
<1>9. ASSUME NEW x \in NumbersOf(s, c), NEW y \in NumbersOf(t, c)
      PROVE  x < y
  <2>1. PICK i \in Of(s, c) : x = s[i][2]
    BY DEF NumbersOf
  <2>2. PICK j \in Of(t, c) : y = t[j][2]
    BY DEF NumbersOf
  <2>3. i \in Of(u, c) /\ n + j \in Of(u, c) /\ u[i] = s[i] /\ u[n + j] = t[j] /\ i < n + j
    BY <1>1, <1>3, <1>4
  <2> QED
    BY <1>2, <2>1, <2>2, <2>3
<1> QED
  BY <1>6, <1>7, <1>8, <1>9

(* A sequence with nothing of a client adds and takes nothing of it.       *)
LEMMA NothingOf ==
  ASSUME NEW s \in Seq(Bytes), NEW t \in Seq(Bytes), NEW c, NEW N, NumbersOf(t, c) = {}
  PROVE  Carries(s \o t, c, N) <=> Carries(s, c, N)
<1>1. ASSUME Carries(s \o t, c, N)
      PROVE  Carries(s, c, N)
  <2>1. N = NumbersOf(s, c) \cup NumbersOf(t, c) /\ Carries(s, c, NumbersOf(s, c))
    <3> DEFINE u == s \o t
    <3>1. u = s \o t /\ Carries(u, c, N)
      BY <1>1
    <3> HIDE DEF u
    <3> QED
      BY <3>1, CarriesSplit
  <2> QED
    BY <2>1
<1>2. ASSUME Carries(s, c, N)
      PROVE  Carries(s \o t, c, N)
  <2>1. Of(t, c) = {}
    BY DEF NumbersOf
  <2>2. Carries(t, c, {})
    BY <2>1 DEF Carries, NumbersOf
  <2>3. Carries(s \o t, c, N \cup {})
    BY <1>2, <2>2, CarriesConcat
  <2> QED
    BY <2>3
<1> QED
  BY <1>1, <1>2

LEMMA NothingElse ==
  ASSUME NEW s, NEW c, NEW d, c # d
  PROVE  OnlyOf(s, d) => NumbersOf(s, c) = {}
BY DEF OnlyOf, NumbersOf, Of

LEMMA NothingEmpty ==
  ASSUME NEW s \in Seq(Bytes), NEW c
  PROVE  OnlyOf(s, c) /\ NumbersOf(s, c) = {} => s = <<>>
<1>1. ASSUME OnlyOf(s, c), NumbersOf(s, c) = {}, s # <<>>
      PROVE  FALSE
  <2>1. 1 \in DOMAIN s
    BY <1>1, EmptySeq, LenProperties
  <2>2. s[1][2] \in NumbersOf(s, c)
    BY <1>1, <2>1 DEF OnlyOf, NumbersOf, Of
  <2> QED
    BY <1>1, <2>2
<1> QED
  BY <1>1

(* As many of a client's answers as there are: all of them.                *)
LEMMA AllAnswers ==
  ASSUME NEW s \in Seq(Bytes), NEW c \in Clients, OnlyOf(s, c), Carries(s, c, NumbersOf(s, c)),
         NumbersOf(s, c) \subseteq Answers(c), Len(s) = Cardinality(Answers(c))
  PROVE  NumbersOf(s, c) = Answers(c)
<1> DEFINE n == Len(s)
           f == [i \in 1 .. n |-> s[i][2]]
<1>1. n \in Nat /\ DOMAIN s = 1 .. n
  BY LenProperties
<1>2. Of(s, c) = 1 .. n
  BY <1>1 DEF OnlyOf, Of
<1>3. IsFiniteSet(Answers(c))
  <2>1. Len(Script[c]) \in Int /\ 1 \in Int /\ Answers(c) \in SUBSET (1 .. Len(Script[c]))
    BY ScriptFacts
  <2>2. IsFiniteSet(1 .. Len(Script[c]))
    BY <2>1, FS_Interval
  <2> QED
    BY <2>1, <2>2, FS_Subset
<1>4. \A i \in 1 .. n : f[i] \in Answers(c)
  BY <1>2 DEF NumbersOf
<1>5. \A i, j \in 1 .. n : f[i] = f[j] => i = j
  <2>1. \A i, j \in 1 .. n : i < j => f[i] < f[j]
    BY <1>2 DEF Carries
  <2>2. \A i \in 1 .. n : f[i] \in Nat
    BY <1>4, ScriptFacts
  <2>3. \A i, j \in 1 .. n : i = j \/ i < j \/ j < i
    OBVIOUS
  <2> QED
    BY <2>1, <2>2, <2>3
<1>6. f \in Injection(1 .. n, Answers(c))
  <2>1. f \in [1 .. n -> Answers(c)]
    BY <1>4
  <2> QED
    BY <1>5, <2>1 DEF Injection, IsInjective
<1>7. Cardinality(1 .. n) = n
  BY <1>1, FS_Interval
<1>8. f \in Surjection(1 .. n, Answers(c))
  BY <1>3, <1>6, <1>7, FS_Injection
<1>9. \A x \in Answers(c) : \E i \in 1 .. n : f[i] = x
  BY <1>8 DEF Surjection
<1> QED
  BY <1>2, <1>9 DEF NumbersOf
-----------------------------------------------------------------------------
(* Only a send and a command that is taken change the answers on the way.  *)
LEMMA OutStep ==
  ASSUME Typed, CommandInv, AnswerSpace, Build = "O2", [Next]_vars
  PROVE  /\ AnswerSpace'
         /\ ~SrvSend /\ ~(SimRead /\ sim.step = 2) => Outbound' = Outbound
<1>1. SpaceOut /\ StoredOut /\ Latest /\ QuitsLast /\ Outbound \in Seq(Bytes)
  BY DEF AnswerSpace
<1>2. QuitsLast'
  BY <1>1, EarlyStays
<1>3. CASE SrvGet
  <2>1. SpaceOut' /\ StoredOut' /\ Outbound' = Outbound
    BY <1>1, <1>3, GetOut
  <2>2. Latest'
    BY <1>1, <1>3 DEF SrvGet, Latest, Handling
  <2> QED
    BY <1>1, <1>2, <2>1, <2>2 DEF AnswerSpace
<1>4. CASE SrvSend
  <2>1. SpaceOut' /\ StoredOut' /\ Outbound # <<>> /\ Outbound' = Tail(Outbound)
    BY <1>1, <1>4, SendOut
  <2>2. Tail(Outbound) \in Seq(Bytes)
    BY <1>1, <2>1, HeadTailProperties
  <2>3. Latest'
    BY <1>1, <1>4 DEF SrvSend, Latest, Handling
  <2> QED
    BY <1>2, <1>4, <2>1, <2>2, <2>3 DEF AnswerSpace
<1>5. CASE SimPut
  <2>1. SpaceOut' /\ StoredOut' /\ Outbound' = Outbound
    BY <1>1, <1>5, PutOut
  <2>2. sim.pc = "Put" /\ sim \in SimType
    BY <1>5 DEF SimPut, Typed, ThreadsOK
  <2>3. SimGo("Tick") \/ sim' = [sim EXCEPT !.step = @ + 1]
    BY <1>5 DEF SimPut
  <2>4. ~Handling' /\ sim'.pc # "Close"
    <3>1. SimGo("Tick") => sim'.pc = "Tick" /\ sim'.step = 1
      BY <2>2 DEF SimGo, SimType
    <3>2. sim' = [sim EXCEPT !.step = @ + 1] => sim'.pc = "Put"
      BY <2>2 DEF SimType
    <3> QED
      BY <2>3, <3>1, <3>2 DEF Handling
  <2> QED
    BY <1>1, <1>2, <2>1, <2>4 DEF AnswerSpace, Latest
<1>6. CASE SimRead
  <2>1. /\ SpaceOut' /\ StoredOut' /\ Latest' /\ Outbound' \in Seq(Bytes)
        /\ sim.step # 2 => Outbound' = Outbound
    BY <1>1, <1>6, ReadOut
  <2> QED
    BY <1>2, <1>6, <2>1 DEF AnswerSpace
<1>7. CASE ~SrvGet /\ ~SrvSend /\ ~SimPut /\ ~SimRead
  <2>1. SpaceOut' /\ StoredOut' /\ Latest' /\ Outbound' = Outbound
    BY <1>1, <1>7, OtherOut
  <2> QED
    BY <1>1, <1>2, <2>1 DEF AnswerSpace
<1> QED
  BY <1>3, <1>4, <1>5, <1>6, <1>7

Good == Typed /\ CommandInv /\ AnswerSpace /\ Orderly

(* What is known of one client.                                            *)
LEMMA GoodFacts ==
  ASSUME Good, NEW c \in Clients
  PROVE  /\ conns[c] \in ConnType /\ conns[c].got \in Seq(Bytes) /\ conns[c].toCli \in Seq(Bytes)
         /\ conns[c].got \o conns[c].toCli \in Seq(Bytes) /\ OnlyOf(conns[c].got \o conns[c].toCli, c)
         /\ OnlyOf(conns[c].got, c) /\ OnlyOf(conns[c].toCli, c)
         /\ Outbound \in Seq(Bytes) /\ Inbound \in Seq(Bytes) /\ handled \in Seq(Bytes)
         /\ GivenOK(c, handled, Outbound, conns[c])
         /\ conns[c].next \in Nat /\ Quit(c) \in Nat /\ conns[c].next <= Quit(c) + 1
<1>1. /\ conns[c] \in ConnType /\ Outbound \in Seq(Bytes) /\ Inbound \in Seq(Bytes)
      /\ handled \in Seq(Bytes) /\ GivenOK(c, handled, Outbound, conns[c])
      /\ conns[c].next <= Quit(c) + 1
  BY DEF Good, Typed, ConnsOK, CommandInv, AnswerSpace, Orderly
<1>2. conns[c].got \in Seq(Bytes \cup {None}) /\ conns[c].toCli \in Seq(Bytes \cup {None})
      /\ conns[c].next \in Nat
  BY <1>1, ConnFields
<1>3. OnlyOf(conns[c].got \o conns[c].toCli, c)
  BY <1>1 DEF GivenOK
<1>4. OnlyOf(conns[c].got, c) /\ OnlyOf(conns[c].toCli, c)
  BY <1>2, <1>3, OnlyJoin
<1>5. conns[c].got \in Seq(Bytes) /\ conns[c].toCli \in Seq(Bytes)
  BY <1>2, <1>4, OnlyBytes
<1>6. conns[c].got \o conns[c].toCli \in Seq(Bytes)
  BY <1>5, ConcatProperties
<1> QED
  BY <1>1, <1>2, <1>3, <1>4, <1>5, <1>6, ScriptFacts

(* What two sequences carry together.                                      *)
LEMMA NumbersJoin ==
  ASSUME NEW s \in Seq(Bytes), NEW t \in Seq(Bytes), NEW c, NEW u, u = s \o t, NEW N, Carries(u, c, N)
  PROVE  N = NumbersOf(s, c) \cup NumbersOf(t, c)
BY CarriesSplit

(* A client that quit has all its answers: none is left on the way.        *)
LEMMA Drained ==
  ASSUME Good, NEW c \in Clients, conns[c].next > Quit(c)
  PROVE  NumbersOf(Outbound, c) = {}
<1> DEFINE k == conns[c]
           all == k.got \o k.toCli
           u == all \o Outbound
           N == Answers(c) \cap NumbersOf(handled, c)
<1>1. k.got \in Seq(Bytes) /\ k.toCli \in Seq(Bytes) /\ all \in Seq(Bytes) /\ Outbound \in Seq(Bytes)
  BY GoodFacts
<1>2. GivenOK(c, handled, Outbound, k)
  BY GoodFacts
<1>3. Carries(u, c, N) /\ NumbersOf(k.got, c) = Answers(c)
  BY <1>2 DEF GivenOK
<1>4. N \subseteq Answers(c)
  OBVIOUS
<1> HIDE DEF u, N
<1>5. /\ N = NumbersOf(all, c) \cup NumbersOf(Outbound, c) /\ Carries(all, c, NumbersOf(all, c))
      /\ \A x \in NumbersOf(all, c), y \in NumbersOf(Outbound, c) : x < y
  <2>1. u = all \o Outbound
    BY DEF u
  <2> HIDE DEF all
  <2> QED
    BY <1>1, <1>3, <2>1, CarriesSplit
<1>6. NumbersOf(all, c) = NumbersOf(k.got, c) \cup NumbersOf(k.toCli, c)
  <2> DEFINE g == k.got
             s == k.toCli
  <2>1. all = g \o s /\ g \in Seq(Bytes) /\ s \in Seq(Bytes) /\ Carries(all, c, NumbersOf(all, c))
    BY <1>1, <1>5
  <2> HIDE DEF g, s, all
  <2>2. NumbersOf(all, c) = NumbersOf(g, c) \cup NumbersOf(s, c)
    BY <2>1, NumbersJoin
  <2> QED
    BY <2>2 DEF g, s
<1>7. ASSUME NEW x \in NumbersOf(Outbound, c)
      PROVE  FALSE
  <2>1. x \in NumbersOf(all, c) /\ x \in Nat
    BY <1>3, <1>4, <1>5, <1>6, <1>7, ScriptFacts
  <2>2. x < x
    BY <1>5, <1>7, <2>1
  <2> QED
    BY <2>1, <2>2
<1> QED
  BY <1>7

(* When the simulation has taken a client's 'Q', the client has quit and   *)
(* nothing of it is coming.                                                *)
LEMMA QuitHandled ==
  ASSUME Good, Handling \/ sim.pc = "Close", Kind(sim.byte) = "Q"
  PROVE  /\ sim.byte \in Bytes /\ sim.byte[1] \in Clients
         /\ conns[sim.byte[1]].next > Quit(sim.byte[1]) /\ NumbersOf(Inbound, sim.byte[1]) = {}
<1> DEFINE b == sim.byte
           c == b[1]
<1>1. handled # <<>> /\ b = handled[Len(handled)] /\ handled \in Seq(Bytes)
  BY DEF Good, AnswerSpace, Latest, CommandInv
<1>2. Len(handled) \in DOMAIN handled /\ b \in Bytes
  BY <1>1, EmptySeq, LenProperties, ElementOfSeq
<1>3. c \in Clients /\ b[2] = Quit(c)
  BY <1>2, KindOf
<1>4. StreamOK(c, handled, Inbound, conns[c])
  BY <1>3 DEF Good, CommandInv
<1> DEFINE k == conns[c]
           t == k.next - 1 - Len(k.toSrv)
<1>5. PICK h \in 0 .. t : Carries(handled, c, 1 .. h) /\ Carries(Inbound, c, h + 1 .. t)
  BY <1>4 DEF StreamOK
<1>6. k.next \in Nat /\ Quit(c) \in Nat /\ k.next <= Quit(c) + 1 /\ Len(k.toSrv) \in Nat
  BY <1>3, GoodFacts, ConnFields, LenProperties
<1>7. Quit(c) \in 1 .. h
  <2>1. handled[Len(handled)][1] = c /\ handled[Len(handled)][2] = Quit(c)
    BY <1>1, <1>3
  <2> HIDE DEF c, t
  <2> QED
    BY <1>1, <1>2, <1>5, <2>1, CarriesEach
<1>8. k.next > Quit(c) /\ h + 1 .. t = {}
  <2>1. t \in Int /\ t <= k.next - 1 /\ h \in Int /\ h <= t /\ Quit(c) <= h
    BY <1>5, <1>6, <1>7
  <2> HIDE DEF t
  <2> QED
    BY <1>6, <2>1
<1>9. NumbersOf(Inbound, c) = {}
  BY <1>5, <1>8 DEF Carries
<1> QED
  BY <1>2, <1>3, <1>8, <1>9

(* A step that leaves the order as it is.                                  *)
QuietConn(c) ==
  /\ conns'[c].st = "open" <=> conns[c].st = "open"
  /\ conns'[c].st = "backlog" => conns[c].st = "backlog"
  /\ conns[c].st = "closed" => conns'[c].st = "closed"
  /\ conns'[c].got \o conns'[c].toCli = conns[c].got \o conns[c].toCli
  /\ conns'[c].next > Quit(c) <=> conns[c].next > Quit(c)
  /\ conns[c].next > Quit(c) => conns'[c].got = conns[c].got
QuietSim ==
  /\ sim'.byte = sim.byte /\ (Handling' => Handling)
  /\ sim'.pc = "Close" => sim.pc = "Close" /\ sim'.step = sim.step /\ sim'.fd = sim.fd
QuietSrv ==
  /\ fds' = fds /\ Served' = Served /\ \A n \in Fds : fds[n] # 0 => n = cfd'
  /\ srv'.pc = "Ended" <=> srv.pc = "Ended"
  /\ srv'.pc # "Abort" /\ (run' => run)

(* A step that moves no answer and takes no command keeps the order.       *)
LEMMA QuietStep ==
  ASSUME Good, Typed', QuietSrv, QuietSim, Outbound' = Outbound, handled' = handled,
         srv.pc # "Ended" => OnlyOf(Inbound', Served), \A c \in Clients : QuietConn(c)
  PROVE  Orderly'
<1>1. OneClient /\ OwnBytes /\ Closing /\ ~Aborted /\ \A c \in Clients : GivenOK(c, handled, Outbound, conns[c])
  BY DEF Good, Orderly
<1>2. OneClient'
  <2>1. \A n \in Fds : fds'[n] # 0 => n = cfd'
    BY DEF QuietSrv
  <2>2. \A c \in Clients : conns'[c].st = "open" => Served' = c
    BY <1>1 DEF QuietSrv, QuietConn, OneClient
  <2>3. (\E c \in Clients : Quitting(c)') => Waiting' = {}
    <3>1. \A c \in Clients : Quitting(c)' => Quitting(c)
      BY DEF Quitting, Quit, QuietConn, QuietSim
    <3>2. Waiting' \subseteq Waiting
      BY DEF Waiting, QuietConn
    <3> QED
      BY <1>1, <3>1, <3>2 DEF OneClient
  <2>4. srv'.pc = "Ended" => ~run' /\ \A c \in Clients : conns'[c].st \in {"new", "closed"}
    <3> SUFFICES ASSUME srv'.pc = "Ended"
                 PROVE  ~run' /\ \A c \in Clients : conns'[c].st \in {"new", "closed"}
      OBVIOUS
    <3>1. ~run' /\ \A c \in Clients : conns[c].st \in {"new", "closed"}
      BY <1>1 DEF OneClient, QuietSrv
    <3>2. \A c \in Clients : conns'[c].st \in {"new", "backlog", "open", "closed"}
      BY ConnFields DEF Typed, ConnsOK
    <3> QED
      BY <3>1, <3>2 DEF QuietConn
  <2> QED
    BY <2>1, <2>2, <2>3, <2>4 DEF OneClient
<1>3. OwnBytes'
  <2>1. ASSUME srv'.pc # "Ended"
        PROVE  OnlyOf(Inbound', Served') /\ OnlyOf(Outbound', Served') /\ (Handling' => sim'.byte[1] = Served')
    BY <1>1, <2>1 DEF OwnBytes, QuietSrv, QuietSim
  <2> QED
    BY <2>1 DEF OwnBytes
<1>4. Closing'
  BY <1>1 DEF Closing, QuietSrv, QuietSim, Kind, Quit
<1>5. ~Aborted'
  BY DEF Aborted, QuietSrv
<1>6. ASSUME NEW c \in Clients
      PROVE  GivenOK(c, handled', Outbound', conns'[c])
  <2>1. GivenOK(c, handled, Outbound, conns[c])
    BY <1>1
  <2>2. QuietConn(c)
    OBVIOUS
  <2> QED
    BY <2>1, <2>2 DEF GivenOK, QuietConn
<1> QED
  BY <1>2, <1>3, <1>4, <1>5, <1>6 DEF Orderly

(* The types of what the steps change.                                     *)
LEMMA GoodTypes ==
  ASSUME Good
  PROVE  /\ Typed /\ CommandInv /\ AnswerSpace /\ Orderly
         /\ srv \in SrvType /\ sim \in SimType /\ cfd \in {0} \cup Fds /\ fds \in [Fds -> {0} \cup Clients]
         /\ conns \in [Clients -> ConnType] /\ 0 \notin Clients
         /\ \A n \in Fds : fds[n] # 0 => n = cfd
         /\ Inbound \in Seq(Bytes) /\ Outbound \in Seq(Bytes)
         /\ SpaceIn /\ StoredIn /\ QuitsLast
BY ScriptFacts DEF Good, Typed, ThreadsOK, ConnsOK, FdsOK, Orderly, OneClient, CommandInv, AnswerSpace

LEMMA KeepSrv ==
  ASSUME Good, UNCHANGED <<cfd, fds>>
  PROVE  fds' = fds /\ Served' = Served /\ \A n \in Fds : fds[n] # 0 => n = cfd'
BY GoodTypes DEF Served

(* A descriptor that is closed already: nothing is left to close.          *)
LEMMA CloseStale ==
  ASSUME Good, ClientClose, cfd # 0, fds[cfd] = 0
  PROVE  fds' = fds /\ Served' = Served /\ conns' = conns /\ \A n \in Fds : fds[n] # 0 => n = cfd'
<1>1. fds \in [Fds -> {0} \cup Clients] /\ conns \in [Clients -> ConnType] /\ 0 \notin Clients
      /\ \A n \in Fds : fds[n] = 0
  BY GoodTypes
<1>2. fds' = fds /\ cfd' = 0
  BY <1>1 DEF ClientClose
<1>3. conns' = [c \in Clients |-> conns[c]]
  BY <1>1 DEF ClientClose
<1>4. conns' = conns
  BY <1>1, <1>3
<1> QED
  BY <1>1, <1>2, <1>4 DEF Served

LEMMA SameConn ==
  ASSUME NEW c \in Clients, conns'[c] = conns[c]
  PROVE  QuietConn(c)
BY DEF QuietConn

LEMMA KeepSim == ASSUME sim' = sim PROVE QuietSim
BY DEF QuietSim, Handling

(* The byte that SrvRead takes is one of the client that is served.        *)
LEMMA ReadServed ==
  ASSUME Good, Build = "O2", ~Early, SrvRead
  PROVE  /\ QuietSrv /\ \A c \in Clients : QuietConn(c)
         /\ srv'.pc = "Put" => srv'.byte \in Bytes /\ srv'.byte[1] = Served
<1>1. /\ srv \in SrvType /\ fds \in [Fds -> {0} \cup Clients] /\ conns \in [Clients -> ConnType]
      /\ cfd \in {0} \cup Fds /\ srv.pc = "Read" /\ run' = run
  BY GoodTypes DEF SrvRead
<1>2. CASE cfd = 0
  <2>1. UNCHANGED <<cfd, fds, conns>> /\ srv' = [srv EXCEPT !.pc = "Out", !.step = 1]
    BY <1>2 DEF SrvRead, SrvGo
  <2>2. srv'.pc = "Out"
    BY <1>1, <2>1 DEF SrvType
  <2> QED
    BY <1>1, <2>1, <2>2, KeepSrv, SameConn DEF QuietSrv
<1>3. CASE cfd # 0 /\ fds[cfd] = 0
  <2>1. ClientClose /\ srv' = [srv EXCEPT !.pc = "Out", !.step = 1]
    BY <1>3 DEF SrvRead, SrvGo
  <2>2. srv'.pc = "Out"
    BY <1>1, <2>1 DEF SrvType
  <2>3. fds' = fds /\ Served' = Served /\ conns' = conns /\ \A n \in Fds : fds[n] # 0 => n = cfd'
    BY <1>3, <2>1, CloseStale
  <2> QED
    BY <1>1, <2>2, <2>3, SameConn DEF QuietSrv
<1>4. CASE cfd # 0 /\ fds[cfd] # 0
  <2> DEFINE c == fds[cfd]
             k == conns[c]
  <2>1. c \in Clients /\ Served = c /\ k \in ConnType
    BY <1>1, <1>4 DEF Served
  <2>2. k.peer # "rst"
    <3>1. k.next > Quit(c) => k.peer \in {"fin", "gone"}
      BY <2>1, GoodTypes DEF QuitsLast
    <3>2. k.peer = "up" \/ ~(k.next <= Quit(c))
      BY <2>1 DEF Early
    <3>3. k.next \in Nat /\ Quit(c) \in Nat
      BY <2>1, GoodFacts
    <3> QED
      BY <3>1, <3>2, <3>3
  <2>3. UNCHANGED <<cfd, fds>>
    BY <1>4 DEF SrvRead
  <2>4. CASE k.toSrv # <<>>
    <3>1. /\ srv' = [srv EXCEPT !.pc = "Put", !.step = 1, !.byte = Head(k.toSrv)]
          /\ conns' = [conns EXCEPT ![c].toSrv = Tail(@)]
      BY <1>4, <2>2, <2>4 DEF SrvRead, Peer
    <3>2. srv'.pc = "Put" /\ srv'.byte = Head(k.toSrv)
      BY <1>1, <3>1 DEF SrvType
    <3>3. StreamOK(c, handled, Inbound, k)
      BY <2>1, GoodTypes DEF CommandInv
    <3>4. Head(k.toSrv) \in Bytes /\ Head(k.toSrv)[1] = c
      <4>1. k.toSrv \in Seq(Bytes)
        BY <2>1, ConnFields
      <4>2. 1 \in DOMAIN k.toSrv /\ Head(k.toSrv) = k.toSrv[1]
        BY <2>4, <4>1, HeadTailProperties, LenProperties, EmptySeq
      <4>3. k.toSrv[1][1] = c
        BY <3>3, <4>2 DEF StreamOK
      <4> QED
        BY <2>1, <2>4, <4>1, <4>2, <4>3, HeadTailProperties
    <3>5. ASSUME NEW d \in Clients
          PROVE  QuietConn(d)
      <4> HIDE DEF c
      <4>1. conns[d] \in ConnType /\ (conns'[d] = conns[d] \/ conns'[d] = [conns[d] EXCEPT !.toSrv = Tail(@)])
        BY <1>1, <2>1, <3>1 DEF k
      <4>2. /\ conns'[d].st = conns[d].st /\ conns'[d].got = conns[d].got /\ conns'[d].toCli = conns[d].toCli
            /\ conns'[d].next = conns[d].next
        BY <4>1 DEF ConnType
      <4> QED
        BY <4>2 DEF QuietConn
    <3> QED
      BY <1>1, <2>1, <2>3, <3>2, <3>4, <3>5, KeepSrv DEF QuietSrv
  <2>5. CASE k.toSrv = <<>>
    <3>1. srv' = [srv EXCEPT !.pc = "Out", !.step = 1] /\ conns' = conns
      BY <1>4, <2>2, <2>5 DEF SrvRead, SrvGo, Peer
    <3>2. srv'.pc = "Out"
      BY <1>1, <3>1 DEF SrvType
    <3> QED
      BY <1>1, <2>3, <3>1, <3>2, KeepSrv, SameConn DEF QuietSrv
  <2> QED
    BY <2>4, <2>5
<1> QED
  BY <1>1, <1>2, <1>3, <1>4

(* The commands on the way are changed by two reads.                       *)
LEMMA OwnInbound ==
  ASSUME Good, [Next]_vars, Build = "O2", ~SimRead, ~SrvRead
  PROVE  Inbound' = Inbound
<1>1. Typed /\ SpaceIn /\ StoredIn /\ srv \in SrvType
  BY GoodTypes
<1>2. CASE SrvPut
  BY <1>1, <1>2, PutInbound
<1>3. CASE ~SrvPut
  <2>1. ~(srv.pc = "Read" /\ srv'.pc = "Put")
    <3>1. CASE Server
      BY <1>1, <1>3, <3>1 DEF Server, SrvSelect, SrvAccept, SrvIn, SrvRoom, SrvOut, SrvGet, SrvSend, SrvEnd
    <3>2. CASE ~Server
      BY <3>2, <1>1, ClientType DEF Next, vars, Client, Simulation, SimFull, SimPut, SimClose, SimFinish, SimJoin
    <3> QED
      BY <3>1, <3>2
  <2> QED
    BY <1>1, <1>3, <2>1, OtherInbound
<1> QED
  BY <1>2, <1>3

LEMMA KeepOwn ==
  ASSUME Good, Inbound' = Inbound
  PROVE  srv.pc # "Ended" => OnlyOf(Inbound', Served)
BY GoodTypes DEF Orderly, OwnBytes

(* The socket thread, when it neither accepts nor sends.                   *)
LEMMA QuietServer ==
  ASSUME Good, [Next]_vars, Build = "O2", ~Early,
         \/ SrvSelect \/ SrvIn \/ SrvRoom \/ SrvRead \/ SrvPut \/ SrvOut \/ SrvGet
         \/ SrvAccept /\ (cfd # 0 \/ conns' = conns)
  PROVE  Orderly'
<1>1. /\ Typed /\ Typed' /\ srv \in SrvType /\ conns \in [Clients -> ConnType]
      /\ SpaceIn /\ StoredIn
  BY GoodTypes, NextTyped
<1>2. sim' = sim /\ handled' = handled /\ run' = run
  BY DEF SrvSelect, SrvIn, SrvRoom, SrvRead, SrvPut, SrvOut, SrvGet, SrvAccept
<1>3. Outbound' = Outbound
  <2>1. srv.pc # "Send"
    BY DEF SrvSelect, SrvIn, SrvRoom, SrvRead, SrvPut, SrvOut, SrvGet, SrvAccept
  <2>2. ~SrvSend /\ ~(SimRead /\ sim.step = 2)
    <3>1. ~SrvSend
      BY <2>1 DEF SrvSend
    <3>2. ~(SimRead /\ sim.step = 2)
      <4>1. SUFFICES ASSUME SimRead, sim.step = 2
                     PROVE  FALSE
        OBVIOUS
      <4>2. sim' = [sim EXCEPT !.step = 3, !.byte = rings.in.buf[rings.in.rptr - 1]] /\ sim \in SimType
        BY <4>1, <1>1 DEF SimRead, Typed, ThreadsOK
      <4>3. sim'.step = 3
        BY <4>2 DEF SimType
      <4> QED
        BY <1>2, <4>1, <4>3
    <3> QED
      BY <3>1, <3>2
  <2> QED
    BY <2>2, OutStep, GoodTypes
<1>4. QuietSim
  BY <1>2, KeepSim
<1>5. CASE SrvRead
  <2>1. /\ QuietSrv /\ \A c \in Clients : QuietConn(c)
        /\ srv'.pc = "Put" => srv'.byte \in Bytes /\ srv'.byte[1] = Served
    BY <1>5, ReadServed
  <2>2. srv.pc = "Read" /\ ~SrvPut /\ ~SimRead
    <3>1. srv.pc = "Read"
      BY <1>5 DEF SrvRead
    <3>2. ~SrvPut
      BY <3>1 DEF SrvPut
    <3>3. ~SimRead
      <4> SUFFICES ASSUME SimRead
                   PROVE  FALSE
        OBVIOUS
      <4>1. sim' = sim /\ srv' = srv /\ srv'.pc # "Read" /\ sim \in SimType
        <5>1. srv' = srv
          BY DEF SimRead
        <5>2. srv'.pc # "Read"
          <6>1. \/ SrvGo("Out") \/ SrvGo("Abort")
                \/ srv' = [srv EXCEPT !.pc = "Put", !.step = 1, !.byte = Head(Peer(cfd).toSrv)]
            BY <1>5 DEF SrvRead
          <6> QED
            BY <1>1, <6>1 DEF SrvGo, SrvType
        <5> QED
          BY <1>2, <5>1, <5>2, GoodTypes
      <4> QED
        BY <3>1, <4>1
    <3> QED
      BY <3>1, <3>2, <3>3
  <2>3. srv.pc # "Ended" => OnlyOf(Inbound', Served)
    <3>1. OnlyOf(Inbound, Served) /\ Inbound \in Seq(Bytes)
      BY <2>2, GoodTypes DEF Orderly, OwnBytes
    <3>2. CASE srv'.pc = "Put"
      <4>1. Inbound' = Append(Inbound, srv'.byte)
        BY <1>1, <2>2, <3>2, OtherInbound
      <4>2. Inbound \in Seq(Bytes \cup {None})
        BY <3>1, SeqDef
      <4> QED
        BY <2>1, <3>1, <3>2, <4>1, <4>2, OnlyAppend
    <3>3. CASE srv'.pc # "Put"
      BY <1>1, <2>2, <3>1, <3>3, OtherInbound
    <3> QED
      BY <3>2, <3>3
  <2> QED
    BY <1>1, <1>2, <1>3, <1>4, <2>1, <2>3, QuietStep
<1>6. CASE ~SrvRead
  <2>1. srv.pc # "Ended" => OnlyOf(Inbound', Served)
    <3>1. ~SimRead
      <4> SUFFICES ASSUME SimRead
                   PROVE  FALSE
        OBVIOUS
      <4>1. sim' # sim
        <5>1. sim \in SimType /\ sim.step \in 1 .. 3
          BY GoodTypes DEF SimType
        <5>2. sim.step = 1 => sim'.step = 2
          BY <5>1 DEF SimRead, SimType
        <5>3. sim.step = 2 => sim'.step = 3
          BY <5>1 DEF SimRead, SimType
        <5>4. sim.step = 3 => \E pc \in {"Tick", "Full", "Close"} : SimGo(pc)
          BY <5>1 DEF SimRead
        <5>5. sim.step = 3 => sim'.step = 1
          BY <5>1, <5>4 DEF SimGo, SimType
        <5> QED
          BY <5>1, <5>2, <5>3, <5>5
      <4> QED
        BY <1>2, <4>1
    <3> QED
      BY <1>6, <3>1, OwnInbound, KeepOwn
  <2>2. QuietSrv /\ \A c \in Clients : QuietConn(c)
    <3>1. CASE SrvSelect
      <4>1. srv'.pc = "Accept" /\ srv.pc = "Loop"
        BY <1>1, <3>1 DEF SrvSelect, SrvType
      <4>2. CASE cfd # 0 /\ fds[cfd] = 0
        <5>1. fds' = fds /\ Served' = Served /\ conns' = conns /\ \A n \in Fds : fds[n] # 0 => n = cfd'
          BY <3>1, <4>2, CloseStale DEF SrvSelect
        <5> QED
          BY <1>2, <4>1, <5>1, SameConn DEF QuietSrv
      <4>3. CASE ~(cfd # 0 /\ fds[cfd] = 0)
        <5>1. UNCHANGED <<cfd, fds, conns>>
          BY <3>1, <4>3 DEF SrvSelect
        <5> QED
          BY <1>2, <4>1, <5>1, KeepSrv, SameConn DEF QuietSrv
      <4> QED
        BY <4>2, <4>3
    <3>2. CASE SrvIn \/ SrvRoom \/ SrvPut \/ SrvOut \/ SrvGet
      <4>1. UNCHANGED <<cfd, fds, conns>>
        BY <3>2 DEF SrvIn, SrvRoom, SrvPut, SrvOut, SrvGet
      <4>2. srv.pc # "Ended" /\ srv'.pc \notin {"Ended", "Abort"}
        <5>1. CASE SrvIn \/ SrvRoom \/ SrvOut
          BY <1>1, <5>1 DEF SrvIn, SrvRoom, SrvOut, SrvGo, SrvType
        <5>2. CASE SrvPut
          <6>1. \/ srv' = [srv EXCEPT !.pc = "Room", !.step = 1, !.byte = None]
                \/ srv' = [srv EXCEPT !.step = @ + 1]
            BY <5>2 DEF SrvPut
          <6> QED
            BY <1>1, <5>2, <6>1 DEF SrvPut, SrvType
        <5>3. CASE SrvGet
          <6>1. \/ SrvGo("Loop") \/ SrvGo("Send") \/ srv' = [srv EXCEPT !.step = 2]
                \/ srv' = [srv EXCEPT !.step = 3, !.byte = rings.out.buf[rings.out.rptr - 1]]
            BY <5>3 DEF SrvGet
          <6> QED
            BY <1>1, <5>3, <6>1 DEF SrvGet, SrvGo, SrvType
        <5> QED
          BY <3>2, <5>1, <5>2, <5>3
      <4> QED
        BY <1>2, <4>1, <4>2, KeepSrv, SameConn DEF QuietSrv
    <3>3. CASE SrvAccept /\ (cfd # 0 \/ conns' = conns)
      <4>1. srv.pc = "Accept" /\ srv'.pc = "In"
        BY <1>1, <3>3 DEF SrvAccept, SrvGo, SrvType
      <4>2. CASE srv.listen /\ Waiting # {} /\ \E n \in Fds : fds[n] = 0
        <5>1. PICK d \in Waiting : IF cfd # 0
                                   THEN conns' = [conns EXCEPT ![d].st = "closed"] /\ UNCHANGED <<fds, cfd>>
                                   ELSE conns' = [conns EXCEPT ![d].st = "open"]
          BY <3>3, <4>2 DEF SrvAccept
        <5>2. d \in Clients /\ conns[d].st = "backlog" /\ conns[d] \in ConnType
          BY <1>1 DEF Waiting
        <5>3. cfd # 0
          <6>1. SUFFICES ASSUME cfd = 0
                         PROVE  FALSE
            OBVIOUS
          <6>2. conns' = [conns EXCEPT ![d].st = "open"] /\ conns' = conns
            BY <3>3, <5>1, <6>1
          <6>3. conns'[d].st = "open"
            BY <1>1, <5>2, <6>2 DEF ConnType
          <6> QED
            BY <5>2, <6>2, <6>3
        <5>4. conns' = [conns EXCEPT ![d].st = "closed"] /\ UNCHANGED <<fds, cfd>>
          BY <5>1, <5>3
        <5>5. ASSUME NEW c \in Clients
              PROVE  QuietConn(c)
          <6>1. conns'[c] = IF c = d THEN [conns[c] EXCEPT !.st = "closed"] ELSE conns[c]
            BY <1>1, <5>2, <5>4
          <6>2. CASE c = d
            <7>1. /\ conns'[c].st = "closed" /\ conns'[c].got = conns[c].got /\ conns'[c].toCli = conns[c].toCli
                  /\ conns'[c].next = conns[c].next
              BY <5>2, <6>1, <6>2 DEF ConnType
            <7> QED
              BY <5>2, <6>2, <7>1 DEF QuietConn
          <6> QED
            BY <6>1, <6>2, SameConn
        <5> QED
          BY <1>2, <4>1, <5>4, <5>5, KeepSrv DEF QuietSrv
      <4>3. CASE ~(srv.listen /\ Waiting # {} /\ \E n \in Fds : fds[n] = 0)
        <5>1. UNCHANGED <<conns, fds, cfd>>
          BY <3>3, <4>3 DEF SrvAccept
        <5> QED
          BY <1>2, <4>1, <5>1, KeepSrv, SameConn DEF QuietSrv
      <4> QED
        BY <4>2, <4>3
    <3> QED
      BY <1>6, <3>1, <3>2, <3>3
  <2> QED
    BY <1>1, <1>2, <1>3, <1>4, <2>1, <2>2, QuietStep
<1> QED
  BY <1>5, <1>6

(* A read of the simulation is a step.                                     *)
LEMMA ReadMoves == ASSUME Typed, SimRead PROVE sim' # sim /\ sim.pc = "Tick"
<1>1. sim \in SimType /\ sim.step \in 1 .. 3 /\ sim.pc = "Tick"
  BY DEF SimRead, SimType, Typed, ThreadsOK
<1>2. sim.step = 1 => sim'.step = 2
  BY <1>1 DEF SimRead, SimType
<1>3. sim.step = 2 => sim'.step = 3
  BY <1>1 DEF SimRead, SimType
<1>4. sim.step = 3 => \E pc \in {"Tick", "Full", "Close"} : SimGo(pc)
  BY <1>1 DEF SimRead
<1>5. sim.step = 3 => sim'.step = 1
  BY <1>1, <1>4 DEF SimGo, SimType
<1> QED
  BY <1>1, <1>2, <1>3, <1>5

(* Steps that change nothing but the connections of clients.               *)
LEMMA ClientKeeps ==
  ASSUME Good, [Next]_vars, Build = "O2", UNCHANGED <<rings, cfd, run, srv, sim, fds, handled>>
  PROVE  /\ QuietSrv /\ QuietSim /\ Outbound' = Outbound /\ Inbound' = Inbound /\ handled' = handled
         /\ (srv.pc # "Ended" => OnlyOf(Inbound', Served)) /\ Typed' /\ ~Aborted'
<1>1. Typed /\ Typed' /\ ~Aborted
  BY GoodTypes, NextTyped DEF Orderly
<1>2. QuietSrv
  BY <1>1, KeepSrv DEF QuietSrv, Aborted
<1>3. QuietSim
  BY KeepSim
<1>4. Outbound' = Outbound /\ Inbound' = Inbound
  BY DEF Outbound, Leaving, Entering, Handling, Inbound, InFlight, Kind, Quit
<1>5. srv.pc # "Ended" => OnlyOf(Inbound', Served)
  BY <1>4, KeepOwn
<1> QED
  BY <1>1, <1>2, <1>3, <1>4, <1>5 DEF Aborted

LEMMA HeadThenTail ==
  ASSUME NEW t \in Seq(Bytes), t # <<>>
  PROVE  t = <<Head(t)>> \o Tail(t)
<1> DEFINE x == <<Head(t)>>
           w == x \o Tail(t)
<1>1. Head(t) \in Bytes /\ Tail(t) \in Seq(Bytes) /\ Len(t) \in Nat \ {0} /\ Len(Tail(t)) = Len(t) - 1
      /\ \A i \in 1 .. Len(t) - 1 : Tail(t)[i] = t[i + 1]
      /\ Head(t) = t[1]
  BY HeadTailProperties, LenProperties, EmptySeq
<1>2. x \in Seq(Bytes) /\ Len(x) = 1 /\ x[1] = Head(t)
  BY <1>1
<1>3. w \in Seq(Bytes) /\ Len(w) = 1 + Len(Tail(t))
      /\ \A i \in 1 .. 1 + Len(Tail(t)) : w[i] = IF i <= 1 THEN x[i] ELSE Tail(t)[i - 1]
  BY <1>1, <1>2, ConcatProperties
<1> HIDE DEF w, x
<1>4. \A i \in 1 .. Len(t) : w[i] = t[i]
  BY <1>1, <1>2, <1>3
<1>5. Len(w) = Len(t)
  BY <1>1, <1>3
<1>6. w = t
  BY <1>3, <1>4, <1>5, SameSeq
<1> QED
  BY <1>6 DEF w, x

LEMMA ReceiveGiven ==
  ASSUME NEW s \in Seq(Bytes), NEW t \in Seq(Bytes), t # <<>>
  PROVE  Append(s, Head(t)) \o Tail(t) = s \o t
<1>1. Head(t) \in Bytes /\ Tail(t) \in Seq(Bytes) /\ t = <<Head(t)>> \o Tail(t)
  BY HeadTailProperties, HeadThenTail
<1>2. <<Head(t)>> \in Seq(Bytes)
  BY <1>1
<1>3. Append(s, Head(t)) = s \o <<Head(t)>>
  BY <1>1, AppendIsConcat
<1>4. (s \o <<Head(t)>>) \o Tail(t) = s \o (<<Head(t)>> \o Tail(t))
  BY <1>1, <1>2, ConcatAssociative
<1> QED
  BY <1>1, <1>3, <1>4

(* Clients: all but leaving without 'Q', which makes it early.             *)
LEMMA OrderlyClient ==
  ASSUME Good, [Next]_vars, Build = "O2", ~Overlap, ~Early', NEW c \in Clients,
         Connect(c) \/ Send(c) \/ Receive(c) \/ LeaveQuit(c) \/ LeaveClose(c)
  PROVE  Orderly'
<1>1. /\ UNCHANGED <<rings, cfd, run, srv, sim, fds, handled>>
      /\ \A d \in Clients : d # c => conns'[d] = conns[d]
  BY GoodTypes, ClientType
<1>2. /\ QuietSrv /\ QuietSim /\ Outbound' = Outbound /\ Inbound' = Inbound /\ handled' = handled
      /\ (srv.pc # "Ended" => OnlyOf(Inbound', Served)) /\ Typed' /\ ~Aborted'
  BY <1>1, ClientKeeps
<1>3. ASSUME NEW d \in Clients, d # c
      PROVE  QuietConn(d) /\ conns'[d] = conns[d]
  BY <1>1, <1>3, SameConn
<1>4. QuietConn(c) => Orderly'
  BY <1>2, <1>3, QuietStep
<1>5. /\ OneClient /\ OwnBytes /\ Closing /\ QuitsLast /\ Typed
      /\ \A d \in Clients : GivenOK(d, handled, Outbound, conns[d])
  BY GoodTypes DEF Orderly
<1>6. /\ conns[c].next \in Nat /\ Quit(c) \in Nat /\ conns[c].next <= Quit(c) + 1
      /\ conns[c].got \in Seq(Bytes) /\ conns[c].toCli \in Seq(Bytes)
      /\ conns'[c].next \in Nat
  BY <1>2, GoodFacts, ConnFields DEF Typed, ConnsOK
<1>7. conns[c].next > Quit(c) => conns[c].peer \in {"fin", "gone"}
  BY <1>5 DEF QuitsLast
<1>8. CASE Send(c)
  <2>1. /\ conns'[c].st = conns[c].st /\ conns'[c].next <= Quit(c) /\ conns[c].next <= Quit(c)
        /\ conns'[c].got = conns[c].got /\ conns'[c].toCli = conns[c].toCli
    BY <1>5, <1>8, ClientStep
  <2>2. QuietConn(c)
    BY <1>6, <2>1 DEF QuietConn
  <2> QED
    BY <1>4, <2>2
<1>9. CASE Receive(c)
  <2>1. /\ conns[c].peer = "up" /\ conns'[c].st = conns[c].st /\ conns'[c].next = conns[c].next
        /\ conns[c].toCli # <<>> /\ conns'[c].got = Append(conns[c].got, Head(conns[c].toCli))
        /\ conns'[c].toCli = Tail(conns[c].toCli)
    BY <1>5, <1>9, ClientStep
  <2>2. conns'[c].got \o conns'[c].toCli = conns[c].got \o conns[c].toCli
    BY <1>6, <2>1, ReceiveGiven
  <2>3. QuietConn(c)
    BY <1>7, <2>1, <2>2 DEF QuietConn
  <2> QED
    BY <1>4, <2>3
<1>10. CASE LeaveClose(c)
  <2>1. conns[c].peer = "up" /\ conns'[c].peer # "up" /\ conns'[c].next = conns[c].next
    BY <1>5, <1>10, ClientStep
  <2>2. conns[c].next <= Quit(c)
    BY <1>6, <1>7, <2>1
  <2>3. Early'
    BY <2>1, <2>2 DEF Early, Quit
  <2> QED
    BY <2>3
<1>11. CASE Connect(c)
  <2>1. /\ conns[c].st = "new" /\ conns'[c].st = "backlog" /\ conns'[c].next = conns[c].next
        /\ conns'[c].got = conns[c].got /\ conns'[c].toCli = conns[c].toCli
        /\ run /\ ~\E d \in Clients : Quitting(d)
    BY <1>5, <1>11, ClientStep DEF Connect
  <2>2. OneClient'
    <3>1. \A n \in Fds : fds'[n] # 0 => n = cfd'
      BY <1>2 DEF QuietSrv
    <3>2. \A d \in Clients : conns'[d].st = "open" => Served' = d
      <4>1. \A d \in Clients : conns'[d].st = "open" => conns[d].st = "open"
        BY <1>3, <2>1
      <4> QED
        BY <1>2, <1>5, <4>1 DEF OneClient, QuietSrv
    <3>3. \A d \in Clients : ~Quitting(d)'
      <4>1. \A d \in Clients : conns'[d].next = conns[d].next /\ (conns'[d].st # "closed" => conns[d].st # "closed")
        BY <1>3, <2>1
      <4>2. \A d \in Clients : Quitting(d)' => Quitting(d)
        BY <1>1, <4>1 DEF Quitting, Quit
      <4> QED
        BY <2>1, <4>2
    <3>4. srv'.pc # "Ended"
      BY <1>1, <1>5, <2>1 DEF OneClient
    <3> QED
      BY <3>1, <3>2, <3>3, <3>4 DEF OneClient
  <2>3. OwnBytes' /\ Closing'
    BY <1>1, <1>2, <1>5 DEF OwnBytes, Closing, QuietSrv, Handling, Kind, Quit
  <2>4. ASSUME NEW d \in Clients
        PROVE  GivenOK(d, handled', Outbound', conns'[d])
    <3>1. GivenOK(d, handled, Outbound, conns[d])
      BY <1>5
    <3>2. /\ conns'[d].got = conns[d].got /\ conns'[d].toCli = conns[d].toCli
          /\ conns'[d].next = conns[d].next
      BY <1>3, <2>1
    <3> QED
      BY <1>2, <3>1, <3>2 DEF GivenOK
  <2> QED
    BY <1>2, <2>2, <2>3, <2>4 DEF Orderly
<1>12. CASE LeaveQuit(c)
  <2>1. /\ conns'[c].st = conns[c].st /\ conns[c].next = Quit(c) /\ conns'[c].next = Quit(c) + 1
        /\ conns'[c].got = conns[c].got /\ conns'[c].toCli = conns[c].toCli
        /\ Len(conns[c].got) = Cardinality(Answers(c)) /\ Waiting = {}
    BY <1>5, <1>12, ClientStep DEF LeaveQuit
  <2>2. OneClient'
    <3>1. \A n \in Fds : fds'[n] # 0 => n = cfd'
      BY <1>2 DEF QuietSrv
    <3>2. \A d \in Clients : conns'[d].st = conns[d].st
      BY <1>3, <2>1
    <3>3. Waiting' = {}
      BY <2>1, <3>2 DEF Waiting
    <3> QED
      BY <1>1, <1>2, <1>5, <3>1, <3>2, <3>3 DEF OneClient, QuietSrv
  <2>3. OwnBytes' /\ Closing'
    BY <1>1, <1>2, <1>5 DEF OwnBytes, Closing, QuietSrv, Handling, Kind, Quit
  <2>4. NumbersOf(conns[c].got, c) = Answers(c)
    <3> DEFINE g == conns[c].got
               s == conns[c].toCli
               all == g \o s
               N == Answers(c) \cap NumbersOf(handled, c)
               u == all \o Outbound
    <3>1. GivenOK(c, handled, Outbound, conns[c]) /\ OnlyOf(g, c) /\ g \in Seq(Bytes) /\ s \in Seq(Bytes)
          /\ all \in Seq(Bytes) /\ Outbound \in Seq(Bytes)
      BY GoodFacts
    <3>2. Carries(u, c, N) /\ u = all \o Outbound /\ N \subseteq Answers(c)
      BY <3>1 DEF GivenOK
    <3>3. all = g \o s
      OBVIOUS
    <3> HIDE DEF g, s, N, u, all
    <3>4. N = NumbersOf(all, c) \cup NumbersOf(Outbound, c) /\ Carries(all, c, NumbersOf(all, c))
      BY <3>1, <3>2, CarriesSplit
    <3>5. NumbersOf(all, c) = NumbersOf(g, c) \cup NumbersOf(s, c) /\ Carries(g, c, NumbersOf(g, c))
      BY <3>1, <3>3, <3>4, CarriesSplit
    <3>6. NumbersOf(g, c) \subseteq Answers(c)
      BY <3>2, <3>4, <3>5
    <3>7. Len(g) = Cardinality(Answers(c))
      BY <2>1 DEF g
    <3> QED
      BY <3>1, <3>5, <3>6, <3>7, AllAnswers DEF g
  <2>5. ASSUME NEW d \in Clients
        PROVE  GivenOK(d, handled', Outbound', conns'[d])
    <3>1. GivenOK(d, handled, Outbound, conns[d])
      BY <1>5
    <3>2. /\ conns'[d].got = conns[d].got /\ conns'[d].toCli = conns[d].toCli
          /\ d = c \/ conns'[d].next = conns[d].next
      BY <1>3, <2>1
    <3> QED
      BY <1>2, <2>4, <3>1, <3>2 DEF GivenOK
  <2> QED
    BY <1>2, <2>2, <2>3, <2>5 DEF Orderly
<1> QED
  BY <1>8, <1>9, <1>10, <1>11, <1>12

(* The simulation, when it neither takes a command nor closes.             *)
LEMMA QuietSimulation ==
  ASSUME Good, [Next]_vars, Build = "O2",
         \/ SimFull \/ SimPut \/ SimFinish \/ SimJoin \/ UNCHANGED vars
         \/ SimClose /\ sim.step = 1 /\ cfd = 0
  PROVE  Orderly'
<1>1. Typed /\ Typed' /\ sim \in SimType /\ ~Aborted
  BY GoodTypes, NextTyped DEF Orderly
<1>2. UNCHANGED <<srv, cfd, fds, conns, handled>> /\ (run' => run) /\ rings'.in = rings.in
  <2>1. CASE SimPut
    <3>1. rings' = [rings EXCEPT !.out = Put(@, PutSteps[sim.step], sim.byte)]
          /\ UNCHANGED <<srv, cfd, fds, conns, handled, run>>
      BY <2>1 DEF SimPut
    <3>2. rings = [in |-> rings.in, out |-> rings.out]
      BY <1>1, RingsSplit DEF Typed
    <3> QED
      BY <3>1, <3>2
  <2>2. CASE ~SimPut
    BY <2>2 DEF SimFull, SimFinish, SimJoin, SimClose, vars
  <2> QED
    BY <2>1, <2>2
<1>3. QuietSim /\ ~SimRead
  <2>1. CASE UNCHANGED vars
    BY <1>1, <2>1, KeepSim, ReadMoves DEF vars
  <2>2. CASE SimFull
    <3>1. sim.pc = "Full" /\ (SimGo("Stuck") \/ SimGo("Put"))
      BY <2>2 DEF SimFull
    <3>2. sim'.byte = sim.byte /\ sim'.pc \in {"Stuck", "Put"}
      BY <1>1, <3>1 DEF SimGo, SimType
    <3> QED
      BY <3>1, <3>2 DEF QuietSim, Handling, SimRead
  <2>3. CASE SimPut
    <3>1. sim.pc = "Put" /\ (SimGo("Tick") \/ sim' = [sim EXCEPT !.step = @ + 1])
      BY <2>3 DEF SimPut
    <3>2. SimGo("Tick") => sim'.byte = sim.byte /\ sim'.pc = "Tick" /\ sim'.step = 1
      BY <1>1 DEF SimGo, SimType
    <3>3. sim' = [sim EXCEPT !.step = @ + 1] => sim'.byte = sim.byte /\ sim'.pc = sim.pc
      BY <1>1 DEF SimType
    <3> QED
      BY <3>1, <3>2, <3>3 DEF QuietSim, Handling, SimRead
  <2>4. CASE SimFinish
    <3>1. sim.step = 1 /\ sim'.pc = "Join" /\ sim'.byte = sim.byte
      BY <1>1, <2>4 DEF SimFinish, SimGo, SimType
    <3>2. ~SimRead
      <4> SUFFICES ASSUME SimRead
                   PROVE  FALSE
        OBVIOUS
      <4>1. run' = FALSE /\ run /\ run' = run
        BY <2>4 DEF SimFinish, SimRead
      <4> QED
        BY <4>1
    <3> QED
      BY <3>1, <3>2 DEF QuietSim, Handling
  <2>5. CASE SimJoin
    BY <1>1, <2>5 DEF SimJoin, SimGo, SimType, QuietSim, Handling, SimRead
  <2>6. CASE SimClose /\ sim.step = 1 /\ cfd = 0
    <3>1. sim' = [sim EXCEPT !.pc = "Tick"] /\ sim.pc = "Close" /\ sim.step = 1
      BY <2>6 DEF SimClose
    <3>2. sim'.pc = "Tick" /\ sim'.step = 1 /\ sim'.byte = sim.byte
      BY <1>1, <3>1 DEF SimType
    <3> QED
      BY <3>1, <3>2 DEF QuietSim, Handling, SimRead
  <2> QED
    BY <2>1, <2>2, <2>3, <2>4, <2>5, <2>6
<1>4. ~SrvSend /\ ~SrvRead
  <2>1. srv' = srv
    BY <1>2
  <2>2. SrvSend => srv'.pc # "Send"
    <3>1. SrvSend => SrvGo("Get") \/ SrvGo("Abort")
      BY DEF SrvSend
    <3> QED
      BY <3>1, GoodTypes DEF SrvGo, SrvType
  <2>3. SrvRead => srv'.pc # "Read"
    <3>1. SrvRead => \/ SrvGo("Out") \/ SrvGo("Abort")
                     \/ srv' = [srv EXCEPT !.pc = "Put", !.step = 1, !.byte = Head(Peer(cfd).toSrv)]
      BY DEF SrvRead
    <3> QED
      BY <3>1, GoodTypes DEF SrvGo, SrvType
  <2> QED
    BY <2>1, <2>2, <2>3 DEF SrvSend, SrvRead
<1>5. Outbound' = Outbound /\ Inbound' = Inbound
  BY <1>3, <1>4, OutStep, OwnInbound, GoodTypes
<1>6. QuietSrv
  BY <1>1, <1>2, KeepSrv DEF QuietSrv, Aborted
<1>7. srv.pc # "Ended" => OnlyOf(Inbound', Served)
  BY <1>5, KeepOwn
<1>8. \A c \in Clients : QuietConn(c)
  BY <1>2, SameConn
<1> QED
  BY <1>1, <1>2, <1>3, <1>5, <1>6, <1>7, <1>8, QuietStep

LEMMA MoveOver ==
  ASSUME NEW s \in Seq(Bytes), NEW t \in Seq(Bytes), NEW b \in Bytes
  PROVE  Append(s, b) \o t = s \o (<<b>> \o t)
<1>1. <<b>> \in Seq(Bytes) /\ Append(s, b) = s \o <<b>>
  BY AppendIsConcat
<1>2. (s \o <<b>>) \o t = s \o (<<b>> \o t)
  BY <1>1, ConcatAssociative
<1> QED
  BY <1>1, <1>2

(* The answers that a client was given only depend on what it received.    *)
LEMMA GivenKept ==
  ASSUME Good, Outbound' = Outbound, handled' = handled, \A c \in Clients : OnlySt(c)
  PROVE  \A c \in Clients : GivenOK(c, handled', Outbound', conns'[c])
<1>1. ASSUME NEW c \in Clients
      PROVE  GivenOK(c, handled', Outbound', conns'[c])
  <2>1. GivenOK(c, handled, Outbound, conns[c]) /\ OnlySt(c)
    BY GoodFacts
  <2> QED
    BY <2>1 DEF GivenOK, OnlySt
<1> QED
  BY <1>1

(* The socket thread leaves the simulation's state alone.                  *)
LEMMA ServerMoves ==
  ASSUME Typed, Server
  PROVE  sim' = sim /\ ~SimRead /\ run' = run /\ handled' = handled
<1>1. sim' = sim /\ run' = run /\ handled' = handled
  BY DEF Server, SrvSelect, SrvAccept, SrvIn, SrvRoom, SrvRead, SrvPut, SrvOut, SrvGet, SrvSend, SrvEnd
<1> QED
  BY <1>1, ReadMoves

(* A client is accepted when nothing of another one is on the way.         *)
LEMMA OrderlyAccept ==
  ASSUME Good, [Next]_vars, Build = "O2", SrvAccept, cfd = 0, conns' # conns
  PROVE  Orderly'
<1>1. /\ Typed /\ srv \in SrvType /\ conns \in [Clients -> ConnType] /\ fds \in [Fds -> {0} \cup Clients]
      /\ OneClient /\ OwnBytes /\ Closing /\ 0 \notin Clients
      /\ Inbound \in Seq(Bytes) /\ Outbound \in Seq(Bytes)
  BY GoodTypes DEF Orderly
<1>2. /\ srv.pc = "Accept" /\ srv'.pc = "In" /\ sim' = sim /\ run' = run /\ handled' = handled
      /\ Outbound' = Outbound /\ Inbound' = Inbound
  <2>1. srv.pc = "Accept" /\ srv'.pc = "In"
    BY <1>1 DEF SrvAccept, SrvGo, SrvType
  <2>2. ~SrvSend /\ ~SrvRead
    BY <2>1 DEF SrvSend, SrvRead
  <2>3. Server
    BY DEF Server
  <2> QED
    BY <1>1, <2>1, <2>2, <2>3, ServerMoves, OutStep, OwnInbound, GoodTypes
<1>3. PICK c \in Waiting : /\ conns' = [conns EXCEPT ![c].st = "open"]
                           /\ fds' = [fds EXCEPT ![Lowest] = c] /\ cfd' = Lowest
                           /\ \E n \in Fds : fds[n] = 0
  BY DEF SrvAccept
<1>4. c \in Clients /\ conns[c].st = "backlog" /\ conns[c] \in ConnType
  BY <1>1 DEF Waiting
<1>5. Lowest \in Fds /\ Lowest # 0
  BY <1>3, LowestIs, SizeAssumption DEF Fds
<1>6. \A d \in Clients : /\ OnlySt(d) /\ conns'[d].next = conns[d].next
                         /\ conns'[d].st = IF d = c THEN "open" ELSE conns[d].st
  <2>1. ASSUME NEW d \in Clients
        PROVE  /\ OnlySt(d) /\ conns'[d].next = conns[d].next
               /\ conns'[d].st = IF d = c THEN "open" ELSE conns[d].st
    <3>1. conns'[d] = IF d = c THEN [conns[d] EXCEPT !.st = "open"] ELSE conns[d]
      BY <1>1, <1>3, <1>4
    <3> QED
      BY <1>1, <3>1, SetSt DEF OnlySt
  <2> QED
    BY <2>1
<1>7. Served = 0 /\ \A n \in Fds : fds[n] = 0
  <2>1. \A n \in Fds : n # 0
    BY SizeAssumption DEF Fds
  <2> QED
    BY <1>1, <2>1 DEF Served, OneClient
<1>8. Inbound = <<>> /\ Outbound = <<>>
  BY <1>1, <1>2, <1>7, OnlyEmpty DEF OwnBytes
<1>9. ~Handling
  <2>1. Handling => sim.byte \in Bytes
    <3>1. Handling => handled # <<>> /\ sim.byte = handled[Len(handled)] /\ handled \in Seq(Bytes)
      BY DEF Good, AnswerSpace, Latest, CommandInv
    <3> QED
      BY <3>1, EmptySeq, LenProperties, ElementOfSeq
  <2>2. Handling => sim.byte[1] = 0
    BY <1>1, <1>2, <1>7 DEF OwnBytes
  <2> QED
    BY <1>1, <2>1, <2>2, KindOf
<1>10. \A d \in Clients : ~Quitting(d)
  BY <1>1 DEF OneClient
<1>11. sim.pc # "Close"
  <2>1. ASSUME sim.pc = "Close"
        PROVE  FALSE
    <3>1. Kind(sim.byte) = "Q"
      BY <1>1, <2>1 DEF Closing
    <3>2. sim.byte[1] \in Clients /\ conns[sim.byte[1]].next > Quit(sim.byte[1])
      BY <2>1, <3>1, QuitHandled
    <3> QED
      BY <1>10, <2>1, <3>2 DEF Quitting
  <2> QED
    BY <2>1
<1>12. OneClient'
  <2>1. \A n \in Fds : fds'[n] # 0 => n = cfd'
    BY <1>1, <1>3, <1>5, <1>7
  <2>2. Served' = c
    BY <1>1, <1>3, <1>5 DEF Served
  <2>3. \A d \in Clients : conns'[d].st = "open" => Served' = d
    BY <1>1, <1>6, <1>7, <2>2 DEF OneClient
  <2>4. \A d \in Clients : ~Quitting(d)'
    <3>1. \A d \in Clients : Quitting(d)' => Quitting(d)
      BY <1>2, <1>4, <1>6 DEF Quitting, Quit
    <3> QED
      BY <1>10, <3>1
  <2> QED
    BY <1>2, <2>1, <2>3, <2>4 DEF OneClient
<1>13. OwnBytes'
  <2>1. OnlyOf(<<>>, Served') /\ ~Handling'
    BY <1>2, <1>9 DEF OnlyOf, Handling
  <2> QED
    BY <1>2, <1>8, <2>1 DEF OwnBytes
<1>14. Closing' /\ ~Aborted'
  BY <1>2, <1>11 DEF Closing, Aborted
<1>15. \A d \in Clients : GivenOK(d, handled', Outbound', conns'[d])
  BY <1>2, <1>6, GivenKept
<1> QED
  BY <1>12, <1>13, <1>14, <1>15 DEF Orderly

(* The answer that is sent is one of the client that is served, which is   *)
(* there.                                                                  *)
LEMMA OrderlySend ==
  ASSUME Good, [Next]_vars, Build = "O2", ~Early, SrvSend
  PROVE  Orderly'
<1> DEFINE S == Bytes \cup {None}
           b == srv.byte
<1>1. /\ Typed /\ srv \in SrvType /\ conns \in [Clients -> ConnType] /\ fds \in [Fds -> {0} \cup Clients]
      /\ OneClient /\ OwnBytes /\ Closing /\ 0 \notin Clients /\ QuitsLast
      /\ Inbound \in Seq(Bytes) /\ Outbound \in Seq(Bytes) /\ SpaceOut /\ StoredOut
  BY GoodTypes DEF Orderly, AnswerSpace
<1>2. /\ srv.pc = "Send" /\ sim' = sim /\ run' = run /\ handled' = handled
      /\ Inbound' = Inbound /\ Outbound # <<>> /\ Outbound' = Tail(Outbound) /\ Head(Outbound) = b
  <2>1. srv.pc = "Send"
    BY DEF SrvSend
  <2>2. ~SrvRead
    BY <2>1 DEF SrvRead
  <2>3. Server
    BY DEF Server
  <2> QED
    BY <1>1, <2>1, <2>2, <2>3, ServerMoves, SendOut, OwnInbound
<1>3. OnlyOf(Outbound, Served) /\ OnlyOf(Inbound, Served)
  BY <1>1, <1>2 DEF OwnBytes
<1>4. OnlyOf(Outbound', Served) /\ b[1] = Served /\ b \in Bytes /\ Outbound' \in Seq(Bytes)
  BY <1>1, <1>2, <1>3, OnlyTail
<1> DEFINE c == Served
           k == conns[c]
<1>5. c \in Clients
  BY <1>4, KindOf
<1>6. cfd # 0 /\ fds[cfd] = c /\ c # 0
  BY <1>1, <1>5 DEF Served
<1>7. k.peer = "up"
  <2>1. ASSUME k.peer # "up"
        PROVE  FALSE
    <3>1. k.next > Quit(c)
      BY <1>5, <2>1, GoodFacts DEF Early
    <3>2. NumbersOf(Outbound, c) = {}
      BY <1>5, <3>1, Drained
    <3>3. Outbound = <<>>
      BY <1>1, <1>3, <3>2, NothingEmpty
    <3> QED
      BY <1>2, <3>3
  <2> QED
    BY <2>1
<1>8. conns' = [conns EXCEPT ![c].toCli = Append(@, b)] /\ srv' = [srv EXCEPT !.pc = "Get", !.step = 1]
      /\ UNCHANGED <<cfd, fds>>
  BY <1>6, <1>7 DEF SrvSend, Open, Peer, SrvGo
<1>9. srv'.pc = "Get" /\ Served' = Served
  BY <1>1, <1>8 DEF SrvType, Served
<1>10. ASSUME NEW d \in Clients
       PROVE  /\ conns'[d].st = conns[d].st /\ conns'[d].next = conns[d].next /\ conns'[d].got = conns[d].got
              /\ conns'[d].toCli = IF d = c THEN Append(conns[d].toCli, b) ELSE conns[d].toCli
  <2> HIDE DEF c, b
  <2>1. conns[d] \in ConnType
    BY <1>1
  <2>2. conns'[d] = IF d = c THEN [conns[d] EXCEPT !.toCli = Append(@, b)] ELSE conns[d]
    BY <1>1, <1>5, <1>8 DEF k
  <2> QED
    BY <2>1, <2>2 DEF ConnType
<1>11. OneClient'
  <2>1. \A n \in Fds : fds'[n] # 0 => n = cfd'
    BY <1>1, <1>8 DEF OneClient
  <2>2. \A d \in Clients : conns'[d].st = "open" => Served' = d
    BY <1>1, <1>9, <1>10 DEF OneClient
  <2>3. \A d \in Clients : Quitting(d)' => Quitting(d)
    BY <1>2, <1>10 DEF Quitting, Quit
  <2>4. Waiting' = Waiting
    BY <1>10 DEF Waiting
  <2> QED
    BY <1>1, <1>9, <2>1, <2>2, <2>3, <2>4 DEF OneClient
<1>12. OwnBytes'
  <2>1. Handling' => sim'.byte[1] = Served
    BY <1>1, <1>2 DEF Handling, OwnBytes
  <2> QED
    BY <1>2, <1>3, <1>4, <1>9, <2>1 DEF OwnBytes
<1>13. Closing' /\ ~Aborted'
  BY <1>1, <1>2, <1>8, <1>9 DEF Closing, Aborted, Kind, Quit
<1>14. ASSUME NEW d \in Clients
       PROVE  GivenOK(d, handled', Outbound', conns'[d])
  <2> DEFINE g == conns[d].got
             s == conns[d].toCli
             N == Answers(d) \cap NumbersOf(handled, d)
  <2>1. /\ GivenOK(d, handled, Outbound, conns[d]) /\ g \in Seq(Bytes) /\ s \in Seq(Bytes)
        /\ g \o s \in Seq(Bytes) /\ OnlyOf(g \o s, d)
    BY GoodFacts
  <2>2. Carries((g \o s) \o Outbound, d, N) /\ (conns[d].next > Quit(d) => NumbersOf(g, d) = Answers(d))
    BY <2>1 DEF GivenOK
  <2> HIDE DEF c, b
  <2>3. CASE d = c
    <3>1. conns'[d].toCli = Append(s, b) /\ conns'[d].got = g
      BY <1>10, <2>3
    <3>2. g \in Seq(S) /\ s \in Seq(S) /\ b \in S /\ g \o s \in Seq(S) /\ Outbound' \in Seq(S)
      BY <1>4, <2>1, SeqDef
    <3>3. g \o Append(s, b) = Append(g \o s, b)
      BY <3>2, ConcatFirst
    <3>4. OnlyOf(g \o Append(s, b), d)
      BY <1>4, <2>1, <2>3, <3>2, <3>3, OnlyAppend DEF c
    <3>5. Outbound = <<b>> \o Outbound'
      <4>1. Outbound = <<Head(Outbound)>> \o Tail(Outbound)
        BY <1>1, <1>2, HeadThenTail
      <4> QED
        BY <1>2, <4>1
    <3>6. Append(g \o s, b) \o Outbound' = (g \o s) \o Outbound
      <4>1. Append(g \o s, b) \o Outbound' = (g \o s) \o (<<b>> \o Outbound')
        BY <1>4, <2>1, MoveOver DEF b
      <4> QED
        BY <3>5, <4>1
    <3>7. Carries((g \o Append(s, b)) \o Outbound', d, N)
      BY <2>2, <3>3, <3>6
    <3> QED
      BY <1>2, <1>10, <2>2, <3>1, <3>4, <3>7 DEF GivenOK
  <2>4. CASE d # c
    <3>1. NumbersOf(Outbound, d) = {} /\ NumbersOf(Outbound', d) = {}
      BY <1>3, <1>4, <2>4, NothingElse DEF c
    <3>2. Carries(g \o s, d, N)
      BY <1>1, <2>1, <2>2, <3>1, NothingOf
    <3>3. Carries((g \o s) \o Outbound', d, N)
      BY <1>4, <2>1, <3>1, <3>2, NothingOf
    <3>4. conns'[d].got = g /\ conns'[d].toCli = s
      BY <1>10, <2>4
    <3> QED
      BY <1>2, <1>10, <2>1, <2>2, <3>3, <3>4 DEF GivenOK
  <2> QED
    BY <2>3, <2>4
<1> QED
  BY <1>11, <1>12, <1>13, <1>14 DEF Orderly

(* The socket thread ends: everything is closed.                           *)
LEMMA OrderlyEnd ==
  ASSUME Good, [Next]_vars, Build = "O2", SrvEnd
  PROVE  Orderly'
<1>1. /\ Typed /\ srv \in SrvType /\ conns \in [Clients -> ConnType] /\ fds \in [Fds -> {0} \cup Clients]
      /\ OneClient /\ Closing /\ 0 \notin Clients
  BY GoodTypes DEF Orderly
<1>2. /\ srv.pc = "Loop" /\ srv'.pc = "Ended" /\ sim' = sim /\ run' = run /\ handled' = handled /\ ~run
      /\ Outbound' = Outbound
  <2>1. srv.pc = "Loop" /\ srv'.pc = "Ended" /\ ~run
    BY <1>1 DEF SrvEnd, SrvGo, SrvType
  <2>2. ~SrvSend /\ Server
    BY <2>1 DEF SrvSend, Server
  <2> QED
    BY <1>1, <2>1, <2>2, ServerMoves, OutStep, GoodTypes
<1>3. \A n \in Fds : fds'[n] = 0
  BY <1>1 DEF SrvEnd, OneClient
<1>4. ASSUME NEW c \in Clients
      PROVE  OnlySt(c) /\ conns'[c].st \in {"new", "closed"}
  <2>1. conns[c] \in ConnType /\ conns[c].st \in {"new", "backlog", "open", "closed"}
    BY <1>1, ConnFields
  <2>2. conns[c].st = "open" => cfd # 0 /\ fds[cfd] = c
    BY <1>1 DEF OneClient, Served
  <2> DEFINE q == [conns[c] EXCEPT !.st = "closed"]
  <2>3. q.st = "closed" /\ q.peer = conns[c].peer /\ q.next = conns[c].next /\ q.got = conns[c].got /\ q.toCli = conns[c].toCli
    BY <2>1, SetSt
  <2>4. conns'[c] = IF conns[c].st = "backlog" \/ (cfd # 0 /\ fds[cfd] = c) THEN q ELSE conns[c]
    BY DEF SrvEnd
  <2> HIDE DEF q
  <2> QED
    BY <2>1, <2>2, <2>3, <2>4 DEF OnlySt
<1>5. OneClient'
  BY <1>2, <1>3, <1>4 DEF OneClient, Waiting
<1>6. OwnBytes' /\ ~Aborted'
  BY <1>2 DEF OwnBytes, Aborted
<1>7. Closing'
  BY <1>1, <1>2, <1>3 DEF Closing, Kind, Quit
<1>8. \A c \in Clients : GivenOK(c, handled', Outbound', conns'[c])
  BY <1>2, <1>4, GivenKept
<1> QED
  BY <1>5, <1>6, <1>7, <1>8 DEF Orderly

LEMMA GoodSim ==
  ASSUME Good
  PROVE  /\ Typed /\ sim \in SimType /\ sim.step \in 1 .. 3 /\ conns \in [Clients -> ConnType]
         /\ fds \in [Fds -> {0} \cup Clients] /\ 0 \notin Clients /\ cfd \in {0} \cup Fds
         /\ OneClient /\ OwnBytes /\ Closing /\ ~Aborted /\ Latest /\ SpaceOut /\ StoredOut /\ QuitsLast
         /\ Inbound \in Seq(Bytes) /\ Outbound \in Seq(Bytes) /\ handled \in Seq(Bytes)
         /\ SpaceIn /\ StoredIn
         /\ \A n \in Fds : fds[n] # 0 => conns[fds[n]].st = "open"
BY GoodTypes DEF Orderly, AnswerSpace, CommandInv, SimType, Typed, FdsOK

(* Of a client, what is handled grows by the command that is taken.        *)
LEMMA HandledGrows ==
  ASSUME NEW c \in Clients, NEW past \in Seq(Bytes), NEW coming \in Seq(Bytes), NEW k \in ConnType,
         StreamOK(c, past, coming, k), coming # <<>>, NEW b, b = Head(coming)
  PROVE  /\ b[1] # c => NumbersOf(Append(past, b), c) = NumbersOf(past, c)
         /\ b[1] = c => /\ NumbersOf(Append(past, b), c) = NumbersOf(past, c) \cup {b[2]}
                        /\ \A x \in NumbersOf(past, c) : x < b[2]
<1> DEFINE t == k.next - 1 - Len(k.toSrv)
<1>1. PICK h \in 0 .. t : Carries(past, c, 1 .. h) /\ Carries(coming, c, h + 1 .. t)
  BY DEF StreamOK
<1>2. b \in Bytes /\ NumbersOf(past, c) = 1 .. h /\ t \in Int /\ h \in Nat
  BY <1>1, HeadTailProperties, ConnFields, LenProperties DEF Carries
<1> HIDE DEF t
<1>3. CASE b[1] # c
  <2>1. Carries(Append(past, b), c, 1 .. h)
    BY <1>1, <1>2, <1>3, CarriesOther
  <2> QED
    BY <1>2, <1>3, <2>1 DEF Carries
<1>4. CASE b[1] = c
  <2>1. b[2] \in h + 1 .. t
    BY <1>1, <1>4, CarriesTail
  <2>2. \A x \in 1 .. h : x < b[2]
    BY <1>2, <2>1
  <2>3. Carries(Append(past, b), c, (1 .. h) \cup {b[2]})
    BY <1>1, <1>2, <1>4, <2>2, CarriesAppend
  <2> QED
    BY <1>2, <1>4, <2>2, <2>3 DEF Carries
<1> QED
  BY <1>3, <1>4

(* The simulation takes a command: an 'R' is answered.                     *)
LEMMA OrderlyTake ==
  ASSUME Good, [Next]_vars, Build = "O2", SimRead, sim.step = 2
  PROVE  Orderly'
<1> DEFINE b == Head(Inbound)
<1>1. UNCHANGED <<cfd, run, srv, fds, conns>> /\ sim.pc = "Tick"
  BY DEF SimRead
<1>2. /\ Inbound # <<>> /\ Inbound' = Tail(Inbound) /\ sim'.byte = b /\ handled' = Append(handled, b)
      /\ b \in Bytes
      /\ Outbound' = IF Kind(b) = "R" THEN Append(Outbound, b) ELSE Outbound
  BY GoodSim, TakeInbound, ReadOut, GoodTypes
<1>3. sim'.pc = "Tick"
  BY GoodSim DEF SimRead, SimType
<1>4. OneClient'
  <2>1. Served' = Served /\ Waiting' = Waiting
    BY <1>1 DEF Served, Waiting
  <2>2. \A c \in Clients : Quitting(c)' => Quitting(c)
    BY <1>1, <1>3 DEF Quitting, Quit
  <2> QED
    BY <1>1, <2>1, <2>2, GoodSim DEF OneClient
<1>5. OwnBytes'
  <2>1. ASSUME srv.pc # "Ended"
        PROVE  OnlyOf(Inbound', Served) /\ OnlyOf(Outbound', Served) /\ b[1] = Served
    <3>1. OnlyOf(Inbound, Served) /\ OnlyOf(Outbound, Served)
      BY <2>1, GoodSim DEF OwnBytes
    <3>2. OnlyOf(Tail(Inbound), Served) /\ b[1] = Served
      BY <1>2, <3>1, GoodSim, OnlyTail
    <3>3. OnlyOf(Append(Outbound, b), Served)
      <4>1. Outbound \in Seq(Bytes \cup {None}) /\ b \in Bytes \cup {None}
        BY <1>2, GoodSim, SeqDef
      <4> HIDE DEF b
      <4> QED
        BY <3>1, <3>2, <4>1, OnlyAppend
    <3> QED
      BY <1>2, <3>1, <3>2, <3>3
  <2>2. Served' = Served
    BY <1>1 DEF Served
  <2> QED
    BY <1>1, <1>2, <2>1, <2>2 DEF OwnBytes
<1>6. Closing' /\ ~Aborted'
  BY <1>1, <1>3, GoodSim DEF Closing, Aborted
<1>7. ASSUME NEW c \in Clients
      PROVE  GivenOK(c, handled', Outbound', conns'[c])
  <2> DEFINE g == conns[c].got
             s == conns[c].toCli
             all == g \o s
             H == NumbersOf(handled, c)
             N == Answers(c) \cap H
  <2>1. /\ GivenOK(c, handled, Outbound, conns[c]) /\ all \in Seq(Bytes) /\ Outbound \in Seq(Bytes)
        /\ conns[c] \in ConnType
    BY GoodFacts
  <2>2. Carries(all \o Outbound, c, N)
    BY <2>1 DEF GivenOK
  <2>3. StreamOK(c, handled, Inbound, conns[c])
    BY GoodTypes DEF CommandInv
  <2>4. /\ b[1] # c => NumbersOf(handled', c) = H
        /\ b[1] = c => NumbersOf(handled', c) = H \cup {b[2]} /\ \A x \in H : x < b[2]
    BY <1>2, <2>1, <2>3, GoodSim, HandledGrows
  <2>5. all \o Append(Outbound, b) = Append(all \o Outbound, b) /\ all \o Outbound \in Seq(Bytes)
    <3>1. all \in Seq(Bytes \cup {None}) /\ Outbound \in Seq(Bytes \cup {None}) /\ b \in Bytes \cup {None}
      BY <1>2, <2>1, SeqDef
    <3>2. all \o Outbound \in Seq(Bytes)
      BY <2>1, ConcatProperties
    <3> HIDE DEF all, b
    <3> QED
      BY <3>1, <3>2, ConcatFirst
  <2>6. (Kind(b) = "R" <=> b[2] \in Answers(b[1])) /\ b \in Bytes
    BY <1>2, KindOf
  <2> HIDE DEF b
  <2>7. Carries(all \o Outbound', c, Answers(c) \cap NumbersOf(handled', c))
    <3> HIDE DEF all, H, N
    <3>1. CASE b[1] # c
      <4>1. Carries(Append(all \o Outbound, b), c, N)
        BY <2>2, <2>5, <2>6, <3>1, CarriesOther
      <4> QED
        BY <1>2, <2>2, <2>4, <2>5, <3>1, <4>1 DEF N
    <3>2. CASE b[1] = c /\ Kind(b) = "R"
      <4>1. N \cup {b[2]} = Answers(c) \cap (H \cup {b[2]}) /\ \A x \in N : x < b[2]
        BY <2>4, <2>6, <3>2 DEF N
      <4>2. Carries(Append(all \o Outbound, b), c, N \cup {b[2]})
        BY <2>2, <2>5, <2>6, <3>2, <4>1, CarriesAppend
      <4> QED
        BY <1>2, <2>4, <2>5, <3>2, <4>1, <4>2
    <3>3. CASE b[1] = c /\ Kind(b) # "R"
      <4>1. N = Answers(c) \cap (H \cup {b[2]})
        BY <2>6, <3>3 DEF N
      <4> QED
        BY <1>2, <2>2, <2>4, <3>3, <4>1
    <3> QED
      BY <3>1, <3>2, <3>3
  <2>8. conns'[c] = conns[c]
    BY <1>1
  <2> QED
    BY <2>1, <2>7, <2>8 DEF GivenOK
<1> QED
  BY <1>4, <1>5, <1>6, <1>7 DEF Orderly

(* The other steps of SimRead; the last one may turn to the 'Q'.           *)
LEMMA OrderlyRead ==
  ASSUME Good, [Next]_vars, Build = "O2", SimRead
  PROVE  Orderly'
<1>1. UNCHANGED <<cfd, run, srv, fds, conns>> /\ sim.pc = "Tick"
  BY DEF SimRead
<1>2. CASE sim.step = 2
  BY <1>2, OrderlyTake
<1>3. CASE sim.step # 2
  <2>1. /\ Inbound' = Inbound /\ handled' = handled /\ Outbound' = Outbound /\ ~Handling'
        /\ sim'.pc = "Close" => Handling /\ sim'.step = 1 /\ sim'.byte = sim.byte /\ Kind(sim.byte) = "Q"
    BY <1>3, GoodSim, TakeInbound, ReadOut, GoodTypes
  <2>2. sim'.byte = sim.byte
    <3>1. \/ sim' = [sim EXCEPT !.step = 2]
          \/ \E pc \in {"Tick", "Full", "Close"} : SimGo(pc)
      BY <1>3, GoodSim DEF SimRead
    <3> QED
      BY <3>1, GoodSim DEF SimGo, SimType
  <2>3. QuietSrv /\ \A c \in Clients : QuietConn(c)
    BY <1>1, KeepSrv, SameConn, GoodSim DEF QuietSrv, Aborted
  <2>4. Typed'
    BY GoodTypes, NextTyped
  <2>5. CASE sim'.pc # "Close"
    <3>1. QuietSim
      BY <2>1, <2>2, <2>5 DEF QuietSim
    <3> QED
      BY <2>1, <2>3, <2>4, <3>1, KeepOwn, QuietStep
  <2>6. CASE sim'.pc = "Close"
    <3> DEFINE b == sim.byte
               c == b[1]
    <3>1. Handling /\ sim'.step = 1 /\ Kind(b) = "Q"
      BY <2>1, <2>6
    <3>2. b \in Bytes /\ c \in Clients /\ conns[c].next > Quit(c)
      BY <3>1, QuitHandled
    <3>3. ASSUME srv.pc # "Ended"
          PROVE  cfd # 0 /\ fds[cfd] = c
      <4>1. c = Served
        BY <3>1, <3>3, GoodSim DEF OwnBytes
      <4> QED
        BY <3>2, <4>1, GoodSim DEF Served
    <3>4. \A n \in Fds : fds[n] # 0 => n = cfd /\ fds[n] = c
      <4>1. CASE srv.pc # "Ended"
        BY <3>3, <4>1, GoodSim DEF OneClient
      <4>2. CASE srv.pc = "Ended"
        <5>1. \A d \in Clients : conns[d].st \in {"new", "closed"}
          BY <4>2, GoodSim DEF OneClient
        <5>2. \A n \in Fds : fds[n] # 0 => fds[n] \in Clients /\ conns[fds[n]].st = "open"
          BY GoodSim
        <5> QED
          BY <5>1, <5>2
      <4> QED
        BY <4>1, <4>2
    <3>5. Waiting = {}
      <4>1. CASE srv.pc = "Ended"
        <5>1. \A d \in Clients : conns[d].st \in {"new", "closed"}
          BY <4>1, GoodSim DEF OneClient
        <5> QED
          BY <5>1 DEF Waiting
      <4>2. CASE srv.pc # "Ended"
        <5>1. conns[c].st = "open"
          <6>1. cfd \in Fds /\ fds[cfd] # 0 /\ fds[cfd] = c
            BY <3>2, <3>3, <4>2, GoodSim
          <6> QED
            BY <6>1, GoodSim
        <5>2. Quitting(c)
          BY <3>2, <5>1 DEF Quitting
        <5> QED
          BY <3>2, <5>2, GoodSim DEF OneClient
      <4> QED
        BY <4>1, <4>2
    <3> HIDE DEF b, c
    <3>6. OneClient'
      <4>1. Waiting' = {} /\ Served' = Served
        BY <1>1, <3>5 DEF Waiting, Served
      <4> QED
        BY <1>1, <4>1, GoodSim DEF OneClient
    <3>7. OwnBytes'
      <4>1. Served' = Served
        BY <1>1 DEF Served
      <4> QED
        BY <1>1, <2>1, <4>1, GoodSim DEF OwnBytes
    <3>8. Closing' /\ ~Aborted'
      <4>1. Kind(sim'.byte) = "Q" /\ sim'.step = 1 /\ sim'.byte[1] = c
        BY <2>2, <3>1 DEF b, c
      <4> QED
        BY <1>1, <3>4, <4>1, GoodSim DEF Closing, Aborted, Kind, Quit
    <3>9. \A d \in Clients : GivenOK(d, handled', Outbound', conns'[d])
      <4>1. \A d \in Clients : OnlySt(d)
        BY <1>1 DEF OnlySt
      <4> QED
        BY <2>1, <4>1, GivenKept
    <3> QED
      BY <3>6, <3>7, <3>8, <3>9 DEF Orderly
  <2> QED
    BY <2>5, <2>6
<1> QED
  BY <1>2, <1>3

(* The close in the simulation's thread: the client that is served has     *)
(* quit, has all its answers, and nothing of it is on the way.             *)
LEMMA OrderlyClose ==
  ASSUME Good, [Next]_vars, Build = "O2", SimClose
  PROVE  Orderly'
<1> DEFINE b == sim.byte
           c == b[1]
<1>1. UNCHANGED <<rings, run, srv, handled>> /\ sim.pc = "Close" /\ Typed'
  BY GoodTypes, NextTyped DEF SimClose
<1>2. ~SimRead /\ ~SrvSend /\ ~SrvRead
  <2>1. ~SimRead
    BY <1>1 DEF SimRead
  <2>2. SrvSend \/ SrvRead => sim' = sim /\ sim.pc = "Close" /\ srv' # srv
    <3>1. SrvSend \/ SrvRead => sim' = sim
      BY DEF SrvSend, SrvRead
    <3>2. SrvSend => srv'.pc # "Send" /\ srv.pc = "Send"
      <4>1. SrvSend => (SrvGo("Get") \/ SrvGo("Abort")) /\ srv.pc = "Send"
        BY DEF SrvSend
      <4> QED
        BY <4>1, GoodTypes DEF SrvGo, SrvType
    <3>3. SrvRead => srv'.pc # "Read" /\ srv.pc = "Read"
      <4>1. SrvRead => \/ SrvGo("Out")
                       \/ SrvGo("Abort")
                       \/ srv' = [srv EXCEPT !.pc = "Put", !.step = 1, !.byte = Head(Peer(cfd).toSrv)]
        BY DEF SrvRead
      <4>2. SrvRead => srv.pc = "Read"
        BY DEF SrvRead
      <4> QED
        BY <4>1, <4>2, GoodTypes DEF SrvGo, SrvType
    <3> QED
      BY <1>1, <3>1, <3>2, <3>3
  <2> QED
    BY <1>1, <2>1, <2>2
<1>3. Inbound' = Inbound /\ Outbound' = Outbound
  BY <1>2, OwnInbound, OutStep, GoodTypes
<1>4. Kind(b) = "Q" /\ \A n \in Fds : fds[n] # 0 => /\ fds[n] = c
                                                    /\ sim.step = 1 \/ (sim.step = 2 /\ n = sim.fd)
  BY <1>1, GoodSim DEF Closing
<1>5. /\ b \in Bytes /\ c \in Clients /\ conns[c].next > Quit(c) /\ NumbersOf(Inbound, c) = {}
      /\ NumbersOf(Outbound, c) = {}
  BY <1>1, <1>4, QuitHandled, Drained
<1>6. Quitting(c) /\ Waiting = {}
  <2>1. Quitting(c)
    BY <1>1, <1>5 DEF Quitting
  <2> QED
    BY <1>5, <2>1, GoodSim DEF OneClient
<1> HIDE DEF b, c
<1>7. CASE sim.step = 1 /\ cfd = 0
  BY <1>7, QuietSimulation
<1>8. CASE sim.step = 1 /\ cfd # 0
  <2>1. sim' = [sim EXCEPT !.step = 2, !.fd = cfd] /\ UNCHANGED <<cfd, fds, conns>>
    BY <1>8 DEF SimClose
  <2>2. sim'.pc = "Close" /\ sim'.step = 2 /\ sim'.fd = cfd /\ sim'.byte = b
    BY <1>1, <2>1, GoodSim DEF SimType, b
  <2>3. OneClient'
    <3>1. Waiting' = {} /\ Served' = Served
      BY <1>6, <2>1 DEF Waiting, Served
    <3> QED
      BY <1>1, <2>1, <3>1, GoodSim DEF OneClient
  <2>4. OwnBytes'
    <3>1. Served' = Served /\ ~Handling'
      BY <2>1, <2>2 DEF Served, Handling
    <3> QED
      BY <1>1, <1>3, <3>1, GoodSim DEF OwnBytes
  <2>5. Closing'
    <3>1. Kind(sim'.byte) = "Q"
      BY <1>4, <2>2
    <3>2. \A n \in Fds : fds[n] # 0 => fds[n] = c /\ n = cfd
      BY <1>4, GoodSim DEF OneClient
    <3> QED
      BY <2>1, <2>2, <3>1, <3>2 DEF Closing, c, Kind, Quit
  <2>6. \A d \in Clients : GivenOK(d, handled', Outbound', conns'[d])
    <3>1. \A d \in Clients : OnlySt(d)
      BY <2>1 DEF OnlySt
    <3> QED
      BY <1>1, <1>3, <3>1, GivenKept
  <2> QED
    BY <1>1, <2>3, <2>4, <2>5, <2>6, GoodSim DEF Orderly, Aborted
<1>9. CASE sim.step = 2
  <2>1. /\ sim' = [sim EXCEPT !.step = 3] /\ fds' = [fds EXCEPT ![sim.fd] = 0] /\ cfd' = cfd
        /\ conns' = [d \in Clients |-> IF fds[sim.fd] = d THEN [conns[d] EXCEPT !.st = "closed"] ELSE conns[d]]
    BY <1>9 DEF SimClose
  <2>2. sim'.pc = "Close" /\ sim'.step = 3 /\ sim'.byte = b
    BY <1>1, <2>1, GoodSim DEF SimType, b
  <2>3. \A n \in Fds : fds'[n] = 0
    BY <1>4, <1>9, <2>1, GoodSim
  <2>4. ASSUME NEW d \in Clients
        PROVE  /\ OnlySt(d) /\ conns'[d].st # "open"
               /\ conns'[d].st = conns[d].st \/ conns'[d].st = "closed"
    <3>1. conns[d] \in ConnType
      BY GoodSim
    <3> DEFINE q == [conns[d] EXCEPT !.st = "closed"]
    <3>2. q.st = "closed" /\ q.peer = conns[d].peer /\ q.next = conns[d].next /\ q.got = conns[d].got /\ q.toCli = conns[d].toCli
      BY <3>1, SetSt
    <3>3. conns'[d] = IF fds[sim.fd] = d THEN q ELSE conns[d]
      BY <2>1
    <3>4. conns[d].st = "open" => fds[sim.fd] = d
      <4> SUFFICES ASSUME conns[d].st = "open"
                   PROVE  fds[sim.fd] = d
        OBVIOUS
      <4>1. cfd # 0 /\ fds[cfd] = d /\ d # 0 /\ cfd \in Fds
        BY GoodSim DEF OneClient, Served
      <4>2. cfd = sim.fd
        BY <1>4, <1>9, <4>1
      <4> QED
        BY <4>1, <4>2
    <3> HIDE DEF q
    <3> QED
      BY <3>2, <3>3, <3>4 DEF OnlySt
  <2>5. OneClient'
    <3>1. Waiting' = {}
      BY <1>6, <2>4 DEF Waiting
    <3>2. srv'.pc = "Ended" => ~run' /\ \A d \in Clients : conns'[d].st \in {"new", "closed"}
      BY <1>1, <2>4, GoodSim DEF OneClient
    <3> QED
      BY <2>3, <2>4, <3>1, <3>2 DEF OneClient
  <2>6. OwnBytes'
    <3>1. Served' = 0
      BY <2>1, <2>3, GoodSim DEF Served
    <3>2. ASSUME srv.pc # "Ended"
          PROVE  Inbound = <<>> /\ Outbound = <<>>
      <4>1. OnlyOf(Inbound, Served) /\ OnlyOf(Outbound, Served)
        BY <3>2, GoodSim DEF OwnBytes
      <4>2. CASE Served = 0
        BY <4>1, <4>2, GoodSim, OnlyEmpty
      <4>3. CASE Served # 0
        <5>1. cfd \in Fds /\ fds[cfd] # 0 /\ Served = fds[cfd]
          BY <4>3, GoodSim DEF Served
        <5>2. Served = c
          BY <1>4, <5>1
        <5>3. OnlyOf(Inbound, c) /\ OnlyOf(Outbound, c)
          BY <4>1, <5>2
        <5> QED
          BY <1>5, <5>3, GoodSim, NothingEmpty
      <4> QED
        BY <4>2, <4>3
    <3>3. ~Handling' /\ OnlyOf(<<>>, 0)
      BY <2>2 DEF Handling, OnlyOf
    <3> QED
      BY <1>1, <1>3, <3>1, <3>2, <3>3 DEF OwnBytes
  <2>7. Closing'
    <3>1. Kind(sim'.byte) = "Q"
      BY <1>4, <2>2
    <3> QED
      BY <2>3, <3>1 DEF Closing, Kind, Quit
  <2>8. \A d \in Clients : GivenOK(d, handled', Outbound', conns'[d])
    BY <1>1, <1>3, <2>4, GivenKept
  <2> QED
    BY <1>1, <2>5, <2>6, <2>7, <2>8, GoodSim DEF Orderly, Aborted
<1>10. CASE sim.step = 3
  <2>1. cfd' = 0 /\ SimGo("Tick") /\ UNCHANGED <<fds, conns>>
    BY <1>10 DEF SimClose
  <2>2. sim'.pc = "Tick" /\ sim'.step = 1 /\ sim'.byte = sim.byte
    BY <2>1, GoodSim DEF SimGo, SimType
  <2>3. \A n \in Fds : fds[n] = 0
    BY <1>4, <1>10
  <2>4. Served = 0 /\ Served' = 0
    BY <2>1, <2>3, GoodSim DEF Served
  <2>5. QuietSrv
    BY <1>1, <2>1, <2>3, <2>4, GoodSim DEF QuietSrv, Aborted
  <2>6. QuietSim
    BY <2>2 DEF QuietSim, Handling
  <2>7. \A d \in Clients : QuietConn(d)
    BY <2>1, SameConn
  <2> QED
    BY <1>1, <1>3, <2>5, <2>6, <2>7, KeepOwn, QuietStep
<1> QED
  BY <1>7, <1>8, <1>9, <1>10, GoodSim

(* The answers on the way before the first step.                           *)
LEMMA InitAnswers == Init => AnswerInv
<1> SUFFICES ASSUME Init
             PROVE  AnswerInv
  OBVIOUS
<1>1. /\ rings.in = NewRing /\ rings.out = NewRing /\ srv.pc = "Loop"
      /\ sim.pc = "Tick" /\ sim.step = 1 /\ handled = <<>> /\ cfd = 0
      /\ fds = [n \in Fds |-> 0]
      /\ \A c \in Clients : /\ conns[c].st = "new" /\ conns[c].next = 1 /\ conns[c].peer = "up"
                            /\ conns[c].got = <<>> /\ conns[c].toCli = <<>>
  BY DEF Init
<1>2. Contents(NewRing) = <<>>
  <2>1. BufSize \in Nat \ {0, 1}
    BY SizeAssumption
  <2>2. Settled(NewRing) /\ NewRing.rptr = 0 /\ NewRing.wptr = 0
    <3>1. [i \in 0 .. BufSize - 1 |-> None] \in [0 .. BufSize - 1 -> Bytes \cup {None}]
      OBVIOUS
    <3> QED
      BY <2>1, <3>1 DEF NewRing, Settled, Ring
  <2>3. First(NewRing) = 0 /\ Count(NewRing) = 0
    BY <2>1, <2>2, Remainder DEF First, Count
  <2>4. Contents(NewRing) \in Seq(Bytes \cup {None}) /\ Len(Contents(NewRing)) = 0
    BY <2>2, <2>3, ContentsIs
  <2> QED
    BY <2>4, EmptySeq
<1>3. <<>> \o <<>> = <<>> /\ <<>> \in Seq(Bytes) /\ DOMAIN <<>> = {}
  BY EmptySeq
<1>4. Outbound = <<>> /\ Inbound = <<>>
  <2>1. Outbound = (<<>> \o <<>>) \o <<>>
    BY <1>1, <1>2 DEF Outbound, Leaving, Entering, Handling
  <2>2. Inbound = (<<>> \o <<>>) \o <<>>
    BY <1>1, <1>2 DEF Inbound, InFlight
  <2> QED
    BY <1>3, <2>1, <2>2
<1>5. \A c \in Clients : Quit(c) \in Nat \ {0}
  BY ScriptFacts
<1>6. AnswerSpace
  BY <1>1, <1>3, <1>4, <1>5 DEF AnswerSpace, SpaceOut, StoredOut, Latest, Handling, QuitsLast
<1>7. OneClient
  BY <1>1, <1>5 DEF OneClient, Quitting, Waiting
<1>8. \A c : OnlyOf(<<>>, c) /\ NumbersOf(<<>>, c) = {} /\ Carries(<<>>, c, {})
  BY <1>3, CarriesNone DEF OnlyOf, NumbersOf, Of
<1>9. OwnBytes /\ Closing /\ ~Aborted
  BY <1>1, <1>4, <1>8 DEF OwnBytes, Closing, Aborted, Handling
<1>10. ASSUME NEW c \in Clients
       PROVE  GivenOK(c, handled, Outbound, conns[c])
  <2>1. ~(conns[c].next > Quit(c))
    BY <1>1, <1>5
  <2> QED
    BY <1>1, <1>3, <1>4, <1>8, <2>1 DEF GivenOK
<1> QED
  BY <1>6, <1>7, <1>9, <1>10 DEF AnswerInv, Orderly

(* Every step keeps the answers in order.                                  *)
LEMMA StepAnswers ==
  ASSUME Typed, CommandInv, AnswerInv, Build = "O2", ~Overlap, [Next]_vars
  PROVE  AnswerInv'
<1>1. AnswerSpace /\ AnswerSpace' /\ (Early => Early')
  BY OutStep, EarlyStays DEF AnswerInv, AnswerSpace
<1>2. ASSUME ~Early'
      PROVE  Orderly'
  <2>1. Good /\ ~Early
    BY <1>1, <1>2 DEF AnswerInv, Good
  <2>2. CASE Client
    BY <1>2, <2>1, <2>2, OrderlyClient DEF Client
  <2>3. CASE Server
    <3>1. CASE SrvAccept /\ cfd = 0 /\ conns' # conns
      BY <2>1, <3>1, OrderlyAccept
    <3>2. CASE SrvAccept /\ (cfd # 0 \/ conns' = conns)
      BY <2>1, <3>2, QuietServer
    <3>3. CASE SrvSend
      BY <2>1, <3>3, OrderlySend
    <3>4. CASE SrvEnd
      BY <2>1, <3>4, OrderlyEnd
    <3>5. CASE SrvSelect \/ SrvIn \/ SrvRoom \/ SrvRead \/ SrvPut \/ SrvOut \/ SrvGet
      BY <2>1, <3>5, QuietServer
    <3> QED
      BY <2>3, <3>1, <3>2, <3>3, <3>4, <3>5 DEF Server
  <2>4. CASE Simulation \/ SimFinish
    <3>1. CASE SimRead
      BY <2>1, <3>1, OrderlyRead
    <3>2. CASE SimClose
      BY <2>1, <3>2, OrderlyClose
    <3>3. CASE SimFull \/ SimPut \/ SimFinish \/ SimJoin
      BY <2>1, <3>3, QuietSimulation
    <3> QED
      BY <2>4, <3>1, <3>2, <3>3 DEF Simulation
  <2>5. CASE UNCHANGED vars
    BY <2>1, <2>5, QuietSimulation
  <2> QED
    BY <2>2, <2>3, <2>4, <2>5 DEF Next
<1> QED
  BY <1>1, <1>2 DEF AnswerInv

(* The commands of a client that the simulation has taken are its first.   *)
LEMMA TakenFirst ==
  ASSUME Typed, CommandInv, NEW c \in Clients
  PROVE  \E h \in Nat : h <= Quit(c) /\ NumbersOf(handled, c) = 1 .. h
<1> DEFINE k == conns[c]
           t == k.next - 1 - Len(k.toSrv)
<1>1. k \in ConnType /\ k.next <= Quit(c) + 1 /\ StreamOK(c, handled, Inbound, k)
  BY DEF Typed, ConnsOK, CommandInv
<1>2. k.next \in Nat \ {0} /\ Len(k.toSrv) \in Nat /\ Quit(c) \in Nat
  BY <1>1, ConnFields, LenProperties, ScriptFacts
<1>3. PICK h \in 0 .. t : Carries(handled, c, 1 .. h)
  BY <1>1 DEF StreamOK
<1>4. h \in Nat /\ h <= Quit(c)
  BY <1>1, <1>2, <1>3
<1> QED
  BY <1>3, <1>4 DEF Carries

(* The first answers of a client: those before the n-th command.           *)
LEMMA FirstAnswers ==
  ASSUME NEW c \in Clients, NEW A, NEW B, NEW h \in Nat, h <= Quit(c),
         A \cup B = Answers(c) \cap (1 .. h), \A x \in A, y \in B : x < y
  PROVE  \E n \in 0 .. Len(Script[c]) : A = Answers(c) \cap (1 .. n)
<1>1. Len(Script[c]) \in Nat /\ Quit(c) = Len(Script[c]) + 1 /\ Answers(c) \subseteq 1 .. Len(Script[c])
  BY ScriptFacts
<1>2. CASE B = {}
  <2>1. PICK n \in 0 .. Len(Script[c]) : \A i \in 1 .. Len(Script[c]) : i <= h <=> i <= n
    <3>1. CASE h <= Len(Script[c])
      BY <1>1, <3>1
    <3>2. CASE h > Len(Script[c])
      <4>1. \A i \in 1 .. Len(Script[c]) : i <= h <=> i <= Len(Script[c])
        BY <1>1, <3>2
      <4>2. Len(Script[c]) \in 0 .. Len(Script[c])
        BY <1>1
      <4> HIDE DEF Clients
      <4> QED
        BY <4>1, <4>2, Zenon
    <3> QED
      BY <1>1, <3>1, <3>2
  <2>2. A = Answers(c) \cap (1 .. n)
    BY <1>1, <1>2, <2>1
  <2> QED
    BY <2>2
<1>3. CASE B # {}
  <2>1. B \in SUBSET Nat /\ A \subseteq Nat
    BY <1>1
  <2>2. PICK m \in B : \A y \in B : y >= m
    BY <1>3, <2>1, LeastOf
  <2>3. m \in Answers(c) /\ m \in 1 .. h /\ m - 1 \in 0 .. Len(Script[c])
    BY <1>1, <2>2
  <2>4. ASSUME NEW x \in A
        PROVE  x \in Answers(c) \cap (1 .. m - 1)
    <3>1. x < m /\ x \in Answers(c) /\ x \in 1 .. h
      BY <2>2
    <3> QED
      BY <2>3, <3>1
  <2>5. ASSUME NEW x \in Answers(c) \cap (1 .. m - 1)
        PROVE  x \in A
    <3>1. x \in 1 .. h /\ x < m /\ x \in Nat
      BY <2>3
    <3>2. x \notin B
      BY <2>2, <2>1, <2>3, <3>1
    <3> QED
      BY <3>1, <3>2, <2>5
  <2> QED
    BY <2>3, <2>4, <2>5
<1> QED
  BY <1>2, <1>3

(* What is kept says that the answers are in order.                        *)
LEMMA AnswersFollow ==
  ASSUME Typed, CommandInv, AnswerInv
  PROVE  AnswersInOrder /\ AbortsOnlyEarly
<1>1. ASSUME ~Early, NEW c \in Clients
      PROVE  /\ OnlyOf(conns[c].got \o conns[c].toCli, c)
             /\ \E n \in 0 .. Len(Script[c]) :
                  Carries(conns[c].got \o conns[c].toCli, c, Answers(c) \cap (1 .. n))
  <2> DEFINE all == conns[c].got \o conns[c].toCli
             u == all \o Outbound
             out == Outbound
  <2>1. Good
    BY <1>1 DEF AnswerInv, Good
  <2>2. all \in Seq(Bytes) /\ Outbound \in Seq(Bytes) /\ OnlyOf(all, c)
    BY <2>1, GoodFacts
  <2>3. PICK h \in Nat : h <= Quit(c) /\ NumbersOf(handled, c) = 1 .. h
    BY TakenFirst
  <2> DEFINE N == Answers(c) \cap (1 .. h)
  <2>4. Carries(u, c, N)
    BY <2>1, <2>3, GoodFacts DEF GivenOK
  <2>5. u = all \o out /\ all \in Seq(Bytes) /\ out \in Seq(Bytes)
    BY <2>2
  <2> HIDE DEF all, u, N, out
  <2>6. /\ Carries(all, c, NumbersOf(all, c))
        /\ N = NumbersOf(all, c) \cup NumbersOf(out, c)
        /\ \A x \in NumbersOf(all, c), y \in NumbersOf(out, c) : x < y
    BY <2>4, <2>5, CarriesSplit
  <2>7. \E n \in 0 .. Len(Script[c]) : NumbersOf(all, c) = Answers(c) \cap (1 .. n)
    BY <2>3, <2>6, FirstAnswers DEF N
  <2>8. \E n \in 0 .. Len(Script[c]) : Carries(all, c, Answers(c) \cap (1 .. n))
    BY <2>6, <2>7
  <2> QED
    BY <2>2, <2>8 DEF all
<1>2. AnswersInOrder
  BY <1>1 DEF AnswersInOrder
<1>3. AbortsOnlyEarly
  BY DEF AbortsOnlyEarly, AnswerInv, Orderly
<1> QED
  BY <1>2, <1>3

(* What is kept, in a build that stores the byte before the index.         *)
LEMMA AnswersHold ==
  ASSUME Build = "O2", ~Overlap
  PROVE  Spec => [](Typed /\ CommandInv /\ AnswerInv)
<1> DEFINE Inv == Typed /\ CommandInv /\ AnswerInv
<1>1. Init => Inv
  BY InitInv, InitCommands, InitAnswers, Parts
<1>2. Inv /\ [Next]_vars => Inv'
  BY NextTyped, StepCommands, StepAnswers
<1> QED
  BY <1>1, <1>2, PTL DEF Spec

(* AnswersInOrder: a client is sent its own answers, each once and in      *)
(* order, and none of another's, while no client goes away without its     *)
(* 'Q' (jtagdpi.c answers it by closing the connection).                   *)
THEOREM AnswersKept ==
  ASSUME Build = "O2", ~Overlap
  PROVE  Spec => []AnswersInOrder
<1>1. Typed /\ CommandInv /\ AnswerInv => AnswersInOrder
  BY AnswersFollow
<1> QED
  BY <1>1, AnswersHold, PTL

(* AbortsOnlyEarly: until a client goes away without its 'Q', no assertion *)
(* of get_byte or put_byte (tcp_server.c) fails.                           *)
THEOREM AbortsEarly ==
  ASSUME Build = "O2", ~Overlap
  PROVE  Spec => []AbortsOnlyEarly
<1>1. Typed /\ CommandInv /\ AnswerInv => AbortsOnlyEarly
  BY AnswersFollow
<1> QED
  BY <1>1, AnswersHold, PTL
=============================================================================
