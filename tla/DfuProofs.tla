----------------------------- MODULE DfuProofs -----------------------------
(***************************************************************************)
(* Proofs about Dfu for all packet and transfer sizes, buffers, requests   *)
(* and forbidden modes, for a host that ends each request and asks for the *)
(* status after an upload.  The operators of the driver and of the DFU     *)
(* state machine come first, field by field; then the stages of a control  *)
(* transfer, action by action; then what is told, staged and uploaded.     *)
(***************************************************************************)
EXTENDS Dfu, TLAPS

(* The settings fit in the buffer, and one that sends has something.       *)
LEMMA SettingsFacts ==
  /\ DOMAIN Settings = 1 .. 4
  /\ \A i \in DOMAIN Settings :
       /\ Settings[i].len \in 0 .. TransferSize
       /\ Settings[i].up \in Modes /\ Settings[i].down \in Modes
       /\ Settings[i].up # "none" => Settings[i].len > 0
       /\ <<Settings[i].up>> \in Data
<1>1. DOMAIN Settings = 1 .. 4
  BY DEF Settings
<1>2. ASSUME NEW i \in 1 .. 4
      PROVE  /\ Settings[i].len \in 0 .. TransferSize
             /\ Settings[i].up \in Modes /\ Settings[i].down \in Modes
             /\ Settings[i].up # "none" => Settings[i].len > 0
  <2>1. Settings[1] = [up |-> "none", down |-> "Firmware", len |-> 0]
    BY DEF Settings
  <2>2. Settings[2] = [up |-> "OpenTitanID", down |-> "none", len |-> MaxPacket]
    BY DEF Settings
  <2>3. Settings[3] = [up |-> "BootSvcRsp", down |-> "BootSvcReq", len |-> TransferSize - 1]
    BY DEF Settings
  <2>4. Settings[4] = [up |-> "OwnerPage0", down |-> "OwnerBlock", len |-> TransferSize]
    BY DEF Settings
  <2>5. CASE i = 1
    BY <2>1, <2>5, SizesAssumption DEF Modes
  <2>6. CASE i = 2
    BY <2>2, <2>6, SizesAssumption DEF Modes
  <2>7. CASE i = 3
    BY <2>3, <2>7, SizesAssumption DEF Modes
  <2>8. CASE i = 4
    BY <2>4, <2>8, SizesAssumption DEF Modes
  <2> QED
    BY <2>5, <2>6, <2>7, <2>8
<1>3. ASSUME NEW i \in 1 .. 4
      PROVE  <<Settings[i].up>> \in Data
  BY <1>1 DEF Data
<1> QED
  BY <1>1, <1>2, <1>3

(* The values that are carried.                                            *)
LEMMA DataFacts ==
  /\ NoData \in Data /\ Unread \in Data /\ <<"descriptor">> \in Data
  /\ \A n \in 0 .. MaxBlocks : <<"block", n>> \in Data
  /\ \A s \in States : <<s>> \in Data
  /\ \A e \in Errors, s \in States : <<e, s>> \in Data
BY DEF Data

(* SendPacket moves at most a packet from the transfer to the register.    *)
Sends(d, e) ==
  /\ e \in Devices
  /\ e.pool = d.pool - 1
  /\ e.reg.rdy /\ e.reg.size = Least(MaxPacket, d.in.len) /\ e.reg.data = d.in.data
  /\ e.in.len = d.in.len - Least(MaxPacket, d.in.len)
  /\ e.in.short <=> d.in.short /\ Least(MaxPacket, d.in.len) = MaxPacket
  /\ e.in.zlp = d.in.zlp /\ e.in.done = d.in.done /\ e.in.ack = d.in.ack
  /\ e.in.len > 0 => e.in.data = d.in.data
  /\ e.state = d.state /\ e.error = d.error /\ e.allow = d.allow /\ e.staged = d.staged
  /\ e.data = d.data /\ e.out = d.out
  /\ e.pend = d.pend /\ e.sent = d.sent /\ e.stall = d.stall

LEMMA SendPacketFacts ==
  ASSUME NEW d \in Devices
  PROVE  Sends(d, SendPacket(d))
<1> DEFINE chunk == Least(MaxPacket, d.in.len)
           more == d.in.short /\ chunk = MaxPacket
           left == IF chunk < d.in.len THEN d.in.data ELSE NoData
           i == [d.in EXCEPT !.len = d.in.len - chunk, !.short = more, !.data = left]
           g == [rdy |-> TRUE, size |-> chunk, data |-> d.in.data]
           p == d.pool - 1
           e == [d EXCEPT !.pool = p, !.in = i, !.reg = g]
<1>1. d.in \in Transfers /\ d.reg \in Registers
  BY DEF Devices
<1>2. chunk \in 0 .. MaxPacket /\ chunk <= d.in.len /\ chunk \in 0 .. TransferSize
  BY <1>1, SizesAssumption DEF Transfers, Least
<1>0. left \in Data /\ more \in BOOLEAN
  BY <1>1, DataFacts DEF Transfers
<1>a. d.in.len - chunk \in 0 .. TransferSize /\ (d.in.len - chunk > 0 => left = d.in.data)
  BY <1>1, <1>2, SizesAssumption DEF Transfers
<1> HIDE DEF chunk, left, more
<1>3. /\ i \in Transfers /\ i.len = d.in.len - chunk /\ i.short = more
      /\ i.zlp = d.in.zlp /\ i.done = d.in.done /\ i.ack = d.in.ack
      /\ i.len > 0 => i.data = d.in.data
  BY <1>0, <1>1, <1>a DEF Transfers
<1>4. g \in Registers
  BY <1>1, <1>2 DEF Registers, Transfers
<1>5. SendPacket(d) = e
  BY DEF SendPacket, chunk, left, more
<1>b. g.rdy /\ g.size = chunk /\ g.data = d.in.data
  OBVIOUS
<1>p. p \in Int
  BY DEF Devices
<1> HIDE DEF i, g, p
<1>c. /\ e \in Devices /\ e.in = i /\ e.reg = g /\ e.pool = p
      /\ e.state = d.state /\ e.error = d.error /\ e.allow = d.allow /\ e.staged = d.staged
      /\ e.data = d.data /\ e.out = d.out
      /\ e.pend = d.pend /\ e.sent = d.sent /\ e.stall = d.stall
  BY <1>3, <1>4, <1>p DEF Devices
<1> HIDE DEF e
<1>6. Sends(d, e)
  BY <1>2, <1>3, <1>b, <1>c DEF Sends, chunk, more, p
<1> QED
  BY <1>5, <1>6

(* What the driver leaves to the DFU state machine, and the other way.     *)
SameDfu(d, e) ==
  /\ e.state = d.state /\ e.error = d.error /\ e.allow = d.allow /\ e.staged = d.staged
  /\ e.data = d.data
SameDriver(d, e) ==
  /\ e.pool = d.pool /\ e.in = d.in /\ e.out = d.out /\ e.reg = d.reg
  /\ e.pend = d.pend /\ e.sent = d.sent
SameFlags(d, e) == e.pend = d.pend /\ e.sent = d.sent /\ e.stall = d.stall

(* An IN transfer starts with its first packet.                            *)
Transmits(d, e, data, len, short, ack) ==
  /\ e \in Devices
  /\ e.pool = d.pool - 1
  /\ e.reg.rdy /\ e.reg.size = Least(MaxPacket, len) /\ e.reg.data = data
  /\ e.in.len = len - Least(MaxPacket, len)
  /\ e.in.short <=> short /\ Least(MaxPacket, len) = MaxPacket
  /\ e.in.zlp <=> len > 0
  /\ e.in.ack <=> ack
  /\ e.in.done = 0
  /\ e.in.len > 0 => e.in.data = data
  /\ e.out = d.out /\ SameDfu(d, e) /\ SameFlags(d, e)

LEMMA InTransferFacts ==
  ASSUME NEW d \in Devices, NEW data \in Data, NEW len \in 0 .. TransferSize,
         NEW short \in BOOLEAN, NEW ack \in BOOLEAN
  PROVE  Transmits(d, InTransfer(d, data, len, short, ack), data, len, short, ack)
<1> DEFINE zlp == len > 0
           i == [len |-> len, done |-> 0, zlp |-> zlp, ack |-> ack, short |-> short, data |-> data]
           f == [d EXCEPT !.in = i]
           e == SendPacket(f)
<1>0. zlp \in BOOLEAN
  OBVIOUS
<1>1. InTransfer(d, data, len, short, ack) = e
  BY DEF InTransfer
<1>2. zlp <=> len > 0
  OBVIOUS
<1> HIDE DEF zlp
<1>3. /\ i \in Transfers /\ i.len = len /\ i.done = 0 /\ i.zlp = zlp /\ i.ack = ack
      /\ i.short = short /\ i.data = data
  BY <1>0 DEF Transfers
<1> HIDE DEF i
<1>4. /\ f \in Devices /\ f.in = i /\ f.reg = d.reg /\ f.pool = d.pool
      /\ f.state = d.state /\ f.error = d.error /\ f.allow = d.allow /\ f.staged = d.staged
      /\ f.data = d.data /\ f.out = d.out
      /\ f.pend = d.pend /\ f.sent = d.sent /\ f.stall = d.stall
  BY <1>3 DEF Devices
<1> HIDE DEF f
<1>5. Sends(f, e)
  BY <1>4, SendPacketFacts
<1> HIDE DEF e
<1>6. Transmits(d, e, data, len, short, ack)
  BY <1>2, <1>3, <1>4, <1>5 DEF Sends, Transmits, SameDfu, SameFlags
<1> QED
  BY <1>1, <1>6

(* An OUT transfer waits for its packets.                                  *)
Awaits(d, e, len, ack) ==
  /\ e \in Devices
  /\ e.out.len = len /\ (e.out.zlp <=> len > 0) /\ (e.out.ack <=> ack)
  /\ e.pool = d.pool /\ e.in = d.in /\ e.reg = d.reg /\ SameDfu(d, e) /\ SameFlags(d, e)

LEMMA OutTransferFacts ==
  ASSUME NEW d \in Devices, NEW len \in 0 .. TransferSize, NEW ack \in BOOLEAN
  PROVE  Awaits(d, OutTransfer(d, len, ack), len, ack)
<1> DEFINE zlp == len > 0
           no == FALSE
           o == [len |-> len, done |-> 0, zlp |-> zlp, ack |-> ack, short |-> no, data |-> NoData]
           e == [d EXCEPT !.out = o]
<1>0. zlp \in BOOLEAN /\ no \in BOOLEAN
  OBVIOUS
<1>1. OutTransfer(d, len, ack) = e
  BY DEF OutTransfer
<1>2. zlp <=> len > 0
  OBVIOUS
<1> HIDE DEF zlp, no
<1>3. o \in Transfers /\ o.len = len /\ o.zlp = zlp /\ o.ack = ack
  BY <1>0, DataFacts DEF Transfers
<1> HIDE DEF o
<1>4. /\ e \in Devices /\ e.out = o /\ e.in = d.in /\ e.reg = d.reg /\ e.pool = d.pool
      /\ SameDfu(d, e) /\ SameFlags(d, e)
  BY <1>3 DEF Devices, SameDfu, SameFlags
<1> HIDE DEF e
<1> QED
  BY <1>1, <1>2, <1>3, <1>4 DEF Awaits

(* An empty packet acknowledges.                                           *)
LEMMA AcknowledgeFacts ==
  ASSUME NEW d \in Devices
  PROVE  /\ Transmits(d, Acknowledge(d), NoData, 0, FALSE, FALSE)
         /\ Acknowledge(d).reg.size = 0 /\ Acknowledge(d).in.len = 0
         /\ ~Acknowledge(d).in.short /\ ~Acknowledge(d).in.zlp
<1> DEFINE no == FALSE
           e == InTransfer(d, NoData, 0, no, no)
<1>1. no \in BOOLEAN /\ 0 \in 0 .. TransferSize
  BY SizesAssumption
<1>2. Acknowledge(d) = e
  BY DEF Acknowledge
<1>3. ~no
  OBVIOUS
<1> HIDE DEF no
<1>4. Transmits(d, e, NoData, 0, no, no)
  BY <1>1, DataFacts, InTransferFacts
<1> HIDE DEF e
<1>5. Least(MaxPacket, 0) = 0
  BY SizesAssumption DEF Least
<1>6. e.reg.size = 0 /\ e.in.len = 0 /\ ~e.in.short /\ ~e.in.zlp
  BY <1>3, <1>4, <1>5, SizesAssumption DEF Transmits
<1>7. Transmits(d, e, NoData, 0, FALSE, FALSE)
  BY <1>4 DEF no
<1> QED
  BY <1>2, <1>6, <1>7

LEMMA StalledFacts ==
  ASSUME NEW d \in Devices
  PROVE  LET e == Stalled(d)
         IN  e \in Devices /\ e.stall /\ SameDriver(d, e) /\ SameDfu(d, e)
<1> DEFINE yes == TRUE
           e == [d EXCEPT !.stall = yes]
<1>1. Stalled(d) = e /\ yes
  BY DEF Stalled
<1>2. yes \in BOOLEAN
  OBVIOUS
<1> HIDE DEF yes
<1>3. e \in Devices /\ e.stall = yes /\ SameDriver(d, e) /\ SameDfu(d, e)
  BY <1>2 DEF Devices, SameDriver, SameDfu
<1> HIDE DEF e
<1> QED
  BY <1>1, <1>3

(* The end of a transfer, in the DFU state machine.                        *)
Ended(d, e, len, error, ok) ==
  /\ e \in Devices
  /\ SameDriver(d, e) /\ e.stall = d.stall /\ e.allow = d.allow /\ e.data = d.data
  /\ error => e.state = "Error" /\ e.error = "Unknown"
  /\ ~error /\ d.state = "DnLoadSync" =>
       e.state = "DnLoadIdle" /\ e.error = (IF ok THEN "Ok" ELSE "Vendor")
  /\ ~error /\ d.state = "UpLoadIdle" =>
       e.state = (IF len < TransferSize THEN "Idle" ELSE "UpLoadIdle") /\ e.error = d.error
  /\ ~error /\ d.state \notin {"DnLoadSync", "UpLoadIdle"} => e.state = d.state /\ e.error = d.error
  /\ d.state # "UpLoadIdle" => e.staged = d.staged

LEMMA DoneFacts ==
  ASSUME NEW d \in Devices, NEW len \in Nat, NEW error \in BOOLEAN, NEW ok \in BOOLEAN
  PROVE  Ended(d, Done(d, len, error, ok), len, error, ok)
<1> DEFINE x == IF ok THEN "Ok" ELSE "Vendor"
           y == IF len < TransferSize THEN "Idle" ELSE d.state
           f == CASE d.state = "DnLoadSync" -> [d EXCEPT !.state = "DnLoadIdle", !.error = x]
                  [] d.state = "UpLoadIdle" -> [d EXCEPT !.state = y, !.staged = 0]
                  [] OTHER -> d
           g == [f EXCEPT !.state = "Error", !.error = "Unknown"]
           e == Done(d, len, error, ok)
<1>0. SizesAssumption /\ 0 \in 0 .. TransferSize
  BY SizesAssumption
<1>1. e = IF error THEN g ELSE f
  BY DEF Done
<1>2. x \in Errors /\ (d.state = "UpLoadIdle" => y \in States)
  BY DEF Errors, States
<1>3. x = (IF ok THEN "Ok" ELSE "Vendor")
  OBVIOUS
<1>4. d.state = "UpLoadIdle" => y = (IF len < TransferSize THEN "Idle" ELSE "UpLoadIdle")
  OBVIOUS
<1> HIDE DEF x, y, e
<1>5. /\ f \in Devices
      /\ SameDriver(d, f) /\ f.stall = d.stall /\ f.allow = d.allow /\ f.data = d.data
      /\ d.state = "DnLoadSync" => f.state = "DnLoadIdle" /\ f.error = x
      /\ d.state = "UpLoadIdle" => f.state = y /\ f.error = d.error
      /\ d.state \notin {"DnLoadSync", "UpLoadIdle"} => f.state = d.state /\ f.error = d.error
      /\ d.state # "UpLoadIdle" => f.staged = d.staged
  <2>1. CASE d.state = "DnLoadSync"
    <3>1. f = [d EXCEPT !.state = "DnLoadIdle", !.error = x]
      BY <2>1
    <3> HIDE DEF f
    <3> QED
      BY <1>2, <2>1, <3>1 DEF Devices, States, SameDriver
  <2>2. CASE d.state = "UpLoadIdle"
    <3>1. f = [d EXCEPT !.state = y, !.staged = 0]
      BY <2>2
    <3> HIDE DEF f
    <3> QED
      BY <1>0, <1>2, <2>2, <3>1 DEF Devices, SameDriver
  <2>3. CASE d.state \notin {"DnLoadSync", "UpLoadIdle"}
    <3>1. f = d
      BY <2>3
    <3> HIDE DEF f
    <3> QED
      BY <2>3, <3>1 DEF SameDriver
  <2> QED
    BY <2>1, <2>2, <2>3
<1> HIDE DEF f
<1>6. /\ g \in Devices /\ g.state = "Error" /\ g.error = "Unknown" /\ g.staged = f.staged
      /\ SameDriver(f, g) /\ g.stall = f.stall /\ g.allow = f.allow /\ g.data = f.data
  BY <1>5 DEF Devices, States, Errors, SameDriver
<1> HIDE DEF g
<1>7. Ended(d, e, len, error, ok)
  <2>1. CASE error
    <3>1. e = g
      BY <1>1, <2>1
    <3> QED
      BY <2>1, <3>1, <1>5, <1>6 DEF Ended, SameDriver
  <2>2. CASE ~error
    <3>1. e = f
      BY <1>1, <2>2
    <3> QED
      BY <2>2, <3>1, <1>3, <1>4, <1>5 DEF Ended
  <2> QED
    BY <2>1, <2>2
<1> QED
  BY <1>7 DEF e

(* The mode of a setting takes effect, and what it sends is staged.        *)
Configured(d, e, s) ==
  /\ e \in Devices
  /\ SameDriver(d, e) /\ e.stall = d.stall /\ e.state = d.state /\ e.error = d.error
  /\ Allowed(s.up) => e.staged = s.len /\ e.data = <<s.up>>
  /\ Allows(s) # {} => e.allow = Allows(s)

LEMMA SetModeFacts ==
  ASSUME NEW d \in Devices, NEW n \in DOMAIN Settings
  PROVE  Configured(d, SetMode(d, Settings[n]), Settings[n])
<1> DEFINE s == Settings[n]
           v == <<s.up>>
           f == Stage(d, s)
           g == Pair(f, s)
           a == Allows(s)
           e == [g EXCEPT !.allow = a]
<1>1. /\ s.len \in 0 .. TransferSize /\ s.up \in Modes /\ s.down \in Modes /\ v \in Data
      /\ a \in SUBSET {"UpLoad", "DnLoad"}
  BY SettingsFacts DEF Allows
<1>2. /\ f \in Devices /\ SameDriver(d, f) /\ f.stall = d.stall /\ f.state = d.state
      /\ f.error = d.error /\ f.allow = d.allow
      /\ Allowed(s.up) => f.staged = s.len /\ f.data = v
  <2>1. CASE Allowed(s.up)
    <3>1. f = [d EXCEPT !.mode = s.up, !.staged = s.len, !.data = v]
      BY <2>1 DEF Stage
    <3> HIDE DEF s, v, f
    <3> QED
      BY <3>1, <1>1 DEF Devices, SameDriver
  <2>2. CASE ~Allowed(s.up)
    BY <2>2 DEF Stage, SameDriver
  <2> QED
    BY <2>1, <2>2
<1> HIDE DEF f
<1>3. /\ g \in Devices /\ SameDriver(f, g) /\ g.stall = f.stall /\ g.state = f.state
      /\ g.error = f.error /\ g.staged = f.staged /\ g.data = f.data
  <2>1. CASE Allowed(s.down)
    <3>1. g = [f EXCEPT !.mode = s.down]
      BY <2>1 DEF Pair
    <3> HIDE DEF s, v, g
    <3> QED
      BY <3>1, <1>1, <1>2 DEF Devices, SameDriver
  <2>2. CASE ~Allowed(s.down)
    BY <1>2, <2>2 DEF Pair, SameDriver
  <2> QED
    BY <2>1, <2>2
<1> HIDE DEF g
<1>4. /\ e \in Devices /\ SameDriver(g, e) /\ e.stall = g.stall /\ e.state = g.state
      /\ e.error = g.error /\ e.staged = g.staged /\ e.data = g.data /\ e.allow = a
  <2> HIDE DEF a, s
  <2> QED
    BY <1>1, <1>3 DEF Devices, SameDriver
<1>5. SetMode(d, s) = IF a # {} THEN e ELSE g
  BY DEF SetMode, f, g
<1> HIDE DEF e, a
<1>6. Configured(d, SetMode(d, s), s)
  <2>1. CASE a # {}
    BY <2>1, <1>2, <1>3, <1>4, <1>5 DEF Configured, SameDriver, a
  <2>2. CASE a = {}
    BY <2>2, <1>2, <1>3, <1>5 DEF Configured, SameDriver, a
  <2> QED
    BY <2>1, <2>2
<1> QED
  BY <1>6

(* What the device does with a request: it refuses, acknowledges, awaits   *)
(* data or sends data.                                                     *)
Kept(d, e) == e.staged = d.staged /\ e.data = d.data /\ e.allow = d.allow
Refuses(d, e, r) ==
  /\ e \in Devices /\ e.stall /\ SameDriver(d, e) /\ Kept(d, e)
  /\ r.name \notin {"GetStatus", "GetState", "GetDescriptor", "SetConfiguration"}
  /\ \/ r.name = "SetInterface" /\ e.state = d.state /\ e.error = d.error
     \/ r.name = "ClrStatus" /\ e.state = "Idle"
     \/ r.name # "SetInterface" /\ e.state = "Error"
Acks(d, e) ==
  /\ e \in Devices /\ e.pool = d.pool - 1 /\ e.out = d.out /\ SameFlags(d, e)
  /\ e.reg.rdy /\ e.reg.size = 0 /\ e.in.len = 0 /\ ~e.in.short /\ ~e.in.zlp /\ ~e.in.ack
Accepts(d, e, r) ==
  /\ Acks(d, e) /\ ~Reads(r) /\ ~Downloads(r)
  /\ \/ /\ r.name \in {"DnLoad", "ClrStatus", "Abort"} /\ Kept(d, e)
        /\ e.state \in {"Error", "ManifestSync", "Idle"}
     \/ /\ r.name = "SetInterface" /\ r.setting \in DOMAIN Settings
        /\ e.state = d.state /\ e.error = d.error
        /\ LET s == Settings[r.setting]
           IN  /\ e.allow = Allows(s)
               /\ Allowed(s.up) => (e.staged = s.len /\ e.data = <<s.up>>) \/ e.data = Unread
     \/ r.name = "SetConfiguration" /\ e.state = "Idle"
Expects(d, e, r) ==
  /\ Downloads(r) /\ r.len <= TransferSize
  /\ e \in Devices /\ e.state = "DnLoadSync" /\ Kept(d, e)
  /\ e.out.len = r.len /\ e.out.zlp /\ ~e.out.ack
  /\ e.pool = d.pool /\ e.in = d.in /\ e.reg = d.reg /\ SameFlags(d, e)
Replies(d, e, r) ==
  /\ Reads(r) /\ Kept(d, e) /\ e \in Devices
  /\ \E m \in Devices :
       /\ m.pool = d.pool /\ m.out = d.out /\ SameFlags(d, m)
       /\ \/ /\ r.name = "UpLoad" /\ e.state = "UpLoadIdle" /\ r.len <= TransferSize
             /\ "UpLoad" \in d.allow
             /\ LET len == Least(d.staged, r.len)
                IN  Transmits(m, e, d.data, len, len < r.len /\ len % MaxPacket = 0, FALSE)
          \/ /\ r.name = "GetStatus" /\ e.error = d.error
             /\ d.state # "DnLoadSync" => e.state = d.state \/ (e.state = "Idle" /\ d.state = "ManifestSync")
             /\ e.state # "DnLoadSync"
             /\ Transmits(m, e, <<e.error, e.state>>, 1, FALSE, FALSE)
          \/ /\ r.name = "GetState" /\ e.error = d.error
             /\ d.state # "DnLoadSync" => e.state = d.state \/ (e.state = "UpLoadIdle" /\ d.state = "Idle")
             /\ e.state # "DnLoadSync"
             /\ Transmits(m, e, <<e.state>>, 1, FALSE, FALSE)
          \/ /\ r.name = "GetDescriptor" /\ e.error = d.error /\ e.state = d.state
             /\ Transmits(m, e, <<"descriptor">>, 1, FALSE, FALSE)

Moves(name, len, state, t, a) ==
  /\ t \in States
  /\ ~a => t = "Error" \/ (t = "Idle" /\ name = "ClrStatus")
  /\ ~a => name \notin {"GetStatus", "GetState"}
  /\ a /\ name = "DnLoad" /\ len > 0 => t = "DnLoadSync"
  /\ a /\ name = "DnLoad" /\ len = 0 => t \in {"Error", "ManifestSync"}
  /\ a /\ name = "UpLoad" /\ len > 0 => t = "UpLoadIdle"
  /\ name \in {"GetStatus", "GetState"} => a /\ t # "DnLoadSync"
  /\ name = "GetStatus" /\ state # "DnLoadSync" =>
       t = state \/ (t = "Idle" /\ state = "ManifestSync")
  /\ name = "GetState" /\ state # "DnLoadSync" =>
       t = state \/ (t = "UpLoadIdle" /\ state = "Idle")
  /\ a /\ name \in {"ClrStatus", "Abort"} => t = "Idle"

LEMMA NextStateFacts ==
  ASSUME NEW state \in States, NEW len \in Nat,
         NEW name \in {"DnLoad", "UpLoad", "GetStatus", "GetState", "ClrStatus", "Abort"}
  PROVE  Moves(name, len, state, NextState(name, state, len), Answered(name, state))
<1> DEFINE t == NextState(name, state, len)
           a == Answered(name, state)
<1>1. CASE name = "DnLoad"
  <2>1. a <=> state \in {"Idle", "DnLoadIdle"}
    BY <1>1 DEF Answered
  <2>2. ~a => t = "Error"
    BY <1>1, <2>1 DEF NextState, a
  <2>3. a /\ len > 0 => t = "DnLoadSync"
    BY <1>1, <2>1 DEF NextState, a
  <2>4. a /\ len = 0 /\ state = "Idle" => t = "Error"
    BY <1>1, <2>1 DEF NextState, a
  <2>5. a /\ len = 0 /\ state # "Idle" => t = "ManifestSync"
    BY <1>1, <2>1 DEF NextState, a
  <2> QED
    BY <1>1, <2>1, <2>2, <2>3, <2>4, <2>5 DEF States, Moves, t, a
<1>2. CASE name = "UpLoad"
  <2>1. a <=> state \in {"Idle", "UpLoadIdle"}
    BY <1>2 DEF Answered
  <2>2. ~a => t = "Error"
    BY <1>2, <2>1 DEF NextState, a
  <2>3. a /\ len > 0 => t = "UpLoadIdle"
    BY <1>2, <2>1 DEF NextState, a
  <2>4. a /\ state # "UpLoadIdle" => t = "UpLoadIdle"
    BY <1>2, <2>1 DEF NextState, a
  <2>5. a /\ state = "UpLoadIdle" /\ len = 0 => t = "Idle"
    BY <1>2, <2>1 DEF NextState, a
  <2> QED
    BY <1>2, <2>1, <2>2, <2>3, <2>4, <2>5 DEF States, Moves, t, a
<1>3. CASE name = "GetStatus"
  <2>1. a <=> TRUE
    BY <1>3 DEF Answered
  <2>2. state = "DnLoadSync" => t = "DnLoadIdle"
    BY <1>3, <2>1 DEF NextState, a
  <2>3. state = "ManifestSync" => t = "Idle"
    BY <1>3, <2>1 DEF NextState, a
  <2>4. state # "DnLoadSync" /\ state # "ManifestSync" => t = state
    BY <1>3, <2>1 DEF NextState, a
  <2> QED
    BY <1>3, <2>1, <2>2, <2>3, <2>4 DEF States, Moves, t, a
<1>4. CASE name = "GetState"
  <2>1. a <=> TRUE
    BY <1>4 DEF Answered
  <2>2. state = "DnLoadSync" => t = "DnLoadIdle"
    BY <1>4, <2>1 DEF NextState, a
  <2>3. state = "Idle" => t = "UpLoadIdle"
    BY <1>4, <2>1 DEF NextState, a
  <2>4. state # "DnLoadSync" /\ state # "Idle" => t = state
    BY <1>4, <2>1 DEF NextState, a
  <2> QED
    BY <1>4, <2>1, <2>2, <2>3, <2>4 DEF States, Moves, t, a
<1>5. CASE name = "ClrStatus"
  <2>1. a <=> state = "Error"
    BY <1>5 DEF Answered
  <2>2. ~a /\ state = "Idle" => t = "Idle"
    BY <1>5, <2>1 DEF NextState, a
  <2>3. ~a /\ state # "Idle" => t = "Error"
    BY <1>5, <2>1 DEF NextState, a
  <2>4. a => t = "Idle"
    BY <1>5, <2>1 DEF NextState, a
  <2> QED
    BY <1>5, <2>1, <2>2, <2>3, <2>4 DEF States, Moves, t, a
<1>6. CASE name = "Abort"
  <2>1. a <=> state # "Error"
    BY <1>6 DEF Answered
  <2>2. ~a => t = "Error"
    BY <1>6, <2>1 DEF NextState, a
  <2>3. a => t = "Idle"
    BY <1>6, <2>1 DEF NextState, a
  <2> QED
    BY <1>6, <2>1, <2>2, <2>3 DEF States, Moves, t, a
<1> QED
  BY <1>1, <1>2, <1>3, <1>4, <1>5, <1>6

(* A request, and what the host may ask for.                               *)
LEMMA RequestFacts ==
  ASSUME NEW r \in Requests
  PROVE  /\ r.name \in Names /\ r.len \in Nat /\ r.setting \in Nat
         /\ Reads(r) => r.len > 0 /\ ~Downloads(r)
         /\ ~Reads(r) /\ ~Downloads(r) => r.len = 0
         /\ Downloads(r) => ~Reads(r) /\ r.len > 0 /\ r.name = "DnLoad"
BY RequestsAssumption DEF Reads, Downloads

LEMMA DfuControlFacts ==
  ASSUME NEW d \in Devices, NEW r \in Requests,
         r.name \in {"DnLoad", "UpLoad", "GetStatus", "GetState", "ClrStatus", "Abort"}
  PROVE  LET e == DfuControl(d, r)
         IN  Refuses(d, e, r) \/ Accepts(d, e, r) \/ Expects(d, e, r) \/ Replies(d, e, r)
<1> DEFINE t == NextState(r.name, d.state, r.len)
           a == Answered(r.name, d.state)
           f == [d EXCEPT !.state = t]
           e == DfuControl(d, r)
<1>0. r.len \in Nat /\ d.state \in States
  BY RequestFacts DEF Devices
<1>1. Moves(r.name, r.len, d.state, t, a)
  BY <1>0, NextStateFacts
<1>2. e = IF ~a THEN Stalled([f EXCEPT !.error = "StalledPkt"])
          ELSE CASE r.name \in {"DnLoad", "UpLoad"} -> DataXfer(f, r)
                 [] r.name = "GetStatus" -> InTransfer(f, <<f.error, f.state>>, 1, FALSE, FALSE)
                 [] r.name = "GetState" -> InTransfer(f, <<f.state>>, 1, FALSE, FALSE)
                 [] r.name = "ClrStatus" -> Acknowledge([f EXCEPT !.error = "Ok"])
                 [] r.name = "Abort" -> Acknowledge(f)
  BY DEF DfuControl
<1> HIDE DEF t, a, e
<1>3. f \in Devices /\ f.state = t /\ f.error = d.error /\ SameDriver(d, f) /\ Kept(d, f)
      /\ f.stall = d.stall
  BY <1>1 DEF Devices, Moves, SameDriver, Kept
<1> HIDE DEF f
<1>4. CASE ~a
  <2> DEFINE g == [f EXCEPT !.error = "StalledPkt"]
  <2>1. e = Stalled(g)
    BY <1>2, <1>4
  <2>2. g \in Devices /\ g.state = t /\ SameDriver(f, g) /\ Kept(f, g)
    BY <1>3 DEF Devices, Errors, SameDriver, Kept
  <2> HIDE DEF g
  <2>3. e \in Devices /\ e.stall /\ SameDriver(g, e) /\ SameDfu(g, e)
    BY <2>1, <2>2, StalledFacts
  <2>4. Refuses(d, e, r)
    BY <1>1, <1>3, <1>4, <2>2, <2>3 DEF Moves, Refuses, SameDriver, SameDfu, Kept
  <2> QED
    BY <2>4 DEF e
<1>5. CASE a /\ r.name \in {"DnLoad", "UpLoad"}
  <2>1. e = DataXfer(f, r)
    BY <1>2, <1>5
  <2>2. CASE r.len > TransferSize \/ r.name \notin f.allow
    <3> DEFINE g == [f EXCEPT !.state = "Error", !.error = "Unknown"]
    <3>1. e = Stalled(g)
      BY <2>1, <2>2 DEF DataXfer
    <3>2. g \in Devices /\ g.state = "Error" /\ SameDriver(f, g) /\ Kept(f, g)
      BY <1>3 DEF Devices, Errors, States, SameDriver, Kept
    <3> HIDE DEF g
    <3>3. e \in Devices /\ e.stall /\ SameDriver(g, e) /\ SameDfu(g, e)
      BY <3>1, <3>2, StalledFacts
    <3>4. Refuses(d, e, r)
      BY <1>3, <1>5, <3>2, <3>3 DEF Refuses, SameDriver, SameDfu, Kept
    <3> QED
      BY <3>4 DEF e
  <2>3. CASE ~(r.len > TransferSize \/ r.name \notin f.allow) /\ r.name = "DnLoad" /\ r.len = 0
    <3>1. e = Acknowledge(f)
      BY <2>1, <2>3 DEF DataXfer
    <3>2. /\ Transmits(f, e, NoData, 0, FALSE, FALSE)
          /\ e.reg.size = 0 /\ e.in.len = 0 /\ ~e.in.short /\ ~e.in.zlp
      BY <1>3, <3>1, AcknowledgeFacts
    <3>3. Accepts(d, e, r)
      BY <1>1, <1>3, <1>5, <2>3, <3>2
         DEF Moves, Accepts, Acks, Transmits, Reads, Downloads, SameDriver, SameDfu, SameFlags, Kept
    <3> QED
      BY <3>3 DEF e
  <2>4. CASE ~(r.len > TransferSize \/ r.name \notin f.allow) /\ r.name = "DnLoad" /\ r.len # 0
    <3> DEFINE no == FALSE
    <3>1. e = OutTransfer(f, r.len, no) /\ no \in BOOLEAN /\ ~no
      BY <2>1, <2>4 DEF DataXfer
    <3> HIDE DEF no
    <3>2. r.len \in 0 .. TransferSize
      BY <1>0, <2>4, SizesAssumption
    <3>3. Awaits(f, e, r.len, no)
      BY <1>3, <3>1, <3>2, OutTransferFacts
    <3>4. Expects(d, e, r)
      BY <1>0, <1>1, <1>3, <1>5, <2>4, <3>1, <3>2, <3>3
         DEF Moves, Expects, Awaits, Downloads, SameDriver, SameDfu, SameFlags, Kept
    <3> QED
      BY <3>4 DEF e
  <2>5. CASE ~(r.len > TransferSize \/ r.name \notin f.allow) /\ r.name = "UpLoad"
    <3> DEFINE no == FALSE
               len == Least(f.staged, r.len)
               short == len < r.len /\ len % MaxPacket = 0
    <3>1. e = InTransfer(f, f.data, len, short, no) /\ no \in BOOLEAN /\ short \in BOOLEAN
      BY <2>1, <2>5 DEF DataXfer
    <3>2. len \in 0 .. TransferSize /\ f.data \in Data
      BY <1>0, <1>3, <2>5, SizesAssumption DEF Devices, Least
    <3> HIDE DEF no, len, short
    <3>3. Transmits(f, e, f.data, len, short, no)
      BY <1>3, <3>1, <3>2, InTransferFacts
    <3>4. /\ Transmits(f, e, d.data, Least(d.staged, r.len),
                       Least(d.staged, r.len) < r.len /\ Least(d.staged, r.len) % MaxPacket = 0, FALSE)
      BY <1>3, <3>3 DEF no, len, short, Kept
    <3>5. r.len > 0 /\ Reads(r) /\ r.len <= TransferSize /\ "UpLoad" \in d.allow
      BY <1>0, <1>3, <2>5, RequestFacts, SizesAssumption DEF Reads, Kept
    <3>6. Kept(d, e) /\ e \in Devices /\ e.state = "UpLoadIdle"
      BY <1>1, <1>3, <1>5, <2>5, <3>3, <3>5 DEF Moves, Transmits, SameDfu, Kept
    <3>7. f.pool = d.pool /\ f.out = d.out /\ SameFlags(d, f)
      BY <1>3 DEF SameDriver, SameFlags
    <3>8. Replies(d, e, r)
      BY <1>3, <2>5, <3>4, <3>5, <3>6, <3>7 DEF Replies
    <3> QED
      BY <3>8 DEF e
  <2> QED
    BY <1>5, <2>2, <2>3, <2>4, <2>5
<1>6. CASE a /\ r.name \in {"GetStatus", "GetState"}
  <2> DEFINE no == FALSE
             data == IF r.name = "GetStatus" THEN <<f.error, f.state>> ELSE <<f.state>>
  <2>1. e = InTransfer(f, data, 1, no, no) /\ no \in BOOLEAN
    BY <1>2, <1>6
  <2>2. 1 \in 0 .. TransferSize
    BY SizesAssumption
  <2>3. data \in Data
    BY <1>3, DataFacts DEF Devices
  <2>4. f.pool = d.pool /\ f.out = d.out /\ SameFlags(d, f)
    BY <1>3 DEF SameDriver, SameFlags
  <2> HIDE DEF no, data
  <2>5. Transmits(f, e, data, 1, no, no)
    BY <1>3, <2>1, <2>2, <2>3, InTransferFacts
  <2>6. /\ Reads(r) /\ Kept(d, e) /\ e \in Devices /\ e.state = t /\ e.error = d.error
        /\ f.state = e.state /\ f.error = e.error
    BY <1>3, <1>6, <2>5 DEF Transmits, SameDfu, Kept, Reads
  <2>7. Transmits(f, e, data, 1, FALSE, FALSE)
    BY <2>5 DEF no
  <2>8. Replies(d, e, r)
    <3>1. CASE r.name = "GetStatus"
      <4>1. data = <<e.error, e.state>>
        BY <2>6, <3>1 DEF data
      <4> QED
        BY <1>1, <1>3, <2>4, <2>6, <2>7, <3>1, <4>1 DEF Moves, Replies
    <3>2. CASE r.name = "GetState"
      <4>1. data = <<e.state>>
        BY <2>6, <3>2 DEF data
      <4> QED
        BY <1>1, <1>3, <2>4, <2>6, <2>7, <3>2, <4>1 DEF Moves, Replies
    <3> QED
      BY <1>6, <3>1, <3>2
  <2> QED
    BY <2>8 DEF e
<1>7. CASE a /\ r.name \in {"ClrStatus", "Abort"}
  <2> DEFINE g == IF r.name = "ClrStatus" THEN [f EXCEPT !.error = "Ok"] ELSE f
  <2>1. e = Acknowledge(g)
    BY <1>2, <1>7
  <2>2. g \in Devices /\ g.state = f.state /\ SameDriver(f, g) /\ Kept(f, g) /\ g.stall = f.stall
    <3>1. CASE r.name = "ClrStatus"
      <4>1. g = [f EXCEPT !.error = "Ok"]
        BY <3>1
      <4> HIDE DEF g
      <4> QED
        BY <1>3, <4>1 DEF Devices, Errors, SameDriver, Kept
    <3>2. CASE r.name # "ClrStatus"
      <4>1. g = f
        BY <3>2
      <4> HIDE DEF g
      <4> QED
        BY <1>3, <4>1 DEF SameDriver, Kept
    <3> QED
      BY <3>1, <3>2
  <2> HIDE DEF g
  <2>3. /\ Transmits(g, e, NoData, 0, FALSE, FALSE)
        /\ e.reg.size = 0 /\ e.in.len = 0 /\ ~e.in.short /\ ~e.in.zlp
    BY <2>1, <2>2, AcknowledgeFacts
  <2>4. Accepts(d, e, r)
    BY <1>1, <1>3, <1>7, <2>2, <2>3
       DEF Moves, Accepts, Acks, Transmits, Reads, Downloads, SameDriver, SameDfu, SameFlags, Kept
  <2> QED
    BY <2>4 DEF e
<1> QED
  BY <1>4, <1>5, <1>6, <1>7

LEMMA ModeAccepted ==
  ASSUME NEW d \in Devices, NEW r \in Requests, r.name = "SetInterface",
         r.setting \in DOMAIN Settings, Allows(Settings[r.setting]) # {}
  PROVE  LET e == HandleSetup(d, r)
             s == Settings[r.setting]
         IN  /\ Acks(d, e) /\ ~Reads(r) /\ ~Downloads(r)
             /\ e.state = d.state /\ e.error = d.error /\ e.allow = Allows(s)
             /\ Allowed(s.up) => e.staged = s.len /\ e.data = <<s.up>>
<1> DEFINE e == HandleSetup(d, r)
           s == Settings[r.setting]
           f == SetMode(d, s)
<1>1. e = Acknowledge(f)
  BY DEF HandleSetup, SetInterface
<1>2. Configured(d, f, s) /\ Allows(s) # {}
  BY SetModeFacts
<1> HIDE DEF e, f, s
<1>3. /\ Transmits(f, e, NoData, 0, FALSE, FALSE)
      /\ e.reg.size = 0 /\ e.in.len = 0 /\ ~e.in.short /\ ~e.in.zlp
  BY <1>1, <1>2, AcknowledgeFacts DEF Configured
<1>4. /\ Acks(d, e) /\ ~Reads(r) /\ ~Downloads(r)
      /\ e.state = d.state /\ e.error = d.error /\ e.allow = Allows(s)
      /\ Allowed(s.up) => e.staged = s.len /\ e.data = <<s.up>>
  BY <1>2, <1>3 DEF Acks, Configured, Transmits, Reads, Downloads, SameDriver, SameDfu, SameFlags
<1> QED
  BY <1>4 DEF e, s

LEMMA HandleSetupFacts ==
  ASSUME NEW d \in Devices, NEW r \in Requests
  PROVE  LET e == HandleSetup(d, r)
         IN  Refuses(d, e, r) \/ Accepts(d, e, r) \/ Expects(d, e, r) \/ Replies(d, e, r)
<1> DEFINE e == HandleSetup(d, r)
<1>0. r.name \in Names
  BY RequestFacts
<1>1. CASE r.name = "SetInterface"
  <2>1. e = SetInterface(d, r)
    BY <1>1 DEF HandleSetup
  <2> HIDE DEF e
  <2>2. CASE r.setting \in DOMAIN Settings /\ Allows(Settings[r.setting]) # {}
    <3> DEFINE s == Settings[r.setting]
    <3>1. /\ Acks(d, e) /\ ~Reads(r) /\ ~Downloads(r)
          /\ e.state = d.state /\ e.error = d.error /\ e.allow = Allows(s)
          /\ Allowed(s.up) => e.staged = s.len /\ e.data = <<s.up>>
      BY <1>1, <2>2, ModeAccepted DEF e
    <3>2. Accepts(d, e, r)
      BY <1>1, <2>2, <3>1 DEF Accepts, s
    <3> QED
      BY <3>2 DEF e
  <2>3. CASE ~(r.setting \in DOMAIN Settings /\ Allows(Settings[r.setting]) # {})
    <3>1. e = Stalled(d)
      BY <2>1, <2>3 DEF SetInterface
    <3>2. e \in Devices /\ e.stall /\ SameDriver(d, e) /\ SameDfu(d, e)
      BY <3>1, StalledFacts
    <3>3. Refuses(d, e, r)
      BY <1>1, <3>2 DEF Refuses, SameDfu, Kept
    <3> QED
      BY <3>3 DEF e
  <2> QED
    BY <2>2, <2>3
<1>2. CASE r.name = "SetConfiguration"
  <2> DEFINE g == [d EXCEPT !.state = "Idle", !.error = "Ok"]
             f == SetMode(g, Settings[1])
  <2>1. e = Acknowledge(f)
    BY <1>2 DEF HandleSetup, SetConfiguration
  <2>2. g \in Devices /\ g.state = "Idle" /\ SameDriver(d, g) /\ g.stall = d.stall
    BY DEF Devices, States, Errors, SameDriver
  <2> HIDE DEF g, e
  <2>3. 1 \in DOMAIN Settings
    BY SettingsFacts
  <2>4. Configured(g, f, Settings[1])
    BY <2>2, <2>3, SetModeFacts
  <2> HIDE DEF f
  <2>5. /\ Transmits(f, e, NoData, 0, FALSE, FALSE)
        /\ e.reg.size = 0 /\ e.in.len = 0 /\ ~e.in.short /\ ~e.in.zlp
    BY <2>1, <2>4, AcknowledgeFacts DEF Configured
  <2>6. Accepts(d, e, r)
    BY <1>2, <2>2, <2>4, <2>5
       DEF Accepts, Acks, Configured, Transmits, Reads, Downloads, SameDriver, SameDfu, SameFlags
  <2> QED
    BY <2>6 DEF e
<1>3. CASE r.name = "GetDescriptor"
  <2> DEFINE no == FALSE
             data == <<"descriptor">>
  <2>1. e = InTransfer(d, data, 1, no, no) /\ no \in BOOLEAN /\ data \in Data
    BY <1>3, DataFacts DEF HandleSetup
  <2>2. 1 \in 0 .. TransferSize
    BY SizesAssumption
  <2> HIDE DEF no, data, e
  <2>3. Transmits(d, e, data, 1, no, no)
    BY <2>1, <2>2, InTransferFacts
  <2>4. Transmits(d, e, <<"descriptor">>, 1, FALSE, FALSE)
    BY <2>3 DEF no, data
  <2>5. /\ Reads(r) /\ Kept(d, e) /\ e \in Devices /\ e.state = d.state /\ e.error = d.error
        /\ SameFlags(d, d)
    BY <1>3, <2>3 DEF Transmits, SameDfu, SameFlags, Kept, Reads
  <2>6. Replies(d, e, r)
    BY <1>3, <2>4, <2>5 DEF Replies
  <2> QED
    BY <2>6 DEF e
<1>4. CASE r.name \in {"DnLoad", "UpLoad", "GetStatus", "GetState", "ClrStatus", "Abort"}
  <2>1. e = DfuControl(d, r)
    BY <1>4 DEF HandleSetup
  <2> QED
    BY <1>4, <2>1, DfuControlFacts
<1> QED
  BY <1>0, <1>1, <1>2, <1>3, <1>4 DEF Names

-----------------------------------------------------------------------------
(* The fields of a device, and what a host that keeps its rules leaves out. *)
Polite == HostAbandons = FALSE /\ HostChecks = TRUE

LEMMA DeviceFields ==
  ASSUME NEW d \in Devices
  PROVE  /\ d.state \in States /\ d.error \in Errors /\ d.allow \in SUBSET {"UpLoad", "DnLoad"}
         /\ d.staged \in 0 .. TransferSize /\ d.data \in Data /\ d.pool \in Int
         /\ d.in \in Transfers /\ d.out \in Transfers /\ d.reg \in Registers
         /\ d.pend \in BOOLEAN /\ d.sent \in BOOLEAN /\ d.stall \in BOOLEAN
         /\ d.in.len \in 0 .. TransferSize /\ d.in.done \in Nat /\ d.in.data \in Data
         /\ d.in.zlp \in BOOLEAN /\ d.in.ack \in BOOLEAN /\ d.in.short \in BOOLEAN
         /\ d.out.len \in 0 .. TransferSize /\ d.out.done \in Nat
         /\ d.out.zlp \in BOOLEAN /\ d.out.ack \in BOOLEAN
         /\ d.reg.rdy \in BOOLEAN /\ d.reg.size \in 0 .. TransferSize /\ d.reg.data \in Data
BY DEF Devices, Transfers, Registers

LEMMA HostFields ==
  ASSUME TypeOK
  PROVE  /\ host.phase \in Phases /\ host.req \in Requests \cup {NoRequest} /\ host.moved \in Nat
         /\ host.data \in Data /\ host.asked \in Int /\ host.expects \in Int /\ host.block \in Data
         /\ host.req.len \in Nat
         /\ handed.data \in Data /\ handed.ok \in BOOLEAN
         /\ blocks \in 0 .. MaxBlocks /\ Block \in Data
         /\ rx \in Seq(Packets) /\ dev \in Devices
<1>1. host.req.len \in Nat
  BY RequestFacts DEF TypeOK, Hosts, NoRequest
<1>2. Block \in Data
  BY DataFacts DEF TypeOK, Block
<1> QED
  BY <1>1, <1>2 DEF TypeOK, Hosts

LEMMA PutFacts ==
  ASSUME NEW d \in Devices
  PROVE  LET e == Put(d)
         IN  /\ e \in Devices /\ e.pool = d.pool + 1 /\ e.in = d.in /\ e.out = d.out /\ e.reg = d.reg
             /\ SameDfu(d, e) /\ SameFlags(d, e)
<1> DEFINE p == d.pool + 1
           e == [d EXCEPT !.pool = p]
<1>1. Put(d) = e
  BY DEF Put
<1>2. p \in Int
  BY DeviceFields
<1>3. p = d.pool + 1
  OBVIOUS
<1> HIDE DEF p
<1>4. /\ e \in Devices /\ e.pool = p /\ e.in = d.in /\ e.out = d.out /\ e.reg = d.reg
      /\ SameDfu(d, e) /\ SameFlags(d, e)
  BY <1>2 DEF Devices, SameDfu, SameFlags
<1> HIDE DEF e
<1> QED
  BY <1>1, <1>3, <1>4

(* handle_in starts by freeing the packet that was sent.                   *)
Freed(e) ==
  /\ e \in Devices /\ e.pool = dev.pool + 1 /\ ~e.sent /\ ~e.pend /\ ~e.reg.rdy
  /\ e.in.len = dev.in.len /\ e.in.done = dev.in.done + dev.reg.size /\ e.in.zlp = dev.in.zlp
  /\ e.in.ack = dev.in.ack /\ e.in.short = dev.in.short /\ e.in.data = dev.in.data
  /\ e.out = dev.out /\ SameDfu(dev, e) /\ e.stall = dev.stall

MoreSent ==
  /\ dev' \in Devices /\ dev'.pool = dev.pool /\ ~dev'.sent /\ ~dev'.pend
  /\ dev'.reg.rdy /\ dev'.reg.size = Least(MaxPacket, dev.in.len) /\ dev'.reg.data = dev.in.data
  /\ dev'.in.len = dev.in.len - Least(MaxPacket, dev.in.len)
  /\ dev'.in.short <=> dev.in.short /\ Least(MaxPacket, dev.in.len) = MaxPacket
  /\ dev'.in.zlp = dev.in.zlp /\ dev'.in.done = dev.in.done + dev.reg.size
  /\ dev'.in.len > 0 => dev'.in.data = dev.in.data
  /\ dev'.out = dev.out /\ SameDfu(dev, dev') /\ dev'.stall = dev.stall
  /\ handed' = handed
Turned ==
  /\ dev' \in Devices /\ dev'.pool = dev.pool + 1 /\ ~dev'.sent /\ ~dev'.pend /\ ~dev'.reg.rdy
  /\ dev'.in.len = dev.in.len /\ dev'.in.done = dev.in.done + dev.reg.size
  /\ dev'.in.short = dev.in.short
  /\ dev'.out.len = 0 /\ ~dev'.out.zlp /\ dev'.out.ack
  /\ SameDfu(dev, dev') /\ dev'.stall = dev.stall
  /\ handed' = handed
Handing(ok) == handed' = IF dev.state = "DnLoadSync" THEN [data |-> dev.data, ok |-> ok] ELSE handed
AckDone ==
  /\ dev' \in Devices /\ dev'.pool = dev.pool + 1 /\ ~dev'.sent /\ ~dev'.pend /\ ~dev'.reg.rdy
  /\ dev'.in.len = dev.in.len /\ dev'.out = dev.out /\ dev'.stall = dev.stall
  /\ dev'.allow = dev.allow /\ dev'.data = dev.data
  /\ dev.state # "UpLoadIdle" => dev'.staged = dev.staged
  /\ dev.state \notin {"DnLoadSync", "UpLoadIdle"} => dev'.state = dev.state /\ dev'.error = dev.error
  /\ dev.state = "UpLoadIdle" => dev'.state \in {"Idle", "UpLoadIdle"}
  /\ \E ok \in BOOLEAN :
       /\ dev.state = "DnLoadSync" =>
            dev'.state = "DnLoadIdle" /\ dev'.error = (IF ok THEN "Ok" ELSE "Vendor")
       /\ Handing(ok)

LEMMA HandleInEffect ==
  ASSUME TypeOK, Stages, HandleIn
  PROVE  /\ dev.sent /\ UNCHANGED <<rx, running, host, blocks, answer>>
         /\ (SentMore /\ MoreSent) \/ (SentLast /\ Turned) \/ (AckSent /\ AckDone)
<1> DEFINE no == FALSE
           sz == dev.in.done + dev.reg.size
           p == dev.pool + 1
           i == [dev.in EXCEPT !.done = sz]
           d == [Put(dev) EXCEPT !.sent = FALSE, !.pend = FALSE, !.reg = EmptyReg]
           e == [d EXCEPT !.in.done = @ + dev.reg.size]
           e0 == IF dev.pend THEN d ELSE e
           g == EmptyReg
           f == [dev EXCEPT !.pool = p, !.sent = no, !.pend = no, !.reg = g, !.in = i]
           more == dev.in.len > 0 \/ dev.in.short
           len0 == IF dev.in.ack THEN dev.out.done ELSE e0.in.done
           len == IF dev.in.ack THEN dev.out.done ELSE e.in.done
<1>0. dev \in Devices /\ ~dev.pend
  BY DEF TypeOK, Stages
<1>1. /\ dev.sent /\ UNCHANGED <<rx, running, host, blocks, answer>>
      /\ more => dev' = SendPacket(e0) /\ handed' = handed
      /\ ~more /\ dev.in.zlp => dev' = OutTransfer(e0, 0, TRUE) /\ handed' = handed
      /\ ~more /\ ~dev.in.zlp =>
           \E ok \in BOOLEAN :
             dev' = Done([e0 EXCEPT !.in.ack = FALSE], len0, dev.pend, ok) /\ Hands(dev, ok)
  <2>1. /\ dev.sent /\ UNCHANGED <<rx, running, host, blocks, answer>>
        /\ CASE ~dev.pend /\ more -> dev' = SendPacket(e0) /\ UNCHANGED handed
             [] ~dev.pend /\ ~more /\ dev.in.zlp -> dev' = OutTransfer(e0, 0, TRUE) /\ UNCHANGED handed
             [] OTHER -> \E ok \in BOOLEAN :
                           /\ dev' = Done([e0 EXCEPT !.in.ack = FALSE], len0, dev.pend, ok)
                           /\ Hands(dev, ok)
    BY DEF HandleIn, Poll
  <2> HIDE DEF e0, len0, more
  <2>2. CASE more
    BY <1>0, <2>1, <2>2
  <2>3. CASE ~more /\ dev.in.zlp
    BY <1>0, <2>1, <2>3
  <2>4. CASE ~more /\ ~dev.in.zlp
    BY <1>0, <2>1, <2>4
  <2> QED
    BY <2>1, <2>2, <2>3, <2>4
<1>2. e0 = e
  BY <1>0
<1>3. /\ e = f /\ sz \in Nat /\ p \in Int
  <2>1. dev.in.done \in Nat /\ dev.reg.size \in Nat /\ dev.pool \in Int
    BY <1>0, DeviceFields
  <2>2. e = f
    BY <1>0 DEF Put, Devices, Transfers
  <2> QED
    BY <2>1, <2>2
<1>4. /\ i \in Transfers /\ i.done = sz /\ i.len = dev.in.len /\ i.zlp = dev.in.zlp
      /\ i.ack = dev.in.ack /\ i.short = dev.in.short /\ i.data = dev.in.data
  <2> HIDE DEF sz
  <2> QED
    BY <1>0, <1>3, DeviceFields DEF Transfers
<1>5. g \in Registers /\ ~g.rdy /\ no \in BOOLEAN /\ ~no
  BY DataFacts, SizesAssumption DEF Registers, EmptyReg
<1>6. sz = dev.in.done + dev.reg.size /\ p = dev.pool + 1
  OBVIOUS
<1> HIDE DEF e, e0
<1>7. len0 = len
  BY <1>2
<1> HIDE DEF i, g, p, no, sz, len0, len
<1>8. Freed(f) /\ f.in = i
  <2>1. /\ f \in Devices /\ f.pool = p /\ f.sent = no /\ f.pend = no /\ f.reg = g /\ f.in = i
        /\ f.out = dev.out /\ SameDfu(dev, f) /\ f.stall = dev.stall
    BY <1>0, <1>3, <1>4, <1>5 DEF Devices, SameDfu
  <2> HIDE DEF f
  <2> QED
    BY <1>4, <1>5, <1>6, <2>1 DEF Freed
<1> HIDE DEF f
<1>9. CASE more
  <2>1. SentMore
    BY <1>0, <1>1, <1>9 DEF Stages, Settled, Sending, SentLast, AwaitsZero, Receiving, AckReady,
                            AckSent, StatusStage, AckStage, Drained, more
  <2>2. dev' = SendPacket(f)
    BY <1>1, <1>2, <1>3, <1>9
  <2>3. f \in Devices
    BY <1>8 DEF Freed
  <2>4. Sends(f, dev')
    BY <2>2, <2>3, SendPacketFacts
  <2>5. dev.pool = f.pool - 1
    BY <1>0, <1>8, DeviceFields DEF Freed
  <2>6. MoreSent
    BY <1>1, <1>8, <1>9, <2>4, <2>5 DEF MoreSent, Sends, Freed, SameDfu
  <2> QED
    BY <1>1, <2>1, <2>6
<1>10. CASE ~more /\ dev.in.zlp
  <2>1. SentLast
    BY <1>0, <1>1, <1>10, DeviceFields
       DEF Stages, Settled, Sending, SentMore, AwaitsZero, Receiving, AckReady, AckSent,
           DataStage, AckStage, Drained, more
  <2>2. dev' = OutTransfer(f, 0, TRUE) /\ f \in Devices
    BY <1>1, <1>2, <1>3, <1>8, <1>10 DEF Freed
  <2>3. 0 \in 0 .. TransferSize
    BY SizesAssumption
  <2> DEFINE yes == TRUE
  <2>4. dev' = OutTransfer(f, 0, yes)
    BY <2>2
  <2>10. yes /\ yes \in BOOLEAN
    OBVIOUS
  <2> HIDE DEF yes
  <2>5. Awaits(f, dev', 0, yes)
    BY <2>2, <2>3, <2>4, <2>10, OutTransferFacts
  <2>6. dev'.out.len = 0 /\ ~dev'.out.zlp /\ dev'.out.ack
    BY <2>5, <2>10 DEF Awaits
  <2>7. /\ dev'.pool = f.pool /\ dev'.in = f.in /\ dev'.reg = f.reg /\ dev' \in Devices
        /\ SameDfu(f, dev') /\ SameFlags(f, dev')
    BY <2>5 DEF Awaits
  <2>8. handed' = handed
    BY <1>1, <1>10
  <2>9. Turned
    BY <1>8, <2>6, <2>7, <2>8 DEF Turned, Freed, SameDfu, SameFlags
  <2> QED
    BY <1>1, <2>1, <2>9
<1>11. CASE ~more /\ ~dev.in.zlp
  <2>1. AckSent
    BY <1>0, <1>1, <1>11, DeviceFields
       DEF Stages, Settled, Sending, SentMore, SentLast, AwaitsZero, Receiving, AckReady,
           DataStage, Drained, more
  <2> DEFINE j == [i EXCEPT !.ack = FALSE]
             h == [f EXCEPT !.in = j]
  <2>2. PICK ok \in BOOLEAN : dev' = Done([e0 EXCEPT !.in.ack = FALSE], len0, dev.pend, ok) /\ Hands(dev, ok)
    BY <1>1, <1>11
  <2>3. [f EXCEPT !.in.ack = FALSE] = h
    BY <1>8 DEF Freed, Devices
  <2>4. dev' = Done(h, len, dev.pend, ok)
    BY <1>2, <1>3, <1>7, <2>2, <2>3
  <2>5. j \in Transfers /\ j.len = i.len
    BY <1>4 DEF Transfers
  <2> HIDE DEF j
  <2>6. /\ h \in Devices /\ h.in = j /\ h.pool = f.pool /\ h.out = f.out /\ h.reg = f.reg
        /\ SameDfu(f, h) /\ SameFlags(f, h)
    BY <1>8, <2>5 DEF Devices, Freed, SameDfu, SameFlags
  <2> HIDE DEF h
  <2>7. len \in Nat
    BY <1>0, <1>3, <1>4, <1>8, DeviceFields DEF len, Freed
  <2>8. dev.pend \in BOOLEAN /\ ~dev.pend
    BY <1>0, DeviceFields
  <2>9. Ended(h, dev', len, dev.pend, ok)
    BY <2>4, <2>6, <2>7, <2>8, DoneFacts
  <2>10. Handing(ok)
    BY <2>2 DEF Hands, Handing
  <2>11. AckDone
    BY <1>4, <1>8, <2>5, <2>6, <2>8, <2>9, <2>10
       DEF AckDone, Ended, Freed, SameDriver, SameDfu, SameFlags
  <2> QED
    BY <1>1, <2>1, <2>11
<1> QED
  BY <1>9, <1>10, <1>11

(* The first packet of the FIFO, and the others.                           *)
LEMMA TailFacts ==
  ASSUME NEW S, NEW s \in Seq(S), s # <<>>
  PROVE  /\ Len(s) \in Nat /\ Len(s) > 0 /\ Head(s) = s[1] /\ s[1] \in S
         /\ Tail(s) \in Seq(S) /\ Len(Tail(s)) = Len(s) - 1
         /\ \A i \in 1 .. Len(Tail(s)) : Tail(s)[i] = s[i + 1]
         /\ DOMAIN s = 1 .. Len(s) /\ DOMAIN Tail(s) = 1 .. (Len(s) - 1)
OBVIOUS

LEMMA AppendFacts ==
  ASSUME NEW S, NEW s \in Seq(S), NEW x \in S
  PROVE  LET t == Append(s, x)
         IN  /\ t \in Seq(S) /\ Len(s) \in Nat /\ Len(t) = Len(s) + 1 /\ t # <<>>
             /\ t[Len(s) + 1] = x
             /\ \A i \in 1 .. Len(s) : t[i] = s[i]
             /\ DOMAIN s = 1 .. Len(s) /\ DOMAIN t = 1 .. (Len(s) + 1)
OBVIOUS

(* A setting whose data cannot be read is accepted all the same.           *)
LEMMA ModeUnread ==
  ASSUME NEW d \in Devices, NEW r \in Requests, NEW n \in 0 .. TransferSize,
         r.name = "SetInterface", r.setting \in DOMAIN Settings,
         Allowed(Settings[r.setting].up)
  PROVE  Accepts(d, [HandleSetup(d, r) EXCEPT !.data = Unread, !.staged = n], r)
<1> DEFINE e == HandleSetup(d, r)
           s == Settings[r.setting]
           f == [e EXCEPT !.data = Unread, !.staged = n]
<1>1. Allows(s) # {}
  BY DEF Allows
<1>2. /\ Acks(d, e) /\ ~Reads(r) /\ ~Downloads(r)
      /\ e.state = d.state /\ e.error = d.error /\ e.allow = Allows(s)
  BY <1>1, ModeAccepted
<1>3. e \in Devices /\ Unread \in Data
  BY <1>2, DataFacts DEF Acks
<1> HIDE DEF e, s
<1>4. /\ f \in Devices /\ f.data = Unread /\ f.pool = e.pool /\ f.out = e.out /\ SameFlags(e, f)
      /\ f.reg = e.reg /\ f.in = e.in /\ f.state = e.state /\ f.error = e.error
      /\ f.allow = e.allow
  BY <1>3 DEF Devices, SameFlags
<1> HIDE DEF f
<1>5. Acks(d, f) /\ f.state = d.state /\ f.error = d.error /\ f.allow = Allows(s)
  BY <1>2, <1>4 DEF Acks, SameFlags
<1>6. Accepts(d, f, r)
  BY <1>2, <1>4, <1>5 DEF Accepts, s
<1> QED
  BY <1>6 DEF f, e

Handles == HandleSetupPacket \/ StagingFails

(* A SETUP packet is handled in a settled device, and is the host's.       *)
LEMMA HandleSetupEffect ==
  ASSUME TypeOK, Stages, Handles
  PROVE  /\ ~dev.sent /\ ~dev.stall /\ ~dev.reg.rdy /\ Settled
         /\ rx # <<>> /\ rx[1].setup /\ rx' = Tail(rx) /\ host.req \in Requests
         /\ UNCHANGED <<running, host, blocks, answer, handed>>
         /\ Put(dev) \in Devices
         /\ host.req.name = "UpLoad" /\ ~misread' => dev.data # Unread
         /\ \/ Refuses(Put(dev), dev', host.req) \/ Accepts(Put(dev), dev', host.req)
            \/ Expects(Put(dev), dev', host.req) \/ Replies(Put(dev), dev', host.req)
<1>1. /\ ~dev.sent /\ rx # <<>> /\ Head(rx).setup /\ rx' = Tail(rx)
      /\ UNCHANGED <<running, host, blocks, answer, handed>>
  BY DEF Handles, HandleSetupPacket, StagingFails, Poll
<1>2. Head(rx) = rx[1] /\ 1 \in DOMAIN rx /\ Len(rx) > 0
  BY <1>1, TailFacts DEF TypeOK
<1>3. rx[1].req = host.req /\ host.req \in Requests /\ ~dev.stall /\ ~dev.reg.rdy
  BY <1>1, <1>2 DEF Stages, SetupWaits
<1>4. Settled
  <2>1. ~Sending /\ ~AckReady
    BY <1>3 DEF Sending, AckReady
  <2>2. ~SentMore /\ ~SentLast /\ ~AckSent
    BY <1>1 DEF SentMore, SentLast, AckSent
  <2>3. ~AwaitsZero
    BY <1>1, <1>2 DEF AwaitsZero, StatusStage, ZeroBefore
  <2>4. ~Receiving
    BY <1>1, <1>2 DEF Receiving, Stream, TypeOK
  <2> QED
    BY <2>1, <2>2, <2>3, <2>4 DEF Stages
<1>5. Put(dev) \in Devices
  BY PutFacts DEF TypeOK
<1>6. CASE HandleSetupPacket
  <2>1. dev' = HandleSetup(Put(dev), host.req)
    BY <1>2, <1>3, <1>6 DEF HandleSetupPacket
  <2>2. host.req.name = "UpLoad" /\ ~misread' => dev.data # Unread
    BY <1>2, <1>3, <1>6 DEF HandleSetupPacket
  <2>3. \/ Refuses(Put(dev), dev', host.req) \/ Accepts(Put(dev), dev', host.req)
        \/ Expects(Put(dev), dev', host.req) \/ Replies(Put(dev), dev', host.req)
    BY <1>3, <1>5, <2>1, HandleSetupFacts
  <2> QED
    BY <1>1, <1>2, <1>3, <1>4, <1>5, <2>2, <2>3
<1>7. CASE StagingFails
  <2>1. /\ host.req.name = "SetInterface" /\ host.req.setting \in DOMAIN Settings
        /\ Allowed(Settings[host.req.setting].up)
        /\ dev' = [HandleSetup(Put(dev), host.req) EXCEPT !.data = Unread, !.staged = dev.staged]
    BY <1>2, <1>3, <1>7 DEF StagingFails
  <2>2. dev.staged \in 0 .. TransferSize
    BY DeviceFields DEF TypeOK
  <2>3. Accepts(Put(dev), dev', host.req)
    BY <1>3, <1>5, <2>1, <2>2, ModeUnread
  <2> QED
    BY <1>1, <1>2, <1>3, <1>4, <1>5, <2>1, <2>3
<1> QED
  BY <1>6, <1>7 DEF Handles

(* A data packet: one that comes after a failure, the empty packet after   *)
(* what was sent, or a packet of a download.                               *)
Drops ==
  /\ dev' \in Devices /\ dev'.pool = dev.pool + 1 /\ ~dev'.sent /\ ~dev'.pend
  /\ dev'.in = dev.in /\ dev'.reg = dev.reg /\ dev'.out.len = 0 /\ dev'.stall = dev.stall
  /\ dev'.allow = dev.allow /\ dev'.data = dev.data /\ dev'.staged = dev.staged
  /\ dev'.state = "Error"
Completes ==
  /\ dev' \in Devices /\ dev'.pool = dev.pool + 1 /\ ~dev'.sent /\ ~dev'.pend
  /\ dev'.in = dev.in /\ dev'.reg = dev.reg /\ dev'.out.len = 0 /\ dev'.stall = dev.stall
  /\ dev'.allow = dev.allow /\ dev'.data = dev.data
  /\ dev.state = "UpLoadIdle" =>
       dev'.state = IF dev.in.done < TransferSize THEN "Idle" ELSE "UpLoadIdle"
  /\ dev.state # "UpLoadIdle" =>
       dev'.state = dev.state /\ dev'.error = dev.error /\ dev'.staged = dev.staged
TakesMore ==
  /\ dev.out.len > MaxPacket /\ rx[1].size = MaxPacket
  /\ dev' \in Devices /\ dev'.pool = dev.pool + 1 /\ ~dev'.sent /\ ~dev'.pend
  /\ dev'.in = dev.in /\ dev'.reg = dev.reg
  /\ dev'.out.len = dev.out.len - MaxPacket /\ dev'.out.zlp = dev.out.zlp
  /\ dev'.stall = dev.stall /\ dev'.allow = dev.allow /\ dev'.data = Block
  /\ dev'.state = dev.state /\ dev'.error = dev.error /\ dev'.staged = dev.staged
TakesLast ==
  /\ dev.out.len <= MaxPacket /\ rx[1].size = dev.out.len
  /\ dev' \in Devices /\ dev'.pool = dev.pool /\ ~dev'.sent /\ ~dev'.pend
  /\ dev'.in.len = 0 /\ ~dev'.in.short /\ ~dev'.in.zlp /\ dev'.reg.rdy /\ dev'.reg.size = 0
  /\ dev'.out.len = 0
  /\ dev'.stall = dev.stall /\ dev'.allow = dev.allow /\ dev'.data = Block
  /\ dev'.state = dev.state /\ dev'.error = dev.error /\ dev'.staged = dev.staged

(* handle_out first puts the packet in the buffer.                         *)
Took(d, chunk, data) ==
  /\ d \in Devices /\ d.pool = dev.pool + 1 /\ d.in = dev.in /\ d.reg = dev.reg
  /\ d.out.len = dev.out.len - chunk /\ d.out.done = dev.out.done + chunk
  /\ d.out.zlp = dev.out.zlp /\ d.out.ack = dev.out.ack
  /\ d.data = data
  /\ d.state = dev.state /\ d.error = dev.error /\ d.allow = dev.allow /\ d.staged = dev.staged
  /\ SameFlags(dev, d)

LEMMA TookFacts ==
  ASSUME dev \in Devices, NEW p \in Packets
  PROVE  LET chunk == Least(p.size, dev.out.len)
             data == IF chunk > 0 THEN p.data ELSE dev.data
             d == [Put(dev) EXCEPT !.out.len = @ - chunk, !.out.done = @ + chunk,
                                   !.data = IF chunk > 0 THEN p.data ELSE @]
         IN  chunk \in Nat /\ chunk <= dev.out.len /\ Took(d, chunk, data)
<1> DEFINE chunk == Least(p.size, dev.out.len)
           data == IF chunk > 0 THEN p.data ELSE dev.data
           d == [Put(dev) EXCEPT !.out.len = @ - chunk, !.out.done = @ + chunk,
                                 !.data = IF chunk > 0 THEN p.data ELSE @]
           q == dev.pool + 1
           x == dev.out.len - chunk
           y == dev.out.done + chunk
           o == [dev.out EXCEPT !.len = x, !.done = y]
           f == [dev EXCEPT !.pool = q, !.out = o, !.data = data]
<1>1. p.size \in Nat /\ p.data \in Data
  BY SizesAssumption DEF Packets
<1>2. /\ dev.out.len \in 0 .. TransferSize /\ dev.out.done \in Nat /\ dev.out \in Transfers
      /\ dev.data \in Data /\ dev.pool \in Int
  BY DeviceFields
<1>3. chunk \in Nat /\ chunk <= dev.out.len
  BY <1>1, <1>2, SizesAssumption DEF Least
<1> HIDE DEF chunk
<1>4. d = f
  BY DEF Put, Devices, Transfers
<1>5. x \in 0 .. TransferSize /\ y \in Nat /\ q \in Int /\ data \in Data
  BY <1>1, <1>2, <1>3, SizesAssumption
<1>6. x = dev.out.len - chunk /\ y = dev.out.done + chunk /\ q = dev.pool + 1
  OBVIOUS
<1> HIDE DEF x, y, q, data, d
<1>7. o \in Transfers /\ o.len = x /\ o.done = y /\ o.zlp = dev.out.zlp /\ o.ack = dev.out.ack
  BY <1>2, <1>5 DEF Transfers
<1> HIDE DEF o
<1>8. /\ f \in Devices /\ f.pool = q /\ f.out = o /\ f.data = data /\ f.in = dev.in
      /\ f.reg = dev.reg /\ f.state = dev.state /\ f.error = dev.error /\ f.allow = dev.allow
      /\ f.staged = dev.staged /\ SameFlags(dev, f)
  BY <1>5, <1>7 DEF Devices, SameFlags
<1> HIDE DEF f
<1>9. Took(f, chunk, data)
  BY <1>6, <1>7, <1>8 DEF Took
<1> QED
  BY <1>3, <1>4, <1>9 DEF d, data, chunk

LEMMA HandleOutEffect ==
  ASSUME TypeOK, Stages, HandleOut
  PROVE  /\ ~dev.sent /\ rx # <<>> /\ ~rx[1].setup /\ rx' = Tail(rx)
         /\ UNCHANGED <<running, host, blocks, answer, handed>>
         /\ \/ Settled /\ Drops
            \/ AwaitsZero /\ Completes
            \/ Receiving /\ (TakesMore \/ TakesLast)
<1> DEFINE p == Head(rx)
           error == p.size > dev.out.len
           chunk == Least(p.size, dev.out.len)
           data == IF chunk > 0 THEN p.data ELSE dev.data
           d == [Put(dev) EXCEPT !.out.len = @ - chunk, !.out.done = @ + chunk,
                                 !.data = IF chunk > 0 THEN p.data ELSE @]
           ends == error \/ d.out.len = 0 \/ chunk < MaxPacket
           len == IF dev.out.ack THEN dev.in.done ELSE d.out.done
           h == [d EXCEPT !.out.ack = FALSE]
<1>1. /\ ~dev.sent /\ rx # <<>> /\ ~p.setup /\ rx' = Tail(rx)
      /\ UNCHANGED <<running, host, blocks, answer>>
      /\ CASE ~ends -> dev' = d /\ UNCHANGED handed
           [] ends /\ ~error /\ dev.out.zlp ->
                dev' = InTransfer(d, NoData, 0, FALSE, TRUE) /\ UNCHANGED handed
           [] OTHER -> \E ok \in BOOLEAN : dev' = Done(h, len, error, ok) /\ Hands(d, ok)
  BY DEF HandleOut, Poll
<1>2. p = rx[1] /\ 1 \in DOMAIN rx /\ Len(rx) > 0 /\ Len(rx) \in Nat /\ p \in Packets
  BY <1>1, TailFacts DEF TypeOK
<1>3. dev \in Devices /\ ~dev.pend
  BY DEF TypeOK, Stages
<1>4. chunk \in Nat /\ chunk <= dev.out.len /\ Took(d, chunk, data)
  BY <1>2, <1>3, TookFacts
<1>5. p.size \in 0 .. MaxPacket /\ dev.out.len \in Nat /\ MaxPacket \in Nat /\ MaxPacket > 1
  BY <1>2, <1>3, DeviceFields, SizesAssumption DEF Packets
<1>6. chunk = Least(p.size, dev.out.len) /\ data = (IF chunk > 0 THEN p.data ELSE dev.data)
  OBVIOUS
<1>7. (error <=> p.size > dev.out.len) /\ error \in BOOLEAN
  OBVIOUS
<1>8. ends <=> error \/ d.out.len = 0 \/ chunk < MaxPacket
  OBVIOUS
<1>9. len = IF dev.out.ack THEN dev.in.done ELSE d.out.done
  OBVIOUS
<1> HIDE DEF p, d, chunk, data, error, ends, len
<1>10. len \in Nat
  BY <1>3, <1>4, <1>9, DeviceFields DEF Took
<1>11. /\ h \in Devices /\ h.in = d.in /\ h.reg = d.reg /\ h.pool = d.pool /\ h.out.len = d.out.len
       /\ SameDfu(d, h) /\ SameFlags(d, h)
  <2> DEFINE o == [d.out EXCEPT !.ack = FALSE]
             g == [d EXCEPT !.out = o]
  <2>1. d \in Devices
    BY <1>4 DEF Took
  <2>2. h = g
    BY <2>1 DEF Devices
  <2>3. o \in Transfers /\ o.len = d.out.len
    BY <2>1 DEF Devices, Transfers
  <2> HIDE DEF o, h
  <2>4. /\ g \in Devices /\ g.in = d.in /\ g.reg = d.reg /\ g.pool = d.pool /\ g.out = o
        /\ SameDfu(d, g) /\ SameFlags(d, g)
    BY <2>1, <2>3 DEF Devices, SameDfu, SameFlags
  <2> QED
    BY <2>2, <2>3, <2>4
<1> HIDE DEF h
<1>12. Settled \/ AwaitsZero \/ Receiving
  <2>1. ~SentMore /\ ~SentLast /\ ~AckSent
    BY <1>1 DEF SentMore, SentLast, AckSent
  <2>2. ~Sending /\ ~AckReady
    BY <1>1 DEF Sending, DataStage, AckReady
  <2> QED
    BY <2>1, <2>2 DEF Stages
<1>13. CASE Settled
  <2>1. rx[1].size > 0 /\ dev.state = "Error" /\ dev.out.len = 0
    BY <1>1, <1>2, <1>13 DEF Settled, Fresh
  <2>2. error /\ chunk = 0 /\ data = dev.data
    BY <1>2, <1>5, <1>6, <1>7, <2>1 DEF Least
  <2>3. PICK ok \in BOOLEAN : dev' = Done(h, len, error, ok) /\ Hands(d, ok)
    BY <1>1, <1>8, <2>2
  <2>4. Ended(h, dev', len, error, ok)
    BY <1>7, <1>10, <1>11, <2>3, DoneFacts
  <2>5. handed' = handed
    BY <1>4, <2>1, <2>3 DEF Hands, Took
  <2>6. d.out.len = 0 /\ d.pool = dev.pool + 1 /\ d.data = dev.data
    BY <1>4, <1>5, <2>1, <2>2 DEF Took
  <2>7. Drops
    BY <1>1, <1>3, <1>4, <1>11, <2>1, <2>2, <2>4, <2>6
       DEF Drops, Ended, Took, SameDriver, SameDfu, SameFlags
  <2> QED
    BY <1>1, <1>2, <1>13, <2>5, <2>7
<1>14. CASE AwaitsZero
  <2>1. /\ rx[1].size = 0 /\ dev.out.len = 0 /\ ~dev.out.zlp /\ dev.out.ack
        /\ dev.state # "DnLoadSync"
    BY <1>1, <1>2, <1>14 DEF AwaitsZero, StatusStage, ZeroBefore
  <2>2. ~error /\ chunk = 0 /\ data = dev.data /\ len = dev.in.done
    BY <1>2, <1>5, <1>6, <1>7, <1>9, <2>1 DEF Least
  <2>3. PICK ok \in BOOLEAN : dev' = Done(h, len, error, ok) /\ Hands(d, ok)
    BY <1>1, <1>5, <1>8, <2>1, <2>2
  <2>4. Ended(h, dev', len, error, ok)
    BY <1>7, <1>10, <1>11, <2>3, DoneFacts
  <2>5. handed' = handed
    BY <1>4, <2>1, <2>3 DEF Hands, Took
  <2>6. d.out.len = 0 /\ d.pool = dev.pool + 1 /\ d.data = dev.data
    BY <1>4, <1>5, <2>1, <2>2 DEF Took
  <2>7. Completes
    BY <1>1, <1>3, <1>4, <1>11, <2>1, <2>2, <2>4, <2>6
       DEF Completes, Ended, Took, SameDriver, SameDfu, SameFlags
  <2> QED
    BY <1>1, <1>2, <1>14, <2>5, <2>7
<1>15. CASE Receiving
  <2>1. /\ rx[1].data = Block /\ dev.out.len > 0 /\ dev.out.zlp /\ dev.state = "DnLoadSync"
        /\ rx[1].size = Least(MaxPacket, Ahead(dev.out.len, 0))
    BY <1>1, <1>2, <1>15 DEF Receiving, Stream
  <2>2. Ahead(dev.out.len, 0) = dev.out.len
    BY <1>5, <2>1 DEF Ahead
  <2>3. rx[1].size = Least(MaxPacket, dev.out.len)
    BY <2>1, <2>2
  <2>4. ~error /\ chunk = rx[1].size /\ data = Block
    BY <1>2, <1>5, <1>6, <1>7, <2>1, <2>3 DEF Least
  <2>5. CASE dev.out.len > MaxPacket
    <3>1. rx[1].size = MaxPacket /\ ~ends
      BY <1>4, <1>5, <1>8, <2>3, <2>4, <2>5 DEF Least, Took
    <3>2. dev' = d /\ handed' = handed
      BY <1>1, <3>1
    <3>3. TakesMore
      BY <1>1, <1>3, <1>4, <2>4, <2>5, <3>1, <3>2 DEF TakesMore, Took, SameFlags
    <3> QED
      BY <1>1, <1>2, <1>15, <3>2, <3>3
  <2>6. CASE ~(dev.out.len > MaxPacket)
    <3>1. rx[1].size = dev.out.len /\ d.out.len = 0 /\ ends
      BY <1>4, <1>5, <1>8, <2>3, <2>4, <2>6 DEF Least, Took
    <3> DEFINE no == FALSE
               yes == TRUE
    <3>2. dev' = InTransfer(d, NoData, 0, no, yes) /\ handed' = handed
      BY <1>1, <2>1, <2>4, <3>1
    <3>3. ~no /\ no \in BOOLEAN /\ yes \in BOOLEAN
      OBVIOUS
    <3> HIDE DEF no, yes
    <3>4. 0 \in 0 .. TransferSize /\ d \in Devices
      BY <1>4, SizesAssumption DEF Took
    <3>5. Transmits(d, dev', NoData, 0, no, yes)
      BY <3>2, <3>3, <3>4, DataFacts, InTransferFacts
    <3>6. Least(MaxPacket, 0) = 0 /\ ~(0 > 0) /\ 0 - 0 = 0
      BY <1>5 DEF Least
    <3>7. dev'.reg.rdy /\ dev'.reg.size = 0 /\ dev'.in.len = 0 /\ ~dev'.in.short /\ ~dev'.in.zlp
      BY <3>3, <3>5, <3>6 DEF Transmits
    <3>8. dev'.pool = dev.pool
      BY <1>3, <1>4, <3>5, DeviceFields DEF Transmits, Took
    <3>9. TakesLast
      BY <1>1, <1>3, <1>4, <1>5, <2>4, <2>6, <3>1, <3>5, <3>7, <3>8
         DEF TakesLast, Transmits, Took, SameDfu, SameFlags
    <3> QED
      BY <1>1, <1>2, <1>15, <3>2, <3>9
  <2> QED
    BY <2>5, <2>6
<1> QED
  BY <1>12, <1>13, <1>14, <1>15

(* The host's transactions.  It reads what is ready in the register.       *)
TakenReg ==
  /\ dev' \in Devices /\ dev'.sent /\ ~dev'.reg.rdy /\ dev'.pool = dev.pool
  /\ dev'.reg.size = dev.reg.size /\ dev'.reg.data = dev.reg.data
  /\ dev'.in = dev.in /\ dev'.out = dev.out /\ SameDfu(dev, dev')
  /\ dev'.pend = dev.pend /\ dev'.stall = dev.stall

LEMMA TakenRegFacts ==
  ASSUME dev \in Devices, dev' = [dev EXCEPT !.reg.rdy = FALSE, !.sent = TRUE]
  PROVE  TakenReg
<1> DEFINE no == FALSE
           yes == TRUE
           g == [dev.reg EXCEPT !.rdy = no]
           e == [dev EXCEPT !.reg = g, !.sent = yes]
<1>1. dev' = e
  BY DEF Devices, Registers
<1>2. no \in BOOLEAN /\ ~no /\ yes \in BOOLEAN /\ yes
  OBVIOUS
<1> HIDE DEF no, yes
<1>3. g \in Registers /\ g.rdy = no /\ g.size = dev.reg.size /\ g.data = dev.reg.data
  BY <1>2, DeviceFields DEF Registers
<1> HIDE DEF g
<1>4. /\ e \in Devices /\ e.reg = g /\ e.sent = yes /\ e.pool = dev.pool /\ e.in = dev.in
      /\ e.out = dev.out /\ SameDfu(dev, e) /\ e.pend = dev.pend /\ e.stall = dev.stall
  BY <1>2, <1>3 DEF Devices, SameDfu
<1> HIDE DEF e
<1> QED
  BY <1>1, <1>2, <1>3, <1>4 DEF TakenReg, SameDfu

(* It sends a packet, which takes a buffer.                                *)
Supplied ==
  /\ dev' \in Devices /\ dev'.pool = dev.pool - 1
  /\ dev'.in = dev.in /\ dev'.out = dev.out /\ dev'.reg = dev.reg
  /\ SameDfu(dev, dev') /\ SameFlags(dev, dev')

LEMMA SuppliedFacts ==
  ASSUME dev \in Devices, dev' = [dev EXCEPT !.pool = @ - 1]
  PROVE  Supplied
<1> DEFINE p == dev.pool - 1
           e == [dev EXCEPT !.pool = p]
<1>1. dev' = e
  OBVIOUS
<1>2. p \in Int /\ p = dev.pool - 1
  BY DeviceFields
<1> HIDE DEF p
<1>3. /\ e \in Devices /\ e.pool = p /\ e.in = dev.in /\ e.out = dev.out /\ e.reg = dev.reg
      /\ SameDfu(dev, e) /\ SameFlags(dev, e)
  BY <1>2 DEF Devices, SameDfu, SameFlags
<1> HIDE DEF e
<1> QED
  BY <1>1, <1>2, <1>3 DEF Supplied, SameDfu, SameFlags

(* A request starts: the stall is cleared and the packet waits.            *)
Started(r) ==
  /\ r \in Requests /\ host.phase = "idle" /\ Len(rx) < RxDepth /\ Disciplined(r)
  /\ rx' = Append(rx, [setup |-> TRUE, req |-> r, size |-> 0, data |-> NoData])
  /\ dev' \in Devices /\ dev'.pool = dev.pool - 1 /\ ~dev'.stall /\ ~dev'.pend
  /\ ~dev.reg.rdy /\ ~dev'.reg.rdy /\ dev'.reg.size = dev.reg.size /\ dev'.reg.data = dev.reg.data
  /\ dev'.in = dev.in /\ dev'.out = dev.out /\ SameDfu(dev, dev') /\ dev'.sent = dev.sent
  /\ host' \in Hosts
  /\ host'.phase = (IF Downloads(r) THEN "dataOut" ELSE IF Reads(r) THEN "dataIn" ELSE "statusIn")
  /\ host'.req = r /\ host'.moved = 0 /\ host'.data = NoData /\ host'.asked = StillAsked(r)
  /\ host'.expects = (IF r.name = "UpLoad" THEN host.asked ELSE 0) /\ host'.block = host.block
  /\ blocks' = (IF Downloads(r) THEN blocks + 1 ELSE blocks) /\ blocks' \in 0 .. MaxBlocks
  /\ answer' = NoAnswer /\ UNCHANGED <<running, handed>>

LEMMA IdleStages ==
  ASSUME TypeOK, Stages, host.phase = "idle"
  PROVE  ~dev.reg.rdy /\ ~Waiting
<1>1. ~dev.reg.rdy
  BY DEF Stages, Settled, Sending, SentMore, SentLast, AwaitsZero, Receiving, AckReady, AckSent,
         DataStage, StatusStage
<1>2. ASSUME NEW i \in DOMAIN rx, rx[i].setup PROVE FALSE
  <2>1. host.phase \in {"dataOut", "dataIn", "statusIn"}
    BY <1>2 DEF Stages, SetupWaits, Stream
  <2> QED
    BY <2>1
<1> QED
  BY <1>1, <1>2 DEF Waiting

LEMMA SendSetupEffect ==
  ASSUME TypeOK, Stages, Polite, SendSetup
  PROVE  \E r \in Requests : Started(r)
<1> DEFINE ph(r) == IF Downloads(r) THEN "dataOut" ELSE IF Reads(r) THEN "dataIn" ELSE "statusIn"
           ex(r) == IF r.name = "UpLoad" THEN host.asked ELSE 0
           as(r) == StillAsked(r)
           p(r) == [setup |-> TRUE, req |-> r, size |-> 0, data |-> NoData]
           h(r) == [host EXCEPT !.phase = ph(r), !.req = r, !.moved = 0, !.data = NoData,
                                !.asked = as(r), !.expects = ex(r)]
<1>1. PICK r \in Requests :
        /\ Disciplined(r)
        /\ r.name = "DnLoad" /\ r.len > 0 => blocks < MaxBlocks
        /\ blocks' = IF r.name = "DnLoad" /\ r.len > 0 THEN blocks + 1 ELSE blocks
        /\ rx' = Append(rx, p(r)) /\ running' = running
        /\ host' = [host EXCEPT !.phase = CASE r.len = 0 -> "statusIn"
                                            [] r.len > 0 /\ Reads(r) -> "dataIn"
                                            [] OTHER -> "dataOut",
                                !.req = r, !.moved = 0, !.data = NoData,
                                !.asked = StillAsked(r),
                                !.expects = IF r.name = "UpLoad" THEN host.asked ELSE 0]
  BY DEF SendSetup, Polite, Receive
<1>2. /\ host.phase = "idle" /\ Len(rx) < RxDepth
      /\ dev' = [dev EXCEPT !.stall = FALSE, !.pool = @ - 1, !.pend = @ \/ dev.reg.rdy,
                            !.reg.rdy = FALSE]
      /\ answer' = NoAnswer /\ handed' = handed
  BY DEF SendSetup, Polite, Room
<1>3. dev \in Devices /\ ~dev.pend /\ ~dev.reg.rdy /\ host \in Hosts /\ blocks \in 0 .. MaxBlocks
  BY <1>2, IdleStages DEF TypeOK, Stages
<1>4. /\ dev' \in Devices /\ dev'.pool = dev.pool - 1 /\ ~dev'.stall /\ ~dev'.pend /\ ~dev'.reg.rdy
      /\ dev'.reg.size = dev.reg.size /\ dev'.reg.data = dev.reg.data
      /\ dev'.in = dev.in /\ dev'.out = dev.out /\ SameDfu(dev, dev') /\ dev'.sent = dev.sent
  <2> DEFINE no == FALSE
             q == dev.pool - 1
             w == dev.pend \/ dev.reg.rdy
             g == [dev.reg EXCEPT !.rdy = no]
             e == [dev EXCEPT !.stall = no, !.pool = q, !.pend = w, !.reg = g]
  <2>1. dev' = e
    BY <1>2, <1>3 DEF Devices, Registers
  <2>2. q \in Int /\ w \in BOOLEAN /\ ~w /\ no \in BOOLEAN /\ ~no
    BY <1>3, DeviceFields
  <2>3. q = dev.pool - 1
    OBVIOUS
  <2> HIDE DEF no, q, w
  <2>4. g \in Registers /\ g.rdy = no /\ g.size = dev.reg.size /\ g.data = dev.reg.data
    BY <1>3, <2>2, DeviceFields DEF Registers
  <2> HIDE DEF g
  <2>5. /\ e \in Devices /\ e.stall = no /\ e.pool = q /\ e.pend = w /\ e.reg = g
        /\ e.in = dev.in /\ e.out = dev.out /\ SameDfu(dev, e) /\ e.sent = dev.sent
    BY <1>3, <2>2, <2>4 DEF Devices, SameDfu
  <2> HIDE DEF e
  <2> QED
    BY <2>1, <2>2, <2>3, <2>4, <2>5 DEF SameDfu
<1>5. /\ r.len \in Nat /\ r.setting \in Nat /\ (Reads(r) => r.len > 0 /\ ~Downloads(r))
      /\ ~Reads(r) /\ ~Downloads(r) => r.len = 0
      /\ Downloads(r) => ~Reads(r) /\ r.len > 0
      /\ Downloads(r) <=> r.name = "DnLoad" /\ r.len > 0
  BY RequestFacts DEF Downloads
<1>6. (CASE r.len = 0 -> "statusIn" [] r.len > 0 /\ Reads(r) -> "dataIn" [] OTHER -> "dataOut") = ph(r)
  <2>1. CASE Downloads(r)
    BY <1>5, <2>1
  <2>2. CASE ~Downloads(r) /\ Reads(r)
    BY <1>5, <2>2
  <2>3. CASE ~Downloads(r) /\ ~Reads(r)
    BY <1>5, <2>3
  <2> QED
    BY <2>1, <2>2, <2>3
<1>7. host' = h(r)
  BY <1>1, <1>6
<1>8. ph(r) \in Phases /\ ex(r) \in Int /\ host.asked \in Int
  BY HostFields DEF Phases
<1>9. as(r) \in Int
  BY <1>5, <1>8 DEF StillAsked, Unchecked, Least
<1>10. NoData \in Data
  BY DataFacts
<1> HIDE DEF as, ph, ex
<1>11. /\ h(r) \in Hosts /\ h(r).phase = ph(r) /\ h(r).req = r /\ h(r).moved = 0
       /\ h(r).data = NoData /\ h(r).asked = as(r) /\ h(r).expects = ex(r)
       /\ h(r).block = host.block
  BY <1>3, <1>8, <1>9, <1>10 DEF Hosts
<1>12. blocks' = (IF Downloads(r) THEN blocks + 1 ELSE blocks) /\ blocks' \in 0 .. MaxBlocks
  BY <1>1, <1>3, <1>5, SizesAssumption
<1> HIDE DEF h
<1>13. Started(r)
  BY <1>1, <1>2, <1>3, <1>4, <1>7, <1>11, <1>12 DEF Started, as, ph, ex
<1> QED
  BY <1>13

LEMMA DataInMoves ==
  ASSUME TypeOK, DataIn
  PROVE  /\ TakenReg /\ host.phase = "dataIn"
         /\ host' \in Hosts /\ host'.moved = host.moved + dev.reg.size
         /\ host'.data = (IF dev.reg.size > 0 THEN dev.reg.data ELSE host.data)
         /\ host'.phase = (IF host.moved + dev.reg.size >= host.req.len \/ dev.reg.size < MaxPacket
                             THEN "statusOut" ELSE "dataIn")
         /\ host'.req = host.req /\ host'.asked = host.asked /\ host'.expects = host.expects
         /\ host'.block = host.block
         /\ UNCHANGED <<rx, running, blocks, handed, answer>>
<1> DEFINE m == host.moved + dev.reg.size
           v == IF dev.reg.size > 0 THEN dev.reg.data ELSE host.data
           f == IF m >= host.req.len \/ dev.reg.size < MaxPacket THEN "statusOut" ELSE "dataIn"
           h == [host EXCEPT !.moved = m, !.data = v, !.phase = f]
<1>1. /\ host.phase = "dataIn" /\ dev.reg.rdy /\ ~dev.stall /\ host' = h
      /\ dev' = [dev EXCEPT !.reg.rdy = FALSE, !.sent = TRUE]
      /\ UNCHANGED <<rx, running, blocks, handed, answer>>
  BY DEF DataIn
<1>2. TakenReg
  BY <1>1, TakenRegFacts DEF TypeOK
<1>4. m \in Nat /\ v \in Data /\ f \in Phases
  <2>1. host.moved \in Nat /\ host.data \in Data /\ dev.reg.size \in Nat /\ dev.reg.data \in Data
    BY HostFields, DeviceFields, SizesAssumption
  <2> QED
    BY <2>1 DEF Phases
<1>5. m = host.moved + dev.reg.size
  OBVIOUS
<1>6. f = IF host.moved + dev.reg.size >= host.req.len \/ dev.reg.size < MaxPacket
            THEN "statusOut" ELSE "dataIn"
  OBVIOUS
<1>7. v = IF dev.reg.size > 0 THEN dev.reg.data ELSE host.data
  OBVIOUS
<1> HIDE DEF m, v, f
<1>8. /\ h \in Hosts /\ h.moved = m /\ h.data = v /\ h.phase = f /\ h.req = host.req
      /\ h.asked = host.asked /\ h.expects = host.expects /\ h.block = host.block
  BY <1>4 DEF TypeOK, Hosts
<1> HIDE DEF h
<1> QED
  BY <1>1, <1>2, <1>5, <1>6, <1>7, <1>8

LEMMA DataInEffect ==
  ASSUME TypeOK, Stages, DataIn
  PROVE  /\ Sending /\ TakenReg /\ host.phase = "dataIn"
         /\ host' \in Hosts /\ host'.moved = host.moved + dev.reg.size
         /\ host'.data = (IF dev.reg.size > 0 THEN dev.reg.data ELSE host.data)
         /\ host'.phase = (IF host.moved + dev.reg.size >= host.req.len \/ dev.reg.size < MaxPacket
                             THEN "statusOut" ELSE "dataIn")
         /\ host'.req = host.req /\ host'.asked = host.asked /\ host'.expects = host.expects
         /\ host'.block = host.block
         /\ UNCHANGED <<rx, running, blocks, handed, answer>>
<1>1. host.phase = "dataIn" /\ dev.reg.rdy /\ ~dev.stall
  BY DEF DataIn
<1>2. Sending
  BY <1>1 DEF Stages, Settled, SentMore, SentLast, AwaitsZero, Receiving, AckReady, AckSent, StatusStage
<1> QED
  BY <1>2, DataInMoves

LEMMA DataOutEffect ==
  ASSUME TypeOK, Stages, DataOut
  PROVE  LET size == Least(MaxPacket, host.req.len - host.moved)
             p == [setup |-> FALSE, req |-> NoRequest, size |-> size, data |-> Block]
         IN  /\ Supplied /\ host.phase = "dataOut" /\ Len(rx) < RxDepth /\ ~dev.stall
             /\ rx' = Append(rx, p)
             /\ host' = [host EXCEPT !.moved = @ + size,
                                     !.phase = IF host.moved + size = host.req.len
                                                 THEN "statusIn" ELSE @]
             /\ UNCHANGED <<running, blocks, handed, answer>>
<1>1. dev' = [dev EXCEPT !.pool = @ - 1]
  BY DEF DataOut
<1>2. Supplied
  BY <1>1, SuppliedFacts DEF TypeOK
<1> QED
  BY <1>2 DEF DataOut, Receive, Room

(* A request ends.                                                         *)
Over(data, ok, asked, block) ==
  /\ host' \in Hosts /\ host'.phase = "idle" /\ host'.req = NoRequest /\ host'.moved = 0
  /\ host'.data = NoData /\ host'.asked = asked /\ host'.expects = 0 /\ host'.block = block
  /\ answer'.req = host.req /\ answer'.expects = host.expects /\ answer'.moved = host.moved
  /\ answer'.data = data /\ answer'.ok = ok
  /\ answer' \in [req : Requests \cup {NoRequest}, expects : Int, moved : Nat, data : Data, ok : BOOLEAN]

LEMMA EndsFacts ==
  ASSUME TypeOK, NEW data \in Data, NEW ok \in BOOLEAN, NEW asked \in Int, NEW block \in Data,
         Ends(data, ok, asked, block)
  PROVE  Over(data, ok, asked, block)
<1> DEFINE h == [IdleHost EXCEPT !.asked = asked, !.block = block]
           a == [req |-> host.req, expects |-> host.expects, moved |-> host.moved,
                 data |-> data, ok |-> ok]
<1>1. host' = h /\ answer' = a
  BY DEF Ends
<1>2. /\ h \in Hosts /\ h.phase = "idle" /\ h.req = NoRequest /\ h.moved = 0
      /\ h.data = NoData /\ h.asked = asked /\ h.expects = 0 /\ h.block = block
  <2>1. /\ IdleHost \in Hosts /\ IdleHost.phase = "idle" /\ IdleHost.req = NoRequest
        /\ IdleHost.moved = 0 /\ IdleHost.data = NoData /\ IdleHost.expects = 0
    BY DataFacts DEF IdleHost, Hosts, Phases
  <2> QED
    BY <2>1 DEF Hosts
<1>3. a \in [req : Requests \cup {NoRequest}, expects : Int, moved : Nat, data : Data, ok : BOOLEAN]
  BY HostFields
<1>4. /\ a.req = host.req /\ a.expects = host.expects /\ a.moved = host.moved
      /\ a.data = data /\ a.ok = ok
  OBVIOUS
<1> HIDE DEF h, a
<1> QED
  BY <1>1, <1>2, <1>3, <1>4 DEF Over

AckedBlock == IF Downloads(host.req) THEN Block ELSE host.block

LEMMA StatusInMoves ==
  ASSUME TypeOK, StatusIn
  PROVE  /\ TakenReg /\ Over(NoData, TRUE, host.asked, AckedBlock)
         /\ UNCHANGED <<rx, running, blocks, handed>>
<1>1. /\ host.phase = "statusIn" /\ dev.reg.rdy /\ ~dev.stall
      /\ dev' = [dev EXCEPT !.reg.rdy = FALSE, !.sent = TRUE]
      /\ Ends(NoData, TRUE, host.asked, AckedBlock)
      /\ UNCHANGED <<rx, running, blocks, handed>>
  BY DEF StatusIn, AckedBlock, Downloads
<1>2. TakenReg
  BY <1>1, TakenRegFacts DEF TypeOK
<1>4. AckedBlock \in Data /\ host.asked \in Int /\ NoData \in Data
  BY HostFields, DataFacts DEF AckedBlock
<1> DEFINE yes == TRUE
<1>5. Ends(NoData, yes, host.asked, AckedBlock)
  BY <1>1
<1>6. yes \in BOOLEAN
  OBVIOUS
<1> HIDE DEF yes
<1>7. Over(NoData, yes, host.asked, AckedBlock)
  BY <1>4, <1>5, <1>6, EndsFacts
<1>8. Over(NoData, TRUE, host.asked, AckedBlock)
  BY <1>7 DEF yes
<1> QED
  BY <1>1, <1>2, <1>8

LEMMA StatusInEffect ==
  ASSUME TypeOK, Stages, StatusIn
  PROVE  /\ AckReady /\ TakenReg /\ Over(NoData, TRUE, host.asked, AckedBlock)
         /\ UNCHANGED <<rx, running, blocks, handed>>
<1>1. host.phase = "statusIn" /\ dev.reg.rdy /\ ~dev.stall
  BY DEF StatusIn
<1>2. AckReady
  BY <1>1 DEF Stages, Settled, Sending, DataStage, SentMore, SentLast, AwaitsZero, Receiving, AckSent,
              StatusStage
<1> QED
  BY <1>2, StatusInMoves

LEMMA StatusOutMoves ==
  ASSUME TypeOK, StatusOut
  PROVE  /\ Supplied /\ host.phase = "statusOut" /\ ~dev.stall
         /\ rx' = Append(rx, [setup |-> FALSE, req |-> NoRequest, size |-> 0, data |-> NoData])
         /\ Over(host.data, TRUE, host.asked, host.block)
         /\ UNCHANGED <<running, blocks, handed>>
<1>1. /\ host.phase = "statusOut" /\ ~dev.stall /\ dev' = [dev EXCEPT !.pool = @ - 1]
      /\ rx' = Append(rx, [setup |-> FALSE, req |-> NoRequest, size |-> 0, data |-> NoData])
      /\ Ends(host.data, TRUE, host.asked, host.block)
      /\ UNCHANGED <<running, blocks, handed>>
  BY DEF StatusOut, Receive
<1>2. Supplied
  BY <1>1, SuppliedFacts DEF TypeOK
<1>6. host.data \in Data /\ host.asked \in Int /\ host.block \in Data
  BY HostFields
<1> DEFINE yes == TRUE
<1>7. Ends(host.data, yes, host.asked, host.block)
  BY <1>1
<1>8. yes \in BOOLEAN
  OBVIOUS
<1> HIDE DEF yes
<1>9. Over(host.data, yes, host.asked, host.block)
  BY <1>6, <1>7, <1>8, EndsFacts
<1>10. Over(host.data, TRUE, host.asked, host.block)
  BY <1>9 DEF yes
<1> QED
  BY <1>1, <1>2, <1>10

LEMMA StatusOutEffect ==
  ASSUME TypeOK, Stages, StatusOut
  PROVE  /\ SentLast \/ AwaitsZero
         /\ rx = <<>> /\ Supplied /\ host.phase = "statusOut" /\ ~dev.stall
         /\ rx' = Append(rx, [setup |-> FALSE, req |-> NoRequest, size |-> 0, data |-> NoData])
         /\ Over(host.data, TRUE, host.asked, host.block)
         /\ UNCHANGED <<running, blocks, handed>>
<1>1. host.phase = "statusOut" /\ ~dev.stall
  BY DEF StatusOut
<1>3. ~Waiting
  <2>1. ASSUME NEW i \in DOMAIN rx, rx[i].setup PROVE FALSE
    <3>1. host.phase \in {"dataOut", "dataIn", "statusIn"}
      BY <2>1 DEF Stages, SetupWaits, Stream
    <3> QED
      BY <1>1, <3>1
  <2> QED
    BY <2>1 DEF Waiting
<1>4. SentLast \/ AwaitsZero
  <2>1. ~Settled /\ ~AckSent
    BY <1>1, <1>3 DEF Settled, AckSent
  <2>2. ~Sending /\ ~SentMore /\ ~AckReady
    BY <1>1 DEF Sending, SentMore, AckReady, DataStage
  <2>3. ~Receiving
    BY <1>1 DEF Receiving, Stream
  <2> QED
    BY <2>1, <2>2, <2>3 DEF Stages
<1>5. rx = <<>>
  BY <1>1, <1>3, <1>4 DEF SentLast, AwaitsZero, StatusStage, ZeroBefore
<1> QED
  BY <1>4, <1>5, StatusOutMoves

StillAskedAfterStall ==
  IF host.req.name = "SetInterface" THEN Least(host.asked, 0) ELSE host.asked

LEMMA SeesStallMoves ==
  ASSUME TypeOK, SeesStall
  PROVE  /\ dev.stall
         /\ Over(NoData, FALSE, StillAskedAfterStall, host.block)
         /\ UNCHANGED <<dev, rx, running, blocks, handed>>
<1>1. /\ dev.stall /\ Ends(NoData, FALSE, StillAskedAfterStall, host.block)
      /\ UNCHANGED <<dev, rx, running, blocks, handed>>
  BY DEF SeesStall, StillAskedAfterStall
<1>4. NoData \in Data /\ host.block \in Data /\ StillAskedAfterStall \in Int
  BY HostFields, DataFacts DEF StillAskedAfterStall, Least
<1> DEFINE no == FALSE
<1>5. Ends(NoData, no, StillAskedAfterStall, host.block)
  BY <1>1
<1>6. no \in BOOLEAN
  OBVIOUS
<1> HIDE DEF no
<1>7. Over(NoData, no, StillAskedAfterStall, host.block)
  BY <1>4, <1>5, <1>6, EndsFacts
<1>8. Over(NoData, FALSE, StillAskedAfterStall, host.block)
  BY <1>7 DEF no
<1> QED
  BY <1>1, <1>8

LEMMA SeesStallEffect ==
  ASSUME TypeOK, Stages, SeesStall
  PROVE  /\ Settled /\ dev.stall /\ ~Waiting
         /\ Over(NoData, FALSE, StillAskedAfterStall, host.block)
         /\ UNCHANGED <<dev, rx, running, blocks, handed>>
<1>1. dev.stall
  BY DEF SeesStall
<1>2. Settled
  BY <1>1 DEF Stages, Sending, DataStage, SentMore, SentLast, AwaitsZero, Receiving, AckReady, AckSent,
              StatusStage, AckStage
<1>3. ~Waiting
  BY <1>1 DEF Stages, SetupWaits, Waiting
<1> QED
  BY <1>2, <1>3, SeesStallMoves

(* The device after enumeration.                                           *)
LEMMA EnumeratedFacts ==
  /\ Enumerated \in Devices
  /\ Enumerated.state = "Idle" /\ Enumerated.pool = Buffers
  /\ ~Enumerated.pend /\ ~Enumerated.sent /\ ~Enumerated.stall /\ ~Enumerated.reg.rdy
  /\ Enumerated.out.len = 0
<1> DEFINE no == FALSE
           t == NoTransfer
           g == EmptyReg
           d == [state |-> "Idle", error |-> "Ok", allow |-> {}, mode |-> "none", staged |-> 0,
                 data |-> NoData, in |-> t, out |-> t, reg |-> g,
                 pend |-> no, sent |-> no, stall |-> no, pool |-> Buffers]
<1>1. Enumerated = SetMode(d, Settings[1])
  BY DEF Enumerated
<1>2. no \in BOOLEAN /\ ~no
  OBVIOUS
<1>3. t \in Transfers /\ t.len = 0 /\ g \in Registers /\ ~g.rdy
  BY DataFacts, SizesAssumption DEF NoTransfer, Transfers, EmptyReg, Registers
<1> HIDE DEF no, t, g
<1>4. /\ d \in Devices /\ d.state = "Idle" /\ d.pool = Buffers /\ d.pend = no /\ d.sent = no
      /\ d.stall = no /\ d.reg = g /\ d.out = t
  <2>1. {} \in SUBSET {"UpLoad", "DnLoad"} /\ 0 \in 0 .. TransferSize /\ Buffers \in Int
    BY SizesAssumption
  <2> DEFINE s == "Idle"
             x == "Ok"
             m == "none"
             none == {}
  <2>2. s \in States /\ x \in Errors /\ m \in Modes /\ none \in SUBSET {"UpLoad", "DnLoad"}
    BY DEF States, Errors, Modes
  <2>3. s = "Idle"
    OBVIOUS
  <2>4. d = [state |-> s, error |-> x, allow |-> none, mode |-> m, staged |-> 0,
             data |-> NoData, in |-> t, out |-> t, reg |-> g,
             pend |-> no, sent |-> no, stall |-> no, pool |-> Buffers]
    OBVIOUS
  <2> HIDE DEF s, x, m, none, d
  <2> QED
    BY <1>2, <1>3, <2>1, <2>2, <2>3, <2>4, DataFacts DEF Devices
<1> HIDE DEF d
<1>5. 1 \in DOMAIN Settings
  BY SettingsFacts
<1>6. Configured(d, Enumerated, Settings[1])
  BY <1>1, <1>4, <1>5, SetModeFacts
<1> QED
  BY <1>2, <1>3, <1>4, <1>6 DEF Configured, SameDriver

(* Types.                                                                  *)
LEMMA MisreadStep ==
  ASSUME TypeOK, [Next]_vars
  PROVE  misread' \in BOOLEAN
<1>1. misread \in BOOLEAN
  BY DEF TypeOK
<1>2. CASE HandleSetupPacket
  BY <1>1, <1>2 DEF HandleSetupPacket
<1>3. CASE Bus \/ SendSetup \/ BusReset
  BY <1>1, <1>3 DEF Bus, DataIn, DataOut, StatusIn, StatusOut, SeesStall, SendSetup, BusReset
<1>4. CASE HandleIn \/ StagingFails \/ HandleOut \/ UNCHANGED vars
  BY <1>1, <1>4 DEF HandleIn, StagingFails, HandleOut, vars
<1> QED
  BY <1>2, <1>3, <1>4 DEF Next, Device

LEMMA HandsType ==
  ASSUME TypeOK, NEW d \in Devices, NEW ok \in BOOLEAN, Hands(d, ok)
  PROVE  handed' \in [data : Data, ok : BOOLEAN]
BY DeviceFields DEF TypeOK, Hands

(* handle_in keeps the types in any stage.                                 *)
LEMMA TypeHandleIn ==
  ASSUME TypeOK, HandleIn
  PROVE  /\ dev' \in Devices /\ handed' \in [data : Data, ok : BOOLEAN]
         /\ UNCHANGED <<rx, running, host, blocks, answer, misread>>
<1> DEFINE d == [Put(dev) EXCEPT !.sent = FALSE, !.pend = FALSE, !.reg = EmptyReg]
           e == IF dev.pend THEN d ELSE [d EXCEPT !.in.done = @ + dev.reg.size]
           more == dev.in.len > 0 \/ dev.in.short
           len == IF dev.in.ack THEN dev.out.done ELSE e.in.done
           h == [e EXCEPT !.in.ack = FALSE]
<1>1. /\ UNCHANGED <<rx, running, host, blocks, answer, misread>>
      /\ CASE ~dev.pend /\ more -> dev' = SendPacket(e) /\ UNCHANGED handed
           [] ~dev.pend /\ ~more /\ dev.in.zlp -> dev' = OutTransfer(e, 0, TRUE) /\ UNCHANGED handed
           [] OTHER -> \E ok \in BOOLEAN : dev' = Done(h, len, dev.pend, ok) /\ Hands(dev, ok)
  BY DEF HandleIn, Poll
<1>2. /\ dev \in Devices /\ dev.pend \in BOOLEAN /\ dev.reg.size \in Nat /\ dev.out.done \in Nat
      /\ handed \in [data : Data, ok : BOOLEAN]
  BY DeviceFields, SizesAssumption DEF TypeOK
<1>3. d \in Devices
  <2> DEFINE no == FALSE
             g == EmptyReg
             q == Put(dev)
             x == [q EXCEPT !.sent = no, !.pend = no, !.reg = g]
  <2>1. q \in Devices /\ no \in BOOLEAN /\ g \in Registers
    BY <1>2, PutFacts, DataFacts, SizesAssumption DEF Registers, EmptyReg
  <2>2. d = x
    OBVIOUS
  <2> HIDE DEF q, no, g, d
  <2> QED
    BY <2>1, <2>2 DEF Devices
<1> HIDE DEF d
<1>4. e \in Devices
  <2>1. CASE dev.pend
    BY <1>3, <2>1
  <2>2. CASE ~dev.pend
    <3> DEFINE sz == d.in.done + dev.reg.size
               i == [d.in EXCEPT !.done = sz]
    <3>1. e = [d EXCEPT !.in = i]
      BY <1>3, <2>2 DEF Devices, Transfers
    <3>2. d.in \in Transfers /\ sz \in Nat
      BY <1>2, <1>3, DeviceFields
    <3> HIDE DEF sz, e
    <3>3. i \in Transfers
      BY <3>2 DEF Transfers
    <3> HIDE DEF i
    <3> QED
      BY <1>3, <3>1, <3>3 DEF Devices
  <2> QED
    BY <2>1, <2>2
<1>5. h \in Devices /\ len \in Nat
  <2> HIDE DEF e
  <2>1. len \in Nat
    BY <1>2, <1>4, DeviceFields
  <2> DEFINE no == FALSE
             j == [e.in EXCEPT !.ack = no]
  <2>2. h = [e EXCEPT !.in = j]
    BY <1>4 DEF Devices
  <2>3. e.in \in Transfers /\ no \in BOOLEAN
    BY <1>4, DeviceFields
  <2> HIDE DEF no, h
  <2>4. j \in Transfers
    BY <2>3 DEF Transfers
  <2> HIDE DEF j
  <2>5. h \in Devices
    BY <1>4, <2>2, <2>4 DEF Devices
  <2> QED
    BY <2>1, <2>5
<1> HIDE DEF e, h, len, more
<1>6. CASE dev' = SendPacket(e) /\ UNCHANGED handed
  BY <1>1, <1>2, <1>4, <1>6, SendPacketFacts DEF Sends
<1>7. CASE dev' = OutTransfer(e, 0, TRUE) /\ UNCHANGED handed
  <2> DEFINE yes == TRUE
  <2>1. dev' = OutTransfer(e, 0, yes) /\ yes \in BOOLEAN /\ 0 \in 0 .. TransferSize
    BY <1>7, SizesAssumption
  <2> HIDE DEF yes
  <2>2. dev' \in Devices
    BY <1>4, <2>1, OutTransferFacts DEF Awaits
  <2> QED
    BY <1>1, <1>2, <1>7, <2>2
<1>8. CASE \E ok \in BOOLEAN : dev' = Done(h, len, dev.pend, ok) /\ Hands(dev, ok)
  <2>1. PICK ok \in BOOLEAN : dev' = Done(h, len, dev.pend, ok) /\ Hands(dev, ok)
    BY <1>8
  <2>2. dev' \in Devices
    BY <1>2, <1>5, <2>1, DoneFacts DEF Ended
  <2> QED
    BY <1>1, <1>2, <2>1, <2>2, HandsType
<1>9. \/ dev' = SendPacket(e) /\ UNCHANGED handed
      \/ dev' = OutTransfer(e, 0, TRUE) /\ UNCHANGED handed
      \/ \E ok \in BOOLEAN : dev' = Done(h, len, dev.pend, ok) /\ Hands(dev, ok)
  BY <1>1
<1> QED
  BY <1>6, <1>7, <1>8, <1>9

(* And so does handle_out.                                                 *)
LEMMA TypeHandleOut ==
  ASSUME TypeOK, HandleOut
  PROVE  /\ dev' \in Devices /\ handed' \in [data : Data, ok : BOOLEAN]
         /\ rx # <<>> /\ rx' = Tail(rx)
         /\ UNCHANGED <<running, host, blocks, answer, misread>>
<1> DEFINE p == Head(rx)
           error == p.size > dev.out.len
           chunk == Least(p.size, dev.out.len)
           data == IF chunk > 0 THEN p.data ELSE dev.data
           d == [Put(dev) EXCEPT !.out.len = @ - chunk, !.out.done = @ + chunk,
                                 !.data = IF chunk > 0 THEN p.data ELSE @]
           ends == error \/ d.out.len = 0 \/ chunk < MaxPacket
           len == IF dev.out.ack THEN dev.in.done ELSE d.out.done
           h == [d EXCEPT !.out.ack = FALSE]
<1>1. /\ rx # <<>> /\ rx' = Tail(rx)
      /\ UNCHANGED <<running, host, blocks, answer, misread>>
      /\ CASE ~ends -> dev' = d /\ UNCHANGED handed
           [] ends /\ ~error /\ dev.out.zlp ->
                dev' = InTransfer(d, NoData, 0, FALSE, TRUE) /\ UNCHANGED handed
           [] OTHER -> \E ok \in BOOLEAN : dev' = Done(h, len, error, ok) /\ Hands(d, ok)
  BY DEF HandleOut, Poll
<1>2. /\ p \in Packets /\ dev \in Devices /\ dev.in.done \in Nat
      /\ handed \in [data : Data, ok : BOOLEAN]
  BY <1>1, TailFacts, DeviceFields DEF TypeOK
<1>3. Took(d, chunk, data)
  BY <1>2, TookFacts
<1>4. error \in BOOLEAN
  OBVIOUS
<1> HIDE DEF p, d, chunk, data, error, ends
<1>5. d \in Devices
  BY <1>3 DEF Took
<1>6. len \in Nat
  BY <1>2, <1>5, DeviceFields
<1>7. h \in Devices
  <2> DEFINE no == FALSE
             o == [d.out EXCEPT !.ack = no]
  <2>1. h = [d EXCEPT !.out = o]
    BY <1>5 DEF Devices
  <2>2. d.out \in Transfers /\ no \in BOOLEAN
    BY <1>5, DeviceFields
  <2> HIDE DEF no, h
  <2>3. o \in Transfers
    BY <2>2 DEF Transfers
  <2> HIDE DEF o
  <2> QED
    BY <1>5, <2>1, <2>3 DEF Devices
<1> HIDE DEF h, len
<1>8. \/ dev' = d /\ UNCHANGED handed
      \/ dev' = InTransfer(d, NoData, 0, FALSE, TRUE) /\ UNCHANGED handed
      \/ \E ok \in BOOLEAN : dev' = Done(h, len, error, ok) /\ Hands(d, ok)
  BY <1>1
<1>9. CASE dev' = d /\ UNCHANGED handed
  BY <1>1, <1>2, <1>5, <1>9
<1>10. CASE dev' = InTransfer(d, NoData, 0, FALSE, TRUE) /\ UNCHANGED handed
  <2> DEFINE no == FALSE
             yes == TRUE
  <2>1. /\ dev' = InTransfer(d, NoData, 0, no, yes) /\ no \in BOOLEAN /\ yes \in BOOLEAN
        /\ 0 \in 0 .. TransferSize
    BY <1>10, SizesAssumption
  <2> HIDE DEF no, yes
  <2>2. dev' \in Devices
    BY <1>5, <2>1, DataFacts, InTransferFacts DEF Transmits
  <2> QED
    BY <1>1, <1>2, <1>10, <2>2
<1>11. CASE \E ok \in BOOLEAN : dev' = Done(h, len, error, ok) /\ Hands(d, ok)
  <2>1. PICK ok \in BOOLEAN : dev' = Done(h, len, error, ok) /\ Hands(d, ok)
    BY <1>11
  <2>2. dev' \in Devices
    BY <1>4, <1>6, <1>7, <2>1, DoneFacts DEF Ended
  <2>3. handed' \in [data : Data, ok : BOOLEAN]
    BY <1>5, <2>1, HandsType
  <2> QED
    BY <1>1, <2>2, <2>3
<1> QED
  BY <1>8, <1>9, <1>10, <1>11

(* A bus reset leaves the types.                                           *)
LEMMA TypeReset ==
  ASSUME TypeOK, misread' \in BOOLEAN, BusReset
  PROVE  TypeOK' /\ rx' = <<>> /\ host'.phase = "idle"
<1>1. /\ dev' = Enumerated /\ rx' = <<>> /\ running' = FALSE /\ host' = IdleHost /\ blocks' = 0
      /\ handed' = NotHanded /\ answer' = NoAnswer
  BY DEF BusReset
<1>2. IdleHost \in Hosts /\ IdleHost.phase = "idle"
  BY DataFacts DEF IdleHost, Hosts, Phases
<1>3. NotHanded \in [data : Data, ok : BOOLEAN]
  BY DataFacts DEF NotHanded
<1>4. NoAnswer \in [req : Requests \cup {NoRequest}, expects : Int, moved : Nat, data : Data, ok : BOOLEAN]
  BY DataFacts DEF NoAnswer
<1>5. 0 \in 0 .. MaxBlocks /\ <<>> \in Seq(Packets) /\ FALSE \in BOOLEAN
  BY SizesAssumption
<1> QED
  BY <1>1, <1>2, <1>3, <1>4, <1>5, EnumeratedFacts DEF TypeOK

(* The types when every transfer is in one of its stages.                  *)
LEMMA TypeStep ==
  ASSUME TypeOK, Stages, Polite, [Next]_vars
  PROVE  TypeOK'
<1>0. misread' \in BOOLEAN
  BY MisreadStep
<1>1. CASE HandleIn
  BY <1>0, <1>1, TypeHandleIn DEF TypeOK
<1>2. CASE Handles
  <2>1. UNCHANGED <<running, host, blocks, answer, handed>> /\ rx' = Tail(rx) /\ rx # <<>>
    BY <1>2, HandleSetupEffect
  <2>2. dev' \in Devices
    BY <1>2, HandleSetupEffect DEF Refuses, Accepts, Acks, Expects, Replies
  <2>3. rx' \in Seq(Packets)
    BY <2>1, TailFacts DEF TypeOK
  <2> QED
    BY <1>0, <2>1, <2>2, <2>3 DEF TypeOK
<1>3. CASE HandleOut
  <2>1. rx \in Seq(Packets) /\ rx # <<>> /\ rx' = Tail(rx)
    BY <1>3, TypeHandleOut DEF TypeOK
  <2>2. rx' \in Seq(Packets)
    BY <2>1, TailFacts
  <2> QED
    BY <1>0, <1>3, <2>2, TypeHandleOut DEF TypeOK
<1>4. CASE DataIn
  BY <1>0, <1>4, DataInEffect DEF TypeOK, TakenReg
<1>5. CASE DataOut
  <2> DEFINE size == Least(MaxPacket, host.req.len - host.moved)
             p == [setup |-> FALSE, req |-> NoRequest, size |-> size, data |-> Block]
             m == host.moved + size
             f == IF host.moved + size = host.req.len THEN "statusIn" ELSE host.phase
             h == [host EXCEPT !.moved = m, !.phase = f]
  <2>1. /\ Supplied /\ rx' = Append(rx, p) /\ host' = h
        /\ UNCHANGED <<running, blocks, handed, answer>>
    BY <1>5, DataOutEffect
  <2>2. host.moved \in Nat /\ host.req.len \in Nat /\ host.phase \in Phases /\ host.phase = "dataOut"
    BY <1>5, HostFields DEF DataOut
  <2>3. host.moved <= host.req.len
    <3>1. host.phase = "dataOut" /\ ~dev.stall
      BY <1>5, DataOutEffect
    <3>2. PICK i \in 1 .. (Len(rx) + 1), left \in Nat : Stream(i, left)
      <4>1. rx \in Seq(Packets) /\ Len(rx) \in Nat /\ DOMAIN rx = 1 .. Len(rx)
        BY DEF TypeOK
      <4>2. CASE Waiting
        <5>1. PICK j \in DOMAIN rx : rx[j].setup
          BY <4>2 DEF Waiting
        <5>2. Stream(j + 1, host.req.len)
          BY <3>1, <5>1 DEF Stages, SetupWaits
        <5> QED
          BY <2>2, <4>1, <5>1, <5>2
      <4>3. CASE ~Waiting
        <5>1. Receiving
          BY <3>1, <4>3
             DEF Stages, Settled, Sending, DataStage, SentMore, SentLast, AwaitsZero, AckReady, AckSent,
                 StatusStage, ZeroBefore
        <5>2. dev.out.len \in Nat
          BY DeviceFields DEF TypeOK
        <5> QED
          BY <4>1, <5>1, <5>2 DEF Receiving
      <4> QED
        BY <4>2, <4>3
    <3> QED
      BY <2>2, <3>2 DEF Stream
  <2>4. size \in 0 .. MaxPacket /\ m \in Nat /\ f \in Phases
    BY <2>2, <2>3, SizesAssumption DEF Least, Phases
  <2>5. Block \in Data
    BY HostFields
  <2> HIDE DEF size, m, f
  <2>6. p \in Packets
    BY <2>4, <2>5 DEF Packets
  <2>7. h \in Hosts
    BY <2>4 DEF TypeOK, Hosts
  <2> HIDE DEF p, h
  <2>8. rx' \in Seq(Packets)
    BY <2>1, <2>6, AppendFacts DEF TypeOK
  <2> QED
    BY <1>0, <2>1, <2>7, <2>8 DEF TypeOK, Supplied
<1>6. CASE StatusIn
  BY <1>0, <1>6, StatusInEffect DEF TypeOK, TakenReg, Over
<1>7. CASE StatusOut
  <2> DEFINE p == [setup |-> FALSE, req |-> NoRequest, size |-> 0, data |-> NoData]
  <2>1. /\ Supplied /\ rx' = Append(rx, p) /\ Over(host.data, TRUE, host.asked, host.block)
        /\ UNCHANGED <<running, blocks, handed>>
    BY <1>7, StatusOutEffect
  <2>2. p \in Packets
    BY DataFacts, SizesAssumption DEF Packets
  <2> HIDE DEF p
  <2>3. rx' \in Seq(Packets)
    BY <2>1, <2>2, AppendFacts DEF TypeOK
  <2> QED
    BY <1>0, <2>1, <2>3 DEF TypeOK, Supplied, Over
<1>8. CASE SeesStall
  BY <1>0, <1>8, SeesStallEffect DEF TypeOK, Over
<1>9. CASE SendSetup
  <2>1. PICK r \in Requests : Started(r)
    BY <1>9, SendSetupEffect
  <2> DEFINE p == [setup |-> TRUE, req |-> r, size |-> 0, data |-> NoData]
  <2>2. p \in Packets
    BY DataFacts, SizesAssumption DEF Packets
  <2>3. rx' = Append(rx, p)
    BY <2>1 DEF Started
  <2> HIDE DEF p
  <2>4. rx' \in Seq(Packets)
    BY <2>2, <2>3, AppendFacts DEF TypeOK
  <2>5. answer' \in [req : Requests \cup {NoRequest}, expects : Int, moved : Nat, data : Data, ok : BOOLEAN]
    BY <2>1, DataFacts DEF Started, NoAnswer
  <2> QED
    BY <1>0, <2>1, <2>4, <2>5 DEF TypeOK, Started
<1>10. CASE BusReset
  BY <1>0, <1>10, TypeReset
<1>11. CASE UNCHANGED vars
  BY <1>0, <1>11 DEF TypeOK, vars
<1> QED
  BY <1>1, <1>2, <1>3, <1>4, <1>5, <1>6, <1>7, <1>8, <1>9, <1>10, <1>11 DEF Next, Device, Bus, Handles

LEMMA TypeInit ==
  Init => TypeOK
<1> SUFFICES ASSUME Init PROVE TypeOK
  OBVIOUS
<1>1. IdleHost \in Hosts
  BY DataFacts DEF IdleHost, Hosts, Phases
<1>2. NotHanded \in [data : Data, ok : BOOLEAN]
  BY DataFacts DEF NotHanded
<1>3. NoAnswer \in [req : Requests \cup {NoRequest}, expects : Int, moved : Nat, data : Data, ok : BOOLEAN]
  BY DataFacts DEF NoAnswer
<1>4. 0 \in 0 .. MaxBlocks /\ <<>> \in Seq(Packets) /\ TRUE \in BOOLEAN
  BY SizesAssumption
<1> QED
  BY <1>1, <1>2, <1>3, <1>4, EnumeratedFacts DEF Init, TypeOK

-----------------------------------------------------------------------------
(* The packets of a download, counted from one on.                         *)
LEMMA AheadFacts ==
  ASSUME NEW left \in Nat, NEW n \in Nat
  PROVE  /\ Ahead(left, n) \in Nat
         /\ Ahead(left, 0) = left
         /\ Ahead(left, n + 1) = Ahead(left, n) - Least(MaxPacket, Ahead(left, n))
         /\ left > MaxPacket => Ahead(left - MaxPacket, n) = Ahead(left, n + 1)
         /\ left <= MaxPacket => Ahead(left, n + 1) = 0
<1> DEFINE nm == n * MaxPacket
<1>1. MaxPacket \in Nat /\ MaxPacket > 1
  BY SizesAssumption
<1>2. nm \in Nat /\ (n + 1) * MaxPacket = nm + MaxPacket /\ 0 * MaxPacket = 0
  BY <1>1
<1>3. \A l : Ahead(l, n) = IF l > nm THEN l - nm ELSE 0
  BY DEF Ahead
<1>4. \A l : Ahead(l, n + 1) = IF l > nm + MaxPacket THEN l - (nm + MaxPacket) ELSE 0
  BY <1>2 DEF Ahead
<1>5. \A l : Ahead(l, 0) = IF l > 0 THEN l - 0 ELSE 0
  BY <1>2 DEF Ahead
<1> HIDE DEF nm
<1> QED
  BY <1>1, <1>2, <1>3, <1>4, <1>5 DEF Least

(* The first packet of the FIFO is taken: what is a stream stays one.      *)
LEMMA StreamShift ==
  ASSUME TypeOK, rx # <<>>, rx' = Tail(rx), host' = host, blocks' = blocks,
         NEW first \in Nat, first >= 1, NEW left \in Nat, Stream(first + 1, left)
  PROVE  Stream(first, left)'
<1>1. /\ Len(rx) \in Nat /\ Len(rx) > 0 /\ Len(rx') = Len(rx) - 1
      /\ \A i \in 1 .. Len(rx') : rx'[i] = rx[i + 1]
  BY TailFacts DEF TypeOK
<1>2. ASSUME NEW i \in first .. Len(rx')
      PROVE  /\ ~rx'[i].setup /\ rx'[i].data = Block'
             /\ Ahead(left, i - first) > 0
             /\ rx'[i].size = Least(MaxPacket, Ahead(left, i - first))
  <2>1. i + 1 \in (first + 1) .. Len(rx) /\ i \in 1 .. Len(rx') /\ (i + 1) - (first + 1) = i - first
    BY <1>1
  <2> QED
    BY <1>1, <2>1 DEF Stream, Block
<1>3. Len(rx') + 1 - first = Len(rx) + 1 - (first + 1)
  <2>1. ASSUME NEW k \in Nat, NEW l \in Int, l = k - 1
        PROVE  l + 1 - first = k + 1 - (first + 1)
    BY <2>1
  <2>2. Len(rx') \in Int
    BY <1>1
  <2> QED
    BY <1>1, <2>1, <2>2
<1> QED
  BY <1>2, <1>3 DEF Stream

LEMMA StreamTake ==
  ASSUME TypeOK, rx # <<>>, rx' = Tail(rx), host' = host, blocks' = blocks,
         NEW left \in Nat, left > MaxPacket, Stream(1, left)
  PROVE  Stream(1, left - MaxPacket)'
<1>1. /\ Len(rx) \in Nat /\ Len(rx) > 0 /\ Len(rx') = Len(rx) - 1
      /\ \A i \in 1 .. Len(rx') : rx'[i] = rx[i + 1]
  BY TailFacts DEF TypeOK
<1>2. ASSUME NEW i \in 1 .. Len(rx')
      PROVE  /\ ~rx'[i].setup /\ rx'[i].data = Block'
             /\ Ahead(left - MaxPacket, i - 1) > 0
             /\ rx'[i].size = Least(MaxPacket, Ahead(left - MaxPacket, i - 1))
  <2>1. i + 1 \in 1 .. Len(rx) /\ i - 1 \in Nat /\ (i + 1) - 1 = (i - 1) + 1
    BY <1>1
  <2>2. Ahead(left - MaxPacket, i - 1) = Ahead(left, (i + 1) - 1)
    BY <2>1, AheadFacts
  <2> QED
    BY <1>1, <2>1, <2>2 DEF Stream, Block
<1>3. Ahead(left - MaxPacket, Len(rx') + 1 - 1) = Ahead(left, Len(rx) + 1 - 1)
  <2>1. Len(rx') \in Nat /\ Len(rx') + 1 - 1 = Len(rx') /\ Len(rx) + 1 - 1 = Len(rx') + 1
    BY <1>1
  <2> QED
    BY <2>1, AheadFacts
<1>4. host.req.len - host.moved = Ahead(left, Len(rx) + 1 - 1)
  BY DEF Stream
<1> QED
  BY <1>2, <1>3, <1>4 DEF Stream

(* A stream that fits in a packet is that packet.                          *)
LEMMA StreamLast ==
  ASSUME TypeOK, rx # <<>>, NEW left \in Nat, left <= MaxPacket, Stream(1, left)
  PROVE  Len(rx) = 1 /\ Tail(rx) = <<>> /\ host.phase = "statusIn"
<1>1. Len(rx) \in Nat /\ Len(rx) > 0 /\ rx \in Seq(Packets)
  BY TailFacts DEF TypeOK
<1>2. Ahead(left, 1) = 0
  <2>1. 0 \in Nat /\ 0 + 1 = 1
    OBVIOUS
  <2> QED
    BY <2>1, AheadFacts
<1>3. ~(Len(rx) > 1)
  <2>1. Len(rx) > 1 => 2 \in 1 .. Len(rx) /\ 2 - 1 = 1
    BY <1>1
  <2> QED
    BY <1>2, <2>1 DEF Stream
<1>4. Len(rx) = 1
  <2>1. ASSUME NEW k \in Nat, k > 0, ~(k > 1) PROVE k = 1
    BY <2>1
  <2> QED
    BY <1>1, <1>3, <2>1
<1>5. host.req.len - host.moved = 0
  BY <1>2, <1>4 DEF Stream
<1>6. ~(host.moved < host.req.len)
  BY <1>5, HostFields
<1>7. host.phase = "statusIn"
  BY <1>6 DEF Stream
<1>8. Tail(rx) = <<>>
  <2>1. Tail(rx) \in Seq(Packets) /\ Len(Tail(rx)) = 0
    BY <1>1, <1>4, TailFacts
  <2>2. \A s \in Seq(Packets) : Len(s) = 0 => s = <<>>
    OBVIOUS
  <2> QED
    BY <2>1, <2>2
<1> QED
  BY <1>4, <1>7, <1>8

(* The host sends the next packet of a stream.                             *)
LEMMA StreamPut ==
  ASSUME TypeOK, Stages, DataOut, TypeOK',
         NEW first \in Nat, first >= 1, first <= Len(rx) + 1, NEW left \in Nat, Stream(first, left)
  PROVE  Stream(first, left)'
<1> DEFINE size == Least(MaxPacket, host.req.len - host.moved)
           p == [setup |-> FALSE, req |-> NoRequest, size |-> size, data |-> Block]
           n == Len(rx) + 1 - first
<1>1. /\ host.phase = "dataOut" /\ rx' = Append(rx, p) /\ blocks' = blocks
      /\ host' = [host EXCEPT !.moved = @ + size,
                              !.phase = IF host.moved + size = host.req.len THEN "statusIn" ELSE @]
  BY DataOutEffect
<1>2. ~p.setup /\ p.size = size /\ p.data = Block
  OBVIOUS
<1>3. /\ Len(rx) \in Nat /\ rx \in Seq(Packets)
      /\ host.moved \in Nat /\ host.req.len \in Nat /\ MaxPacket \in Nat /\ MaxPacket > 1
  BY HostFields, SizesAssumption DEF TypeOK
<1>4. host.moved < host.req.len /\ host.req.len - host.moved = Ahead(left, n)
  BY <1>1 DEF Stream
<1>5. /\ host'.moved = host.moved + size /\ host'.req = host.req
      /\ host'.phase = IF host.moved + size = host.req.len THEN "statusIn" ELSE host.phase
  BY <1>1 DEF TypeOK, Hosts
<1>6. size = Least(MaxPacket, host.req.len - host.moved)
  OBVIOUS
<1>7. n \in Nat /\ Ahead(left, n + 1) = Ahead(left, n) - Least(MaxPacket, Ahead(left, n))
  <2>1. n \in Nat
    BY <1>3
  <2> HIDE DEF n
  <2> QED
    BY <2>1, AheadFacts
<1>8. n = Len(rx) + 1 - first
  OBVIOUS
<1> HIDE DEF size, p, n
<1>9. size \in Nat /\ size > 0 /\ size <= host.req.len - host.moved
  BY <1>3, <1>4, <1>6 DEF Least
<1>10. /\ Len(rx') = Len(rx) + 1 /\ rx'[Len(rx) + 1] = p
       /\ \A i \in 1 .. Len(rx) : rx'[i] = rx[i]
  BY <1>1, <1>3
<1>11. ASSUME NEW i \in first .. Len(rx')
       PROVE  /\ ~rx'[i].setup /\ rx'[i].data = Block'
              /\ Ahead(left, i - first) > 0
              /\ rx'[i].size = Least(MaxPacket, Ahead(left, i - first))
  <2>1. CASE i <= Len(rx)
    <3>1. i \in first .. Len(rx) /\ i \in 1 .. Len(rx)
      BY <1>3, <2>1
    <3> QED
      BY <1>1, <1>10, <3>1 DEF Stream, Block
  <2>2. CASE i = Len(rx) + 1
    <3>1. i - first = n
      BY <1>8, <2>2
    <3>2. Ahead(left, i - first) > 0
      BY <1>3, <1>4, <3>1
    <3> QED
      BY <1>1, <1>2, <1>4, <1>6, <1>10, <2>2, <3>1, <3>2 DEF Block
  <2> QED
    BY <1>3, <1>10, <2>1, <2>2
<1>12. host'.req.len - host'.moved = Ahead(left, Len(rx') + 1 - first)
  <2>1. Len(rx') + 1 - first = n + 1
    BY <1>3, <1>8, <1>10
  <2>2. host'.req.len - host'.moved = (host.req.len - host.moved) - size
    BY <1>3, <1>5, <1>9
  <2> QED
    BY <1>4, <1>6, <1>7, <2>1, <2>2
<1>13. host'.phase = IF host'.moved < host'.req.len THEN "dataOut" ELSE "statusIn"
  <2>1. host'.moved < host'.req.len <=> host.moved + size # host.req.len
    BY <1>3, <1>5, <1>9
  <2>2. host'.phase = IF host.moved + size = host.req.len THEN "statusIn" ELSE "dataOut"
    BY <1>1, <1>5
  <2> QED
    BY <2>1, <2>2
<1> QED
  BY <1>11, <1>12, <1>13 DEF Stream

-----------------------------------------------------------------------------
(* A full packet less leaves the same rest.                                *)
LEMMA ModLess ==
  ASSUME NEW m \in Nat, m > 1, NEW a \in Nat, a >= m
  PROVE  (a - m) % m = a % m
<1> DEFINE q == a \div m
           r == a % m
<1>1. a = m * q + r /\ r \in 0 .. (m - 1) /\ q \in Int
  OBVIOUS
<1>2. a - m = m * (q - 1) + r
  BY <1>1
<1> HIDE DEF q, r
<1> QED
  BY <1>1, <1>2

(* The stages of a control transfer, action by action.                     *)
LEMMA StagesHandleIn ==
  ASSUME TypeOK, TypeOK', Stages, HandleIn
  PROVE  Stages' /\ (SentLast => AwaitsZero')
<1>1. /\ dev.sent /\ UNCHANGED <<rx, running, host, blocks, answer>>
      /\ (SentMore /\ MoreSent) \/ (SentLast /\ Turned) \/ (AckSent /\ AckDone)
  BY HandleInEffect
<1>2. /\ Waiting' <=> Waiting
      /\ \A i \in DOMAIN rx : Fresh(i)' <=> Fresh(i)
  BY <1>1 DEF Waiting, Fresh
<1>3. /\ dev.in.len \in 0 .. TransferSize /\ dev.reg.size \in 0 .. TransferSize
      /\ host.moved \in Nat /\ host.req.len \in Nat
      /\ MaxPacket \in Nat /\ MaxPacket > 1 /\ TransferSize \in Nat
  BY HostFields, DeviceFields, SizesAssumption DEF TypeOK
<1>4. CASE SentMore /\ MoreSent
  <2> DEFINE chunk == Least(MaxPacket, dev.in.len)
  <2>1. /\ dev'.reg.rdy /\ ~dev'.sent /\ ~dev'.pend /\ ~dev'.stall
        /\ dev'.reg.size = chunk /\ dev'.in.len = dev.in.len - chunk
        /\ dev'.in.short <=> dev.in.short /\ chunk = MaxPacket
        /\ dev'.in.zlp = dev.in.zlp /\ dev'.out = dev.out /\ dev'.state = dev.state
    BY <1>4 DEF MoreSent, SentMore, DataStage, SameDfu
  <2>2. /\ chunk \in 0 .. MaxPacket /\ chunk <= dev.in.len
        /\ chunk = MaxPacket \/ chunk = dev.in.len
    BY <1>3 DEF Least
  <2>3. /\ rx = <<>> /\ host.phase = "dataIn" /\ host.req \in Requests /\ Reads(host.req)
        /\ dev.in.zlp /\ dev.out.len = 0 /\ dev.state # "DnLoadSync" /\ ~dev.reg.rdy
    BY <1>4 DEF SentMore, DataStage
  <2>4. Rest = dev.in.len
    BY <1>3, <2>3 DEF Rest, InReg
  <2>5. /\ host.moved + dev.in.len <= host.req.len
        /\ dev.in.short => host.moved + dev.in.len < host.req.len /\ dev.in.len % MaxPacket = 0
        /\ \/ host.moved + dev.in.len = host.req.len
           \/ dev.in.short
           \/ dev.in.len % MaxPacket # 0
    BY <1>4, <2>3, <2>4 DEF SentMore, DataStage
  <2> HIDE DEF chunk
  <2>6. Rest' = dev.in.len
    BY <1>3, <2>1, <2>2 DEF Rest, InReg
  <2>7. chunk = MaxPacket => (dev.in.len - chunk) % MaxPacket = dev.in.len % MaxPacket
    <3>1. dev.in.len \in Nat /\ (chunk = MaxPacket => dev.in.len >= MaxPacket)
      BY <1>3, <2>2
    <3> QED
      BY <1>3, <3>1, ModLess
  <2>8. dev'.in.short => dev'.in.len % MaxPacket = 0
    BY <2>1, <2>5, <2>7
  <2>9. dev.in.short => dev'.in.short \/ (dev'.reg.rdy /\ dev'.reg.size < MaxPacket)
    BY <1>3, <2>1, <2>2
  <2>10. DataStage'
    BY <1>1, <2>1, <2>3, <2>5, <2>6, <2>8, <2>9 DEF DataStage
  <2>11. dev'.reg.size = MaxPacket \/ Drained'
    BY <1>3, <2>1, <2>2 DEF Drained
  <2>12. Sending'
    BY <1>3, <2>1, <2>2, <2>10, <2>11 DEF Sending
  <2>13. SetupWaits'
    BY <1>1, <2>3 DEF SetupWaits
  <2>14. ~SentLast
    BY <1>4 DEF SentMore, SentLast, StatusStage
  <2> QED
    BY <2>1, <2>12, <2>13, <2>14 DEF Stages
<1>5. CASE SentLast /\ Turned
  <2>1. /\ ~dev'.sent /\ ~dev'.pend /\ ~dev'.reg.rdy /\ dev'.in.len = dev.in.len
        /\ dev'.in.short = dev.in.short /\ dev'.out.len = 0 /\ ~dev'.out.zlp /\ dev'.out.ack
        /\ dev'.state = dev.state /\ dev'.stall = dev.stall
    BY <1>5 DEF Turned, SameDfu
  <2>2. StatusStage
    BY <1>5 DEF SentLast
  <2>3. ZeroBefore' <=> ZeroBefore
    BY <1>1, <1>2 DEF ZeroBefore
  <2>4. StatusStage'
    BY <1>1, <2>1, <2>2, <2>3 DEF StatusStage, Drained
  <2>5. AwaitsZero'
    BY <2>1, <2>4 DEF AwaitsZero
  <2>6. SetupWaits'
    BY <1>1, <2>1 DEF Stages, SetupWaits, Stream, Block
  <2> QED
    BY <2>1, <2>5, <2>6 DEF Stages
<1>6. CASE AckSent /\ AckDone
  <2>1. /\ ~dev'.sent /\ ~dev'.pend /\ ~dev'.reg.rdy /\ dev'.out.len = 0 /\ dev'.stall = dev.stall
        /\ dev'.state # "DnLoadSync"
    BY <1>6 DEF AckDone, AckSent, AckStage
  <2>2. NoneBefore /\ (Waiting \/ host.phase = "idle")
    BY <1>6 DEF AckSent
  <2>3. \A i \in DOMAIN rx : ~rx[i].setup => Fresh(i)
    <3>1. DOMAIN rx = 1 .. Len(rx) /\ Len(rx) \in Nat
      BY DEF TypeOK
    <3> QED
      BY <2>2, <3>1 DEF NoneBefore, Fresh
  <2>4. Settled'
    BY <1>1, <1>2, <2>1, <2>2, <2>3 DEF Settled
  <2>5. SetupWaits'
    BY <1>1, <2>1 DEF Stages, SetupWaits, Stream, Block
  <2>6. ~SentLast
    BY <1>6 DEF AckSent, AckStage, SentLast
  <2> QED
    BY <2>1, <2>4, <2>5, <2>6 DEF Stages
<1> QED
  BY <1>1, <1>4, <1>5, <1>6

(* Behind a SETUP packet come only the packets of its download.            *)
LEMMA AfterSetup ==
  ASSUME TypeOK, Stages, rx # <<>>, rx[1].setup, rx' = Tail(rx), host' = host, blocks' = blocks
  PROVE  /\ ~Waiting'
         /\ Downloads(host.req) => Stream(1, host.req.len)'
         /\ ~Downloads(host.req) =>
              /\ rx' = <<>> /\ host.moved = 0
              /\ host.phase = IF Reads(host.req) THEN "dataIn" ELSE "statusIn"
<1>1. /\ Len(rx) \in Nat /\ Len(rx) > 0 /\ Len(rx') = Len(rx) - 1 /\ 1 \in DOMAIN rx
      /\ DOMAIN rx = 1 .. Len(rx) /\ DOMAIN rx' = 1 .. Len(rx') /\ rx' \in Seq(Packets)
      /\ \A i \in 1 .. Len(rx') : rx'[i] = rx[i + 1]
  BY TailFacts DEF TypeOK
<1>2. IF Downloads(host.req) THEN Stream(1 + 1, host.req.len)
      ELSE /\ 1 = Len(rx) /\ host.moved = 0
           /\ host.phase = IF Reads(host.req) THEN "dataIn" ELSE "statusIn"
  BY <1>1 DEF Stages, SetupWaits
<1>3. CASE Downloads(host.req)
  <2>1. Stream(1, host.req.len)'
    <3>1. host.req.len \in Nat /\ 1 \in Nat /\ 1 >= 1
      BY HostFields
    <3>2. Stream(1 + 1, host.req.len)
      BY <1>2, <1>3
    <3> QED
      BY <3>1, <3>2, StreamShift
  <2>2. ~Waiting'
    BY <1>1, <2>1 DEF Stream, Waiting
  <2> QED
    BY <1>3, <2>1, <2>2
<1>4. CASE ~Downloads(host.req)
  <2>1. Len(rx') = 0
    BY <1>1, <1>2, <1>4
  <2>2. rx' = <<>>
    <3>1. \A s \in Seq(Packets) : Len(s) = 0 => s = <<>>
      OBVIOUS
    <3> QED
      BY <1>1, <2>1, <3>1
  <2>3. ~Waiting'
    BY <2>2 DEF Waiting
  <2> QED
    BY <1>2, <1>4, <2>2, <2>3
<1> QED
  BY <1>3, <1>4

(* A reply ends with a short packet, or when the host has all it asked.    *)
LEMMA ReplyStage ==
  ASSUME NEW m, NEW data, NEW len \in 1 .. TransferSize, NEW short \in BOOLEAN,
         Transmits(m, dev', data, len, short, FALSE),
         ~m.stall, ~m.sent, ~m.pend, m.out.len = 0, dev'.state # "DnLoadSync",
         rx' = <<>>, host'.phase = "dataIn", host'.req \in Requests, Reads(host'.req),
         host'.moved = 0, len <= host'.req.len,
         short <=> len < host'.req.len /\ len % MaxPacket = 0
  PROVE  Sending' /\ ~dev'.pend /\ Rest' = len
<1> DEFINE chunk == Least(MaxPacket, len)
<1>1. /\ dev'.reg.rdy /\ dev'.reg.size = chunk /\ dev'.in.len = len - chunk
      /\ dev'.in.short <=> short /\ chunk = MaxPacket
      /\ dev'.in.zlp <=> len > 0
      /\ dev'.out = m.out /\ dev'.pend = m.pend /\ dev'.sent = m.sent /\ dev'.stall = m.stall
  BY DEF Transmits, SameFlags
<1>2. MaxPacket \in Nat /\ MaxPacket > 1 /\ TransferSize \in Nat /\ host'.req.len \in Nat
  BY SizesAssumption, RequestFacts
<1>3. chunk \in 1 .. MaxPacket /\ chunk <= len /\ (chunk = MaxPacket \/ chunk = len)
  BY <1>2 DEF Least
<1> HIDE DEF chunk
<1>4. Rest' = len
  BY <1>1, <1>2, <1>3 DEF Rest, InReg
<1>5. chunk = MaxPacket => (len - chunk) % MaxPacket = len % MaxPacket
  <2>1. len \in Nat /\ (chunk = MaxPacket => len >= MaxPacket)
    BY <1>2, <1>3
  <2> QED
    BY <1>2, <2>1, ModLess
<1>6. dev'.in.short => len < host'.req.len /\ dev'.in.len % MaxPacket = 0
  BY <1>1, <1>5
<1>7. len = host'.req.len \/ dev'.in.short \/ len % MaxPacket # 0 \/ dev'.reg.size < MaxPacket
  BY <1>1, <1>2, <1>3
<1>8. DataStage'
  <2>1. host'.moved + Rest' = len
    BY <1>4
  <2>2. Reads(host.req)'
    BY DEF Reads
  <2>3. dev'.in.zlp /\ ~dev'.stall /\ dev'.out.len = 0
    BY <1>1
  <2> QED
    BY <1>1, <1>2, <1>4, <1>6, <1>7, <2>1, <2>2, <2>3 DEF DataStage
<1>9. dev'.reg.size = MaxPacket \/ Drained'
  BY <1>1, <1>2, <1>3 DEF Drained
<1> QED
  BY <1>1, <1>2, <1>3, <1>4, <1>8, <1>9 DEF Sending

(* What a host uploads is staged, and not empty.                           *)
LEMMA StagedSomething ==
  ASSUME TypeOK, NEW i, Prepared(i), "UpLoad" \in dev.allow, dev.data # Unread
  PROVE  dev.staged > 0 /\ i \in DOMAIN Settings
<1> QED
  BY SettingsFacts DEF Prepared, Allowed

LEMMA StagesHandleSetup ==
  ASSUME TypeOK, TypeOK', Stages, Staged, Handles, ~misread'
  PROVE  Stages'
<1> DEFINE d == Put(dev)
           r == host.req
<1>1. /\ ~dev.sent /\ ~dev.stall /\ ~dev.reg.rdy /\ Settled
      /\ rx # <<>> /\ rx[1].setup /\ rx' = Tail(rx) /\ r \in Requests
      /\ host' = host /\ blocks' = blocks
      /\ r.name = "UpLoad" => dev.data # Unread
      /\ Refuses(d, dev', r) \/ Accepts(d, dev', r) \/ Expects(d, dev', r) \/ Replies(d, dev', r)
  BY HandleSetupEffect
<1>2. /\ ~Waiting'
      /\ Downloads(r) => Stream(1, r.len)'
      /\ ~Downloads(r) => rx' = <<>> /\ host.moved = 0
                          /\ host.phase = IF Reads(r) THEN "dataIn" ELSE "statusIn"
  BY <1>1, AfterSetup
<1>3. SetupWaits'
  BY <1>2 DEF SetupWaits, Waiting
<1>4. /\ d \in Devices /\ d.in = dev.in /\ d.out = dev.out /\ d.reg = dev.reg
      /\ SameDfu(dev, d) /\ SameFlags(dev, d)
  BY PutFacts DEF TypeOK
<1>5. ~dev.pend /\ dev.out.len = 0 /\ dev.state # "DnLoadSync"
  BY <1>1 DEF Stages, Settled
<1>6. /\ Reads(r) => r.len > 0 /\ ~Downloads(r)
      /\ Downloads(r) => ~Reads(r) /\ r.len > 0 /\ r.name = "DnLoad"
      /\ r.len \in Nat
  BY <1>1, RequestFacts
<1>7. /\ ~d.sent /\ ~d.stall /\ ~d.pend /\ ~d.reg.rdy /\ d.out.len = 0 /\ d.state # "DnLoadSync"
      /\ d.state = dev.state /\ d.staged = dev.staged /\ d.allow = dev.allow /\ d.data = dev.data
  BY <1>1, <1>4, <1>5 DEF SameDfu, SameFlags
<1> HIDE DEF d
<1>8. CASE Refuses(d, dev', r)
  <2>1. /\ dev'.stall /\ ~dev'.sent /\ ~dev'.pend /\ ~dev'.reg.rdy /\ dev'.out.len = 0
        /\ dev'.state # "DnLoadSync"
        /\ Downloads(r) => dev'.state = "Error"
    BY <1>6, <1>7, <1>8 DEF Refuses, SameDriver
  <2>2. \A i \in DOMAIN rx' : ~rx'[i].setup /\ ~Fresh(i)' => rx'[i].size > 0 /\ dev'.state = "Error"
    <3>1. CASE Downloads(r)
      <4>1. ASSUME NEW i \in DOMAIN rx' PROVE rx'[i].size > 0
        <5>1. i \in 1 .. Len(rx') /\ i \in Nat /\ i >= 1
          BY DEF TypeOK
        <5>2. Ahead(r.len, i - 1) > 0 /\ rx'[i].size = Least(MaxPacket, Ahead(r.len, i - 1))
          BY <1>1, <1>2, <3>1, <5>1 DEF Stream
        <5>3. Ahead(r.len, i - 1) \in Nat
          <6>1. i - 1 \in Nat
            BY <5>1
          <6> QED
            BY <1>6, <6>1, AheadFacts
        <5> QED
          BY <5>2, <5>3, SizesAssumption DEF Least
      <4> QED
        BY <2>1, <3>1, <4>1
    <3>2. CASE ~Downloads(r)
      BY <1>2, <3>2
    <3> QED
      BY <3>1, <3>2
  <2>3. Settled'
    BY <2>1, <2>2 DEF Settled
  <2> QED
    BY <1>3, <2>1, <2>3 DEF Stages
<1>9. CASE Accepts(d, dev', r)
  <2>1. /\ ~dev'.stall /\ ~dev'.sent /\ ~dev'.pend /\ dev'.reg.rdy /\ dev'.out.len = 0
        /\ dev'.in.len = 0 /\ ~dev'.in.short /\ ~dev'.in.zlp
    BY <1>7, <1>9 DEF Accepts, Acks, SameFlags
  <2>2. dev'.state # "DnLoadSync" /\ ~Reads(r) /\ ~Downloads(r)
    BY <1>7, <1>9 DEF Accepts
  <2>3. rx' = <<>> /\ host'.phase = "statusIn" /\ host'.req = r
    BY <1>1, <1>2, <2>2 DEF r
  <2>4. AckReady'
    BY <1>1, <2>1, <2>2, <2>3 DEF AckReady, AckStage, Drained
  <2> QED
    BY <1>3, <2>1, <2>4 DEF Stages
<1>10. CASE Expects(d, dev', r)
  <2>1. /\ ~dev'.stall /\ ~dev'.sent /\ ~dev'.pend /\ ~dev'.reg.rdy /\ dev'.out.len = r.len
        /\ dev'.out.zlp /\ dev'.state = "DnLoadSync" /\ Downloads(r)
    BY <1>7, <1>10 DEF Expects, SameFlags
  <2>2. host'.req = r /\ Stream(1, dev.out.len)'
    <3>1. host'.req = r /\ r.len = dev'.out.len /\ host'.req.len = dev'.out.len
      BY <1>1, <2>1
    <3>2. Stream(1, r.len)'
      BY <1>2, <2>1
    <3> QED
      BY <3>1, <3>2 DEF Stream
  <2>3. Receiving'
    BY <1>1, <1>6, <2>1, <2>2 DEF Receiving
  <2> QED
    BY <1>3, <2>1, <2>3 DEF Stages
<1>11. CASE Replies(d, dev', r)
  <2>1. Reads(r) /\ rx' = <<>> /\ host'.phase = "dataIn" /\ host'.req = r /\ host'.moved = 0
    BY <1>1, <1>2, <1>6, <1>11 DEF r, Replies
  <2>2. 1 % MaxPacket = 1
    BY SizesAssumption
  <2>3. 1 \in 1 .. TransferSize
    BY SizesAssumption
  <2>4. PICK m \in Devices :
       /\ m.pool = d.pool /\ m.out = d.out /\ SameFlags(d, m)
       /\ \/ /\ r.name = "UpLoad" /\ dev'.state = "UpLoadIdle" /\ r.len <= TransferSize
             /\ "UpLoad" \in d.allow
             /\ LET len == Least(d.staged, r.len)
                IN  Transmits(m, dev', d.data, len, len < r.len /\ len % MaxPacket = 0, FALSE)
          \/ /\ dev'.state # "DnLoadSync"
             /\ \E data : Transmits(m, dev', data, 1, FALSE, FALSE)
    BY <1>7, <1>11 DEF Replies
  <2>5. ~m.stall /\ ~m.sent /\ ~m.pend /\ m.out.len = 0
    BY <1>7, <2>4 DEF SameFlags
  <2>6. CASE r.name = "UpLoad" /\ dev'.state = "UpLoadIdle" /\ r.len <= TransferSize
             /\ "UpLoad" \in d.allow
             /\ LET len == Least(d.staged, r.len)
                IN  Transmits(m, dev', d.data, len, len < r.len /\ len % MaxPacket = 0, FALSE)
    <3> DEFINE len == Least(d.staged, r.len)
               short == len < r.len /\ len % MaxPacket = 0
    <3>1. Waiting
      BY <1>1 DEF Waiting, TypeOK
    <3>2. dev.staged > 0 /\ dev.staged \in 0 .. TransferSize
      BY <1>1, <1>7, <2>6, <3>1, StagedSomething, DeviceFields DEF Staged, r, TypeOK
    <3>3. len \in 1 .. TransferSize /\ len <= r.len
      BY <1>6, <1>7, <2>1, <2>6, <3>2, SizesAssumption DEF Least
    <3>4. Transmits(m, dev', d.data, len, short, FALSE)
      BY <2>6
    <3>5. short \in BOOLEAN /\ (short <=> len < r.len /\ len % MaxPacket = 0)
      OBVIOUS
    <3> HIDE DEF len, short
    <3>6. Sending' /\ ~dev'.pend
      BY <1>1, <2>1, <2>5, <2>6, <3>3, <3>4, <3>5, ReplyStage
    <3> QED
      BY <1>3, <3>6 DEF Stages
  <2>7. CASE dev'.state # "DnLoadSync" /\ \E data : Transmits(m, dev', data, 1, FALSE, FALSE)
    <3>1. PICK data : Transmits(m, dev', data, 1, FALSE, FALSE)
      BY <2>7
    <3> DEFINE short == FALSE
    <3>2. short \in BOOLEAN /\ (short <=> 1 < r.len /\ 1 % MaxPacket = 0)
      BY <2>2
    <3>3. Transmits(m, dev', data, 1, short, FALSE)
      BY <3>1
    <3>4. 1 <= r.len
      BY <1>6, <2>1
    <3> HIDE DEF short
    <3>5. Sending' /\ ~dev'.pend
      BY <1>1, <2>1, <2>3, <2>5, <2>7, <3>2, <3>3, <3>4, ReplyStage
    <3> QED
      BY <1>3, <3>5 DEF Stages
  <2> QED
    BY <2>4, <2>6, <2>7
<1> QED
  BY <1>1, <1>8, <1>9, <1>10, <1>11

(* A data packet is taken from before a SETUP packet.                      *)
LEMMA SetupWaitsShift ==
  ASSUME TypeOK, SetupWaits, rx # <<>>, ~rx[1].setup, rx' = Tail(rx), host' = host,
         blocks' = blocks, dev'.stall = dev.stall, dev'.reg.rdy = dev.reg.rdy
  PROVE  /\ SetupWaits' /\ (Waiting' <=> Waiting)
         /\ \A i \in DOMAIN rx' : i + 1 \in DOMAIN rx /\ rx'[i] = rx[i + 1] /\ (Fresh(i)' <=> Fresh(i + 1))
<1>1. /\ Len(rx) \in Nat /\ Len(rx) > 0 /\ Len(rx') = Len(rx) - 1
      /\ DOMAIN rx = 1 .. Len(rx) /\ DOMAIN rx' = 1 .. Len(rx')
      /\ \A i \in 1 .. Len(rx') : rx'[i] = rx[i + 1]
  BY TailFacts DEF TypeOK
<1>2. ASSUME NEW i \in DOMAIN rx'
      PROVE  /\ i + 1 \in DOMAIN rx /\ rx'[i] = rx[i + 1]
             /\ Fresh(i)' <=> Fresh(i + 1)
  <2>1. i \in 1 .. Len(rx') /\ i + 1 \in DOMAIN rx /\ i \in Nat /\ i <= Len(rx')
    BY <1>1
  <2>2. ASSUME NEW j \in 1 .. (i - 1), rx'[j].setup PROVE Fresh(i + 1)
    <3>1. j + 1 \in 1 .. ((i + 1) - 1) /\ j \in 1 .. Len(rx')
      BY <1>1, <2>1
    <3> QED
      BY <1>1, <2>2, <3>1 DEF Fresh
  <2>3. ASSUME NEW j \in 1 .. ((i + 1) - 1), rx[j].setup PROVE Fresh(i)'
    <3>1. j # 1 /\ j \in Nat
      BY <2>1, <2>3
    <3>2. j - 1 \in 1 .. (i - 1) /\ j - 1 \in 1 .. Len(rx') /\ (j - 1) + 1 = j
      BY <1>1, <2>1, <3>1
    <3> QED
      BY <1>1, <2>3, <3>2 DEF Fresh
  <2> QED
    BY <1>1, <2>1, <2>2, <2>3 DEF Fresh
<1>3. Waiting' <=> Waiting
  <2>1. ASSUME NEW i \in DOMAIN rx, rx[i].setup PROVE Waiting'
    <3>1. i # 1 /\ i \in 1 .. Len(rx)
      BY <1>1, <2>1
    <3>2. i - 1 \in DOMAIN rx' /\ (i - 1) + 1 = i
      BY <1>1, <3>1
    <3> QED
      BY <1>1, <2>1, <3>2 DEF Waiting
  <2> QED
    BY <1>2, <2>1 DEF Waiting
<1>4. ASSUME NEW i \in DOMAIN rx', rx'[i].setup
      PROVE  /\ rx'[i].req = host'.req /\ host'.req \in Requests
             /\ ~dev'.stall /\ ~dev'.reg.rdy
             /\ IF Downloads(host'.req) THEN Stream(i + 1, host.req.len)'
                ELSE /\ i = Len(rx') /\ host'.moved = 0
                     /\ host'.phase = IF Reads(host'.req) THEN "dataIn" ELSE "statusIn"
  <2>1. i + 1 \in DOMAIN rx /\ rx[i + 1].setup /\ rx'[i] = rx[i + 1]
    BY <1>2, <1>4
  <2>2. /\ rx[i + 1].req = host.req /\ host.req \in Requests
        /\ ~dev.stall /\ ~dev.reg.rdy
        /\ IF Downloads(host.req) THEN Stream((i + 1) + 1, host.req.len)
           ELSE /\ i + 1 = Len(rx) /\ host.moved = 0
                /\ host.phase = IF Reads(host.req) THEN "dataIn" ELSE "statusIn"
    BY <2>1 DEF SetupWaits
  <2>3. CASE Downloads(host.req)
    <3>1. i + 1 \in Nat /\ i + 1 >= 1 /\ host.req.len \in Nat
      BY <1>1, HostFields
    <3>2. Stream((i + 1) + 1, host.req.len)
      BY <2>2, <2>3
    <3>3. Stream(i + 1, host.req.len)'
      BY <3>1, <3>2, StreamShift
    <3> QED
      BY <2>1, <2>2, <2>3, <3>3
  <2>4. CASE ~Downloads(host.req)
    <3>1. i = Len(rx')
      BY <1>1, <2>2, <2>4
    <3> QED
      BY <2>1, <2>2, <2>4, <3>1
  <2> QED
    BY <2>3, <2>4
<1>5. SetupWaits'
  BY <1>4 DEF SetupWaits
<1> QED
  BY <1>2, <1>3, <1>5

LEMMA StagesHandleOut ==
  ASSUME TypeOK, TypeOK', Stages, HandleOut
  PROVE  Stages'
<1>1. /\ ~dev.sent /\ rx # <<>> /\ ~rx[1].setup /\ rx' = Tail(rx)
      /\ host' = host /\ blocks' = blocks
      /\ \/ Settled /\ Drops
         \/ AwaitsZero /\ Completes
         \/ Receiving /\ (TakesMore \/ TakesLast)
  BY HandleOutEffect
<1>2. /\ Len(rx) \in Nat /\ Len(rx) > 0 /\ Len(rx') = Len(rx) - 1
      /\ DOMAIN rx = 1 .. Len(rx) /\ DOMAIN rx' = 1 .. Len(rx') /\ rx' \in Seq(Packets)
      /\ \A i \in 1 .. Len(rx') : rx'[i] = rx[i + 1]
  BY <1>1, TailFacts DEF TypeOK
<1>3. SetupWaits
  BY DEF Stages
<1>4. CASE Settled /\ Drops
  <2>1. /\ ~dev'.sent /\ ~dev'.pend /\ ~dev'.reg.rdy /\ dev'.out.len = 0
        /\ dev'.stall = dev.stall /\ dev'.state = "Error" /\ dev'.reg.rdy = dev.reg.rdy
    BY <1>4 DEF Settled, Drops
  <2>2. /\ SetupWaits' /\ (Waiting' <=> Waiting)
        /\ \A i \in DOMAIN rx' : i + 1 \in DOMAIN rx /\ rx'[i] = rx[i + 1] /\ (Fresh(i)' <=> Fresh(i + 1))
    BY <1>1, <1>3, <2>1, SetupWaitsShift
  <2>3. \A i \in DOMAIN rx' : ~rx'[i].setup /\ ~Fresh(i)' => rx'[i].size > 0
    BY <1>4, <2>2 DEF Settled
  <2>4. Settled'
    BY <1>1, <1>4, <2>1, <2>2, <2>3 DEF Settled
  <2> QED
    BY <2>1, <2>2, <2>4 DEF Stages
<1>5. CASE AwaitsZero /\ Completes
  <2>1. /\ ~dev.stall /\ ~dev.reg.rdy /\ dev.out.len = 0 /\ dev.state # "DnLoadSync" /\ ZeroBefore
    BY <1>1, <1>5 DEF AwaitsZero, StatusStage
  <2>2. /\ ~dev'.sent /\ ~dev'.pend /\ ~dev'.reg.rdy /\ dev'.out.len = 0
        /\ dev'.stall = dev.stall /\ dev'.state # "DnLoadSync" /\ dev'.reg.rdy = dev.reg.rdy
    BY <1>5, <2>1 DEF Completes
  <2>3. /\ SetupWaits' /\ (Waiting' <=> Waiting)
    BY <1>1, <1>3, <2>2, SetupWaitsShift
  <2>4. CASE Waiting
    <3>1. Len(rx) > 1 /\ rx[2].setup
      BY <2>1, <2>4 DEF ZeroBefore
    <3>2. 1 \in 1 .. Len(rx') /\ rx'[1] = rx[2]
      <4>1. 1 \in 1 .. Len(rx') /\ 1 + 1 = 2
        BY <1>2, <3>1
      <4> QED
        BY <1>2, <4>1
    <3>3. ASSUME NEW i \in DOMAIN rx', ~rx'[i].setup PROVE Fresh(i)'
      <4>1. i # 1 /\ i \in 1 .. Len(rx')
        BY <1>2, <3>1, <3>2, <3>3
      <4>2. 1 \in 1 .. (i - 1)
        BY <1>2, <4>1
      <4> QED
        BY <3>1, <3>2, <4>2 DEF Fresh
    <3>4. Settled'
      BY <2>2, <2>3, <2>4, <3>3 DEF Settled
    <3> QED
      BY <2>2, <2>3, <3>4 DEF Stages
  <2>5. CASE ~Waiting
    <3>1. Len(rx) = 1 /\ host'.phase = "idle"
      BY <1>1, <2>1, <2>5 DEF ZeroBefore
    <3>2. DOMAIN rx' = {}
      BY <1>2, <3>1
    <3>3. Settled'
      BY <2>2, <3>1, <3>2 DEF Settled
    <3> QED
      BY <2>2, <2>3, <3>3 DEF Stages
  <2> QED
    BY <2>4, <2>5
<1>6. CASE Receiving /\ TakesMore
  <2>1. /\ ~dev.stall /\ ~dev.reg.rdy /\ Downloads(host.req) /\ host.req \in Requests
        /\ dev.state = "DnLoadSync" /\ dev.out.zlp /\ Stream(1, dev.out.len)
    BY <1>6 DEF Receiving
  <2>2. /\ ~dev'.stall /\ ~dev'.sent /\ ~dev'.pend /\ ~dev'.reg.rdy /\ dev'.state = "DnLoadSync"
        /\ dev'.out.zlp /\ dev'.out.len = dev.out.len - MaxPacket /\ dev.out.len > MaxPacket
        /\ dev'.stall = dev.stall /\ dev'.reg.rdy = dev.reg.rdy
    BY <1>6, <2>1 DEF TakesMore
  <2>3. SetupWaits'
    BY <1>1, <1>3, <2>2, SetupWaitsShift
  <2>4. dev.out.len \in Nat /\ MaxPacket \in Nat
    BY DeviceFields, SizesAssumption DEF TypeOK
  <2>5. Stream(1, dev.out.len)'
    <3> DEFINE l == dev.out.len
               k == l - MaxPacket
    <3>1. l \in Nat /\ l > MaxPacket /\ Stream(1, l)
      BY <2>1, <2>2, <2>4
    <3>2. \A left \in Nat : left > MaxPacket /\ Stream(1, left) =>
            /\ \A i \in 1 .. Len(rx') :
                 /\ ~rx'[i].setup /\ rx'[i].data = Block'
                 /\ Ahead(left - MaxPacket, i - 1) > 0
                 /\ rx'[i].size = Least(MaxPacket, Ahead(left - MaxPacket, i - 1))
            /\ host'.req.len - host'.moved = Ahead(left - MaxPacket, Len(rx') + 1 - 1)
            /\ host'.phase = IF host'.moved < host'.req.len THEN "dataOut" ELSE "statusIn"
      <4>1. ASSUME NEW left \in Nat, left > MaxPacket, Stream(1, left)
            PROVE  Stream(1, left - MaxPacket)'
        BY <1>1, <4>1, StreamTake
      <4> QED
        BY <4>1 DEF Stream
    <3>3. dev'.out.len = dev.out.len - MaxPacket
      BY <2>2
    <3> QED
      BY <3>1, <3>2, <3>3 DEF Stream
  <2>6. Receiving'
    BY <1>1, <2>1, <2>2, <2>4, <2>5 DEF Receiving
  <2> QED
    BY <2>2, <2>3, <2>6 DEF Stages
<1>7. CASE Receiving /\ TakesLast
  <2>1. /\ ~dev.stall /\ Downloads(host.req) /\ host.req \in Requests
        /\ dev.state = "DnLoadSync" /\ Stream(1, dev.out.len)
    BY <1>7 DEF Receiving
  <2>2. /\ ~dev'.stall /\ ~dev'.sent /\ ~dev'.pend /\ dev'.reg.rdy /\ dev'.state = "DnLoadSync"
        /\ dev'.out.len = 0 /\ dev'.in.len = 0 /\ ~dev'.in.short /\ ~dev'.in.zlp
        /\ dev'.data = Block /\ dev.out.len <= MaxPacket
    BY <1>7, <2>1 DEF TakesLast
  <2>3. dev.out.len \in Nat
    BY DeviceFields, SizesAssumption DEF TypeOK
  <2>4. rx' = <<>> /\ host.phase = "statusIn"
    BY <1>1, <2>1, <2>2, <2>3, StreamLast
  <2>5. ~Reads(host.req)
    BY <2>1, RequestFacts
  <2>6. AckReady'
    BY <1>1, <2>1, <2>2, <2>4, <2>5 DEF AckReady, AckStage, Drained, Block
  <2>7. SetupWaits'
    BY <2>4 DEF SetupWaits
  <2> QED
    BY <2>2, <2>6, <2>7 DEF Stages
<1> QED
  BY <1>1, <1>4, <1>5, <1>6, <1>7

LEMMA StagesSendSetup ==
  ASSUME TypeOK, TypeOK', Stages, Polite, SendSetup
  PROVE  Stages' /\ (SentLast => SentLast') /\ (AwaitsZero => AwaitsZero')
<1>1. PICK r \in Requests : Started(r)
  BY SendSetupEffect
<1> DEFINE p == [setup |-> TRUE, req |-> r, size |-> 0, data |-> NoData]
<1>2. ~Waiting /\ ~dev.reg.rdy /\ host.phase = "idle" /\ ~dev.pend
  BY <1>1, IdleStages DEF Started, Stages
<1>3. rx' = Append(rx, p) /\ p.setup /\ p.req = r
  BY <1>1 DEF Started
<1> HIDE DEF p
<1>4. /\ Len(rx) \in Nat /\ rx \in Seq(Packets)
      /\ DOMAIN rx = 1 .. Len(rx) /\ DOMAIN rx' = 1 .. (Len(rx) + 1) /\ Len(rx') = Len(rx) + 1
      /\ rx'[Len(rx) + 1] = p
      /\ \A i \in 1 .. Len(rx) : rx'[i] = rx[i]
      /\ rx' # <<>>
  <2>1. rx \in Seq(Packets) /\ Len(rx) \in Nat
    BY DEF TypeOK
  <2> QED
    BY <1>3, <2>1
<1>5. /\ dev'.stall = FALSE /\ ~dev'.pend /\ ~dev'.reg.rdy /\ dev'.in = dev.in /\ dev'.out = dev.out
      /\ dev'.state = dev.state /\ dev'.data = dev.data /\ dev'.sent = dev.sent
      /\ host'.req = r /\ host'.moved = 0 /\ host'.block = host.block /\ handed' = handed
      /\ host'.phase = (IF Downloads(r) THEN "dataOut" ELSE IF Reads(r) THEN "dataIn" ELSE "statusIn")
  <2>1. dev' \in Devices /\ ~dev'.stall
    BY <1>1 DEF Started
  <2>2. dev'.stall = FALSE
    BY <2>1, DeviceFields
  <2> QED
    BY <1>1, <2>2 DEF Started, SameDfu
<1>6. Waiting'
  BY <1>3, <1>4 DEF Waiting
<1>7. ASSUME NEW i \in DOMAIN rx', rx'[i].setup
      PROVE  i = Len(rx) + 1 /\ rx'[i].req = r
  BY <1>2, <1>3, <1>4, <1>7 DEF Waiting
<1>8. SetupWaits'
  <2>1. CASE Downloads(r)
    <3>3. PICK n \in Nat : n = Len(rx) + 1
      BY <1>4
    <3>1. /\ n \in Nat /\ Len(rx') = n /\ (n + 1) .. n = {} /\ n + 1 - (n + 1) = 0
          /\ Len(rx') + 1 - (n + 1) = 0
      BY <1>4, <3>3
    <3>2. /\ r.len \in Nat /\ r.len > 0 /\ Ahead(r.len, 0) = r.len
      BY <1>1, <2>1, RequestFacts, AheadFacts
    <3>a. \A i \in DOMAIN rx' : rx'[i].setup => i = n /\ rx'[i].req = r
      <4>1. ASSUME NEW i \in DOMAIN rx', rx'[i].setup PROVE i = n /\ rx'[i].req = r
        BY <1>7, <3>3, <4>1
      <4> QED
        BY <4>1
    <3>4. host'.req.len - host'.moved = Ahead(host'.req.len, Len(rx') + 1 - (n + 1))
      <4>1. host'.req.len = r.len /\ host'.moved = 0 /\ r.len - 0 = r.len
        BY <1>5, <3>2
      <4>2. Ahead(r.len, Len(rx') + 1 - (n + 1)) = r.len
        BY <3>1, <3>2
      <4> QED
        BY <4>1, <4>2
    <3>5. host'.phase = IF host'.moved < host'.req.len THEN "dataOut" ELSE "statusIn"
      BY <1>5, <2>1, <3>2
    <3>6. /\ \A i \in (n + 1) .. Len(rx') :
               /\ ~rx'[i].setup /\ rx'[i].data = Block'
               /\ Ahead(host'.req.len, i - (n + 1)) > 0
               /\ rx'[i].size = Least(MaxPacket, Ahead(host'.req.len, i - (n + 1)))
      BY <3>1
    <3>7. Stream(n + 1, host.req.len)'
      BY <3>4, <3>5, <3>6 DEF Stream
    <3>8. ASSUME NEW i \in DOMAIN rx', rx'[i].setup
          PROVE  /\ rx'[i].req = host'.req /\ host'.req \in Requests
                 /\ ~dev'.stall /\ ~dev'.reg.rdy
                 /\ Downloads(host'.req) /\ Stream(i + 1, host.req.len)'
      <4>1. i = n
        BY <3>a, <3>8
      <4> QED
        BY <1>1, <1>5, <2>1, <3>a, <3>7, <3>8, <4>1
    <3> QED
      BY <3>8 DEF SetupWaits
  <2>2. CASE ~Downloads(r)
    BY <1>1, <1>4, <1>5, <1>7, <2>2 DEF SetupWaits
  <2> QED
    BY <2>1, <2>2
<1>9. ASSUME Settled PROVE Stages'
  <2>1. \A i \in DOMAIN rx' : ~rx'[i].setup /\ ~Fresh(i)' => rx'[i].size > 0 /\ dev'.state = "Error"
    <3>1. ASSUME NEW i \in DOMAIN rx', ~rx'[i].setup, ~Fresh(i)'
          PROVE  rx'[i].size > 0 /\ dev'.state = "Error"
      <4>1. i \in DOMAIN rx /\ rx'[i] = rx[i] /\ i \in Nat /\ i <= Len(rx)
        BY <1>3, <1>4, <3>1
      <4>2. ~Fresh(i)
        <5>1. ASSUME NEW j \in 1 .. (i - 1), rx[j].setup PROVE FALSE
          <6>1. j \in 1 .. Len(rx)
            BY <1>4, <4>1
          <6> QED
            BY <1>4, <3>1, <5>1, <6>1 DEF Fresh
        <5> QED
          BY <5>1 DEF Fresh
      <4> QED
        BY <1>5, <1>9, <3>1, <4>1, <4>2 DEF Settled
    <3> QED
      BY <3>1
  <2>2. Settled'
    BY <1>5, <1>6, <1>9, <2>1 DEF Settled
  <2> QED
    BY <1>5, <1>8, <2>2 DEF Stages
<1>10. ASSUME StatusStage PROVE Stages' /\ (SentLast => SentLast') /\ (AwaitsZero => AwaitsZero')
  <2>1. ZeroBefore
    BY <1>2, <1>10 DEF StatusStage
  <2>2. Len(rx) = 1 /\ ~rx[1].setup /\ rx[1].size = 0
    BY <1>2, <2>1 DEF ZeroBefore
  <2>3. /\ rx' # <<>> /\ ~rx'[1].setup /\ rx'[1].size = 0
        /\ Len(rx') > 1 /\ rx'[2].setup
    <3>1. 1 \in 1 .. Len(rx) /\ Len(rx) + 1 = 2
      BY <2>2
    <3> QED
      BY <1>3, <1>4, <2>2, <3>1
  <2>4. ZeroBefore'
    BY <1>6, <2>3 DEF ZeroBefore
  <2>5. StatusStage'
    BY <1>5, <1>10, <2>4 DEF StatusStage, Drained
  <2>6. SentLast => SentLast'
    BY <1>5, <2>5 DEF SentLast
  <2>7. AwaitsZero => AwaitsZero'
    BY <1>5, <2>5 DEF AwaitsZero
  <2>8. SentLast \/ AwaitsZero => Stages'
    BY <1>5, <1>8, <2>6, <2>7 DEF Stages
  <2>9. ~Sending /\ ~SentMore /\ ~Receiving /\ ~AckReady /\ (Settled \/ AckSent => Stages')
    <3>1. ~Sending /\ ~SentMore /\ ~AckReady
      BY <1>2 DEF Sending, SentMore, DataStage, AckReady
    <3>2. ~Receiving
      BY <1>2 DEF Receiving, Stream
    <3>3. ~AckSent
      BY <1>2, <2>1 DEF AckSent, NoneBefore, ZeroBefore
    <3> QED
      BY <1>9, <3>1, <3>2, <3>3
  <2> QED
    BY <2>6, <2>7, <2>8, <2>9 DEF Stages
<1>11. ASSUME AckSent PROVE Stages'
  <2>1. rx = <<>>
    <3>1. rx = <<>> \/ (Len(rx) > 0 /\ rx[1].setup)
      <4>1. rx # <<>> => Len(rx) > 0
        BY TailFacts DEF TypeOK
      <4> QED
        BY <1>11, <4>1 DEF AckSent, NoneBefore
    <3> QED
      BY <1>2, <1>4, <3>1 DEF Waiting
  <2>2. NoneBefore'
    BY <1>3, <1>4, <2>1 DEF NoneBefore
  <2>3. AckSent'
    BY <1>5, <1>6, <1>11, <2>2 DEF AckSent, AckStage, Drained
  <2> QED
    BY <1>5, <1>8, <2>3 DEF Stages
<1>12. ~Sending /\ ~SentMore /\ ~Receiving /\ ~AckReady
  <2>1. ~Sending /\ ~SentMore /\ ~AckReady
    BY <1>2 DEF Sending, SentMore, DataStage, AckReady
  <2>2. ~Receiving
    BY <1>2 DEF Receiving, Stream
  <2> QED
    BY <2>1, <2>2
<1>13. Settled \/ StatusStage \/ AckSent
  BY <1>12 DEF Stages, SentLast, AwaitsZero
<1>14. SentLast \/ AwaitsZero => StatusStage
  BY DEF SentLast, AwaitsZero
<1> QED
  BY <1>9, <1>10, <1>11, <1>13, <1>14

LEMMA StagesDataIn ==
  ASSUME TypeOK, TypeOK', Stages, DataIn
  PROVE  Stages'
<1>1. /\ Sending /\ TakenReg /\ host.phase = "dataIn"
      /\ host'.moved = host.moved + dev.reg.size
      /\ host'.phase = (IF host.moved + dev.reg.size >= host.req.len \/ dev.reg.size < MaxPacket
                          THEN "statusOut" ELSE "dataIn")
      /\ host'.req = host.req /\ rx' = rx
  BY DataInEffect
<1>2. /\ dev.in.len \in Nat /\ dev.reg.size \in Nat /\ dev.in.short \in BOOLEAN
      /\ host.moved \in Nat /\ host.req.len \in Nat
      /\ MaxPacket \in Nat /\ MaxPacket > 1
  BY HostFields, DeviceFields, SizesAssumption DEF TypeOK
<1>3. /\ dev'.sent /\ ~dev'.reg.rdy /\ dev'.reg.size = dev.reg.size /\ dev'.in = dev.in
      /\ dev'.out = dev.out /\ dev'.state = dev.state /\ dev'.pend = dev.pend /\ dev'.stall = dev.stall
  BY <1>1 DEF TakenReg, SameDfu
<1>4. /\ dev.reg.rdy /\ ~dev.stall /\ rx = <<>> /\ host.req \in Requests /\ Reads(host.req)
      /\ dev.in.zlp /\ dev.out.len = 0 /\ dev.state # "DnLoadSync"
      /\ dev.reg.size <= MaxPacket
      /\ dev.reg.size = MaxPacket \/ Drained
  BY <1>1 DEF Sending, DataStage
<1>5. Rest = dev.reg.size + dev.in.len /\ Rest' = dev.in.len
  BY <1>2, <1>3, <1>4 DEF Rest, InReg
<1>6. /\ host.moved + (dev.reg.size + dev.in.len) <= host.req.len
      /\ dev.in.short => host.moved + (dev.reg.size + dev.in.len) < host.req.len
                         /\ dev.in.len % MaxPacket = 0
      /\ \/ host.moved + (dev.reg.size + dev.in.len) = host.req.len
         \/ dev.in.short
         \/ (dev.reg.size + dev.in.len) % MaxPacket # 0
         \/ dev.reg.size < MaxPacket
  BY <1>1, <1>5 DEF Sending, DataStage
<1>7. ~dev.pend /\ ~dev'.pend
  BY <1>3 DEF Stages
<1>8. SetupWaits'
  BY <1>1, <1>4 DEF SetupWaits
<1>9. CASE Drained
  <2>1. dev.in.len = 0 /\ ~dev.in.short
    BY <1>9 DEF Drained
  <2>2. dev.reg.size + dev.in.len = dev.reg.size /\ MaxPacket % MaxPacket = 0
    BY <1>2, <2>1
  <2>3. host.moved + dev.reg.size = host.req.len \/ dev.reg.size < MaxPacket
    <3>1. dev.reg.size % MaxPacket # 0 => dev.reg.size < MaxPacket
      BY <1>2, <1>4, <2>2
    <3> QED
      BY <1>6, <2>1, <2>2, <3>1
  <2>4. host'.phase = "statusOut"
    BY <1>1, <1>2, <2>3
  <2>5. StatusStage'
    BY <1>1, <1>3, <1>4, <2>1, <2>4 DEF StatusStage, Drained
  <2>6. SentLast'
    BY <1>3, <1>4, <2>5 DEF SentLast
  <2> QED
    BY <1>7, <1>8, <2>6 DEF Stages
<1>10. CASE ~Drained
  <2>1. dev.reg.size = MaxPacket /\ (dev.in.len > 0 \/ dev.in.short)
    BY <1>2, <1>4, <1>10 DEF Drained
  <2>2. host.moved + dev.reg.size < host.req.len
    BY <1>2, <1>6, <2>1
  <2>3. host'.phase = "dataIn"
    BY <1>1, <1>2, <2>1, <2>2
  <2>4. (dev.reg.size + dev.in.len) % MaxPacket = dev.in.len % MaxPacket
    <3> DEFINE a == dev.reg.size + dev.in.len
    <3>1. a \in Nat /\ a >= MaxPacket /\ a - MaxPacket = dev.in.len
      BY <1>2, <2>1
    <3> HIDE DEF a
    <3>2. (a - MaxPacket) % MaxPacket = a % MaxPacket
      BY <1>2, <3>1, ModLess
    <3> QED
      BY <3>1, <3>2 DEF a
  <2>5. host'.moved + Rest' = host.moved + (dev.reg.size + dev.in.len)
    BY <1>1, <1>2, <1>5
  <2>6. DataStage'
    BY <1>1, <1>2, <1>3, <1>4, <1>5, <1>6, <2>1, <2>3, <2>4, <2>5 DEF DataStage
  <2>7. ~Drained'
    BY <1>3, <1>10 DEF Drained
  <2>8. SentMore'
    BY <1>3, <2>6, <2>7 DEF SentMore
  <2> QED
    BY <1>7, <1>8, <2>8 DEF Stages
<1> QED
  BY <1>9, <1>10

(* A block the host has not sent yet is not one that was handed over.      *)
LEMMA OlderFacts ==
  ASSUME TypeOK
  PROVE  /\ \A data : Older(data) => data # Block
         /\ Block # NoData
<1>1. blocks \in Nat
  BY SizesAssumption DEF TypeOK
<1>2. \A n : <<"block", n>> # <<"none">>
  OBVIOUS
<1>3. \A n, k : <<"block", n>> = <<"block", k>> => n = k
  OBVIOUS
<1> QED
  BY <1>1, <1>2, <1>3 DEF Older, Block, NoData

LEMMA StagesStatusIn ==
  ASSUME TypeOK, TypeOK', Stages, BlocksInOrder, StatusIn
  PROVE  Stages'
<1>1. /\ AckReady /\ TakenReg /\ Over(NoData, TRUE, host.asked, AckedBlock)
      /\ UNCHANGED <<rx, running, blocks, handed>>
  BY StatusInEffect
<1>2. /\ dev'.sent /\ ~dev'.reg.rdy /\ dev'.in = dev.in /\ dev'.data = dev.data
      /\ dev'.out = dev.out /\ dev'.state = dev.state /\ dev'.pend = dev.pend /\ dev'.stall = dev.stall
      /\ host'.phase = "idle" /\ host'.block = AckedBlock
  BY <1>1 DEF TakenReg, SameDfu, Over
<1>3. /\ AckStage /\ rx = <<>>
      /\ dev.state = "DnLoadSync" => Downloads(host.req) /\ dev.data = Block
  BY <1>1 DEF AckReady
<1>4. AckStage' /\ NoneBefore'
  BY <1>1, <1>2, <1>3 DEF AckStage, Drained, NoneBefore
<1>5. dev.state = "DnLoadSync" => dev.data = AckedBlock /\ handed.data # AckedBlock
  <2>1. ASSUME dev.state = "DnLoadSync" PROVE dev.data = AckedBlock /\ handed.data # AckedBlock
    <3>1. Downloads(host.req) /\ dev.data = Block
      BY <1>3, <2>1
    <3>2. Older(handed.data)
      BY <3>1 DEF BlocksInOrder
    <3> QED
      BY <3>1, <3>2, OlderFacts DEF AckedBlock
  <2> QED
    BY <2>1
<1>6. AckSent'
  BY <1>1, <1>2, <1>4, <1>5 DEF AckSent
<1>7. SetupWaits'
  BY <1>1, <1>3 DEF SetupWaits
<1> QED
  BY <1>2, <1>6, <1>7 DEF Stages

LEMMA StagesStatusOut ==
  ASSUME TypeOK, TypeOK', Stages, StatusOut
  PROVE  Stages' /\ (SentLast => SentLast') /\ (AwaitsZero => AwaitsZero')
<1> DEFINE p == [setup |-> FALSE, req |-> NoRequest, size |-> 0, data |-> NoData]
<1>1. /\ SentLast \/ AwaitsZero
      /\ rx = <<>> /\ Supplied /\ ~dev.stall
      /\ rx' = Append(rx, p)
      /\ Over(host.data, TRUE, host.asked, host.block)
  BY StatusOutEffect
<1>2. p.size = 0 /\ ~p.setup
  OBVIOUS
<1> HIDE DEF p
<1>3. rx' = <<p>> /\ Len(rx') = 1 /\ rx'[1] = p /\ rx' # <<>> /\ DOMAIN rx' = {1}
  <2>1. rx' = <<p>>
    BY <1>1
  <2> HIDE DEF p
  <2> QED
    BY <2>1
<1>4. /\ dev'.in = dev.in /\ dev'.out = dev.out /\ dev'.reg = dev.reg /\ dev'.state = dev.state
      /\ dev'.pend = dev.pend /\ dev'.sent = dev.sent /\ dev'.stall = dev.stall
      /\ host'.phase = "idle"
  BY <1>1 DEF Supplied, SameDfu, SameFlags, Over
<1>5. ~Waiting' /\ SetupWaits'
  BY <1>2, <1>3 DEF Waiting, SetupWaits
<1>6. ZeroBefore'
  BY <1>2, <1>3, <1>4, <1>5 DEF ZeroBefore
<1>7. StatusStage
  BY <1>1 DEF SentLast, AwaitsZero
<1>8. StatusStage'
  BY <1>4, <1>6, <1>7 DEF StatusStage, Drained
<1>9. (SentLast => SentLast') /\ (AwaitsZero => AwaitsZero')
  BY <1>4, <1>8 DEF SentLast, AwaitsZero
<1> QED
  BY <1>1, <1>4, <1>5, <1>9 DEF Stages

LEMMA StagesSeesStall ==
  ASSUME TypeOK, TypeOK', Stages, SeesStall
  PROVE  Stages'
<1>1. /\ Settled /\ ~Waiting /\ Over(NoData, FALSE, StillAskedAfterStall, host.block)
      /\ UNCHANGED <<dev, rx, running, blocks, handed>>
  BY SeesStallEffect
<1>2. host'.phase = "idle"
  BY <1>1 DEF Over
<1>3. SetupWaits'
  BY <1>1 DEF SetupWaits, Waiting
<1>4. Settled'
  BY <1>1, <1>2 DEF Settled, Fresh
<1> QED
  BY <1>1, <1>3, <1>4 DEF Stages

LEMMA StagesDataOut ==
  ASSUME TypeOK, TypeOK', Stages, DataOut
  PROVE  Stages' /\ (SentLast => SentLast') /\ (AwaitsZero => AwaitsZero')
<1>1. PICK p :
        /\ p = [setup |-> FALSE, req |-> NoRequest, size |-> Least(MaxPacket, host.req.len - host.moved),
                data |-> Block]
        /\ Supplied /\ host.phase = "dataOut" /\ ~dev.stall
        /\ rx' = Append(rx, p) /\ blocks' = blocks /\ handed' = handed
        /\ host'.req = host.req /\ host'.block = host.block
  <2>1. host.moved \in Nat /\ host \in Hosts
    BY DEF TypeOK, Hosts
  <2> QED
    BY <2>1, DataOutEffect DEF Hosts
<1>2. ~p.setup
  BY <1>1
<1>3. /\ Len(rx) \in Nat /\ rx \in Seq(Packets)
      /\ DOMAIN rx = 1 .. Len(rx) /\ DOMAIN rx' = 1 .. (Len(rx) + 1)
      /\ rx'[Len(rx) + 1] = p
      /\ \A i \in 1 .. Len(rx) : rx'[i] = rx[i]
      /\ rx' # <<>> /\ Len(rx') = Len(rx) + 1
  <2>1. rx \in Seq(Packets) /\ Len(rx) \in Nat
    BY DEF TypeOK
  <2> QED
    BY <1>1, <2>1
<1>4. /\ dev'.in = dev.in /\ dev'.out = dev.out /\ dev'.reg = dev.reg /\ dev'.state = dev.state
      /\ dev'.pend = dev.pend /\ dev'.sent = dev.sent /\ dev'.stall = dev.stall
      /\ dev'.data = dev.data
  BY <1>1 DEF Supplied, SameDfu, SameFlags
<1>5. Waiting' <=> Waiting
  BY <1>2, <1>3 DEF Waiting
<1>6. ASSUME NEW i \in DOMAIN rx', rx'[i].setup
      PROVE  /\ rx'[i].req = host'.req /\ host'.req \in Requests
             /\ ~dev'.stall /\ ~dev'.reg.rdy /\ Downloads(host'.req)
             /\ Stream(i + 1, host.req.len)'
  <2>1. i \in DOMAIN rx /\ rx'[i] = rx[i] /\ i \in 1 .. Len(rx)
    BY <1>2, <1>3, <1>6
  <2>2. /\ rx[i].req = host.req /\ host.req \in Requests
        /\ ~dev.stall /\ ~dev.reg.rdy
        /\ Downloads(host.req) /\ Stream(i + 1, host.req.len)
    BY <1>1, <1>6, <2>1 DEF Stages, SetupWaits
  <2>3. i + 1 \in Nat /\ i + 1 >= 1 /\ i + 1 <= Len(rx) + 1 /\ host.req.len \in Nat
    BY <1>3, <2>1, HostFields
  <2>4. Stream(i + 1, host.req.len)'
    <3>1. PICK l \in Nat : l = host.req.len
      BY <2>3
    <3>2. Stream(i + 1, l)
      BY <2>2, <3>1
    <3>3. Stream(i + 1, l)'
      BY <2>3, <3>2, StreamPut
    <3>4. host'.req.len = l
      BY <1>1, <3>1
    <3> QED
      BY <3>3, <3>4 DEF Stream
  <2> QED
    BY <1>1, <1>4, <2>1, <2>2, <2>4
<1>7. SetupWaits'
  BY <1>6 DEF SetupWaits
<1>8. ~Sending /\ ~SentMore /\ ~AckReady
  BY <1>1 DEF Sending, SentMore, DataStage, AckReady
<1>9. ASSUME Settled PROVE Stages'
  <2>1. Waiting
    BY <1>1, <1>9 DEF Settled
  <2>2. ASSUME NEW i \in DOMAIN rx', ~rx'[i].setup, ~Fresh(i)'
        PROVE  rx'[i].size > 0 /\ dev'.state = "Error"
    <3>1. CASE i \in DOMAIN rx
      <4>1. ~Fresh(i)
        <5>1. ASSUME NEW j \in 1 .. (i - 1), rx[j].setup PROVE FALSE
          <6>1. j \in 1 .. Len(rx)
            BY <1>3, <3>1
          <6> QED
            BY <1>3, <2>2, <5>1, <6>1 DEF Fresh
        <5> QED
          BY <5>1 DEF Fresh
      <4> QED
        BY <1>3, <1>4, <1>9, <2>2, <3>1, <4>1 DEF Settled
    <3>2. CASE i = Len(rx) + 1
      <4>1. PICK j \in DOMAIN rx : rx[j].setup
        BY <2>1 DEF Waiting
      <4>2. j \in 1 .. (i - 1) /\ rx'[j].setup
        BY <1>3, <3>2, <4>1
      <4>3. Fresh(i)'
        BY <4>2 DEF Fresh
      <4> QED
        BY <2>2, <4>3
    <3> QED
      BY <1>3, <3>1, <3>2
  <2>3. Settled'
    BY <1>4, <1>5, <1>9, <2>1, <2>2 DEF Settled
  <2> QED
    BY <1>4, <1>7, <2>3 DEF Stages
<1>10. ASSUME SentLast \/ AwaitsZero
       PROVE  Stages' /\ (SentLast => SentLast') /\ (AwaitsZero => AwaitsZero')
  <2>1. StatusStage /\ ZeroBefore
    BY <1>1, <1>10 DEF SentLast, AwaitsZero, StatusStage
  <2>2. Waiting /\ Len(rx) > 1 /\ rx[2].setup /\ ~rx[1].setup /\ rx[1].size = 0
    BY <1>1, <2>1 DEF ZeroBefore
  <2>3. 1 \in 1 .. Len(rx) /\ 2 \in 1 .. Len(rx) /\ Len(rx') > 1
    BY <1>3, <2>2
  <2>4. ZeroBefore'
    BY <1>3, <1>5, <2>2, <2>3 DEF ZeroBefore
  <2>5. StatusStage'
    BY <1>4, <2>1, <2>4 DEF StatusStage, Drained
  <2>6. (SentLast => SentLast') /\ (AwaitsZero => AwaitsZero')
    BY <1>4, <2>5 DEF SentLast, AwaitsZero
  <2> QED
    BY <1>4, <1>7, <1>10, <2>6 DEF Stages
<1>11. ASSUME Receiving PROVE Stages'
  <2>1. dev.out.len \in Nat /\ Stream(1, dev.out.len)
    BY <1>11, DeviceFields, SizesAssumption DEF Receiving, TypeOK
  <2>2. Stream(1, dev.out.len)'
    <3>1. PICK l \in Nat : l = dev.out.len
      BY <2>1
    <3>2. Stream(1, l) /\ 1 \in Nat /\ 1 >= 1 /\ 1 <= Len(rx) + 1
      BY <1>3, <2>1, <3>1
    <3>3. Stream(1, l)'
      BY <3>2, StreamPut
    <3>4. dev'.out.len = l
      BY <1>4, <3>1
    <3> QED
      BY <3>3, <3>4 DEF Stream
  <2>3. Receiving'
    BY <1>1, <1>4, <1>11, <2>2 DEF Receiving
  <2> QED
    BY <1>4, <1>7, <2>3 DEF Stages
<1>12. ASSUME AckSent PROVE Stages'
  <2>1. Waiting /\ rx # <<>> /\ rx[1].setup
    <3>1. Waiting
      BY <1>1, <1>12 DEF AckSent
    <3> QED
      BY <1>12, <3>1 DEF AckSent, NoneBefore, Waiting
  <2>2. 1 \in 1 .. Len(rx)
    <3>1. Len(rx) > 0
      BY <2>1, TailFacts DEF TypeOK
    <3> QED
      BY <1>3, <3>1
  <2>3. NoneBefore'
    BY <1>3, <2>1, <2>2 DEF NoneBefore
  <2>4. AckSent'
    BY <1>1, <1>4, <1>5, <1>12, <2>1, <2>3 DEF AckSent, AckStage, Drained
  <2> QED
    BY <1>4, <1>7, <2>4 DEF Stages
<1> QED
  BY <1>8, <1>9, <1>10, <1>11, <1>12 DEF Stages

LEMMA StagesStart ==
  ASSUME dev = Enumerated, rx = <<>>, host = IdleHost
  PROVE  Stages
<1>1. /\ ~dev.sent /\ ~dev.reg.rdy /\ ~dev.pend /\ dev.out.len = 0 /\ dev.state = "Idle"
      /\ host.phase = "idle" /\ DOMAIN rx = {}
  BY EnumeratedFacts DEF IdleHost
<1>2. Settled
  BY <1>1 DEF Settled
<1> QED
  BY <1>1, <1>2 DEF Stages, SetupWaits

LEMMA StagesReset ==
  ASSUME BusReset
  PROVE  Stages'
<1>1. dev' = Enumerated /\ rx' = <<>> /\ host' = IdleHost
  BY DEF BusReset
<1>2. /\ ~dev'.sent /\ ~dev'.reg.rdy /\ ~dev'.pend /\ dev'.out.len = 0 /\ dev'.state = "Idle"
      /\ host'.phase = "idle" /\ DOMAIN rx' = {}
  BY <1>1, EnumeratedFacts DEF IdleHost
<1>3. Settled'
  BY <1>2 DEF Settled
<1> QED
  BY <1>2, <1>3 DEF Stages, SetupWaits

LEMMA StagesStep ==
  ASSUME TypeOK, TypeOK', Stages, BlocksInOrder, Staged, Polite, [Next]_vars,
         ~misread, ~misread'
  PROVE  Stages'
<1>1. CASE UNCHANGED vars
  <2>1. dev' = dev /\ rx' = rx /\ host' = host /\ blocks' = blocks /\ handed' = handed
    BY <1>1 DEF vars
  <2>2. Waiting' = Waiting /\ (\A i \in DOMAIN rx : Fresh(i)' <=> Fresh(i)) /\ Drained' = Drained
    BY <2>1 DEF Waiting, Fresh, Drained
  <2>3. DataStage' = DataStage /\ StatusStage' = StatusStage /\ AckStage' = AckStage
    BY <2>1, <2>2 DEF DataStage, StatusStage, AckStage, ZeroBefore, Waiting, Rest, InReg, Drained
  <2>4. Settled => Settled'
    BY <2>1, <2>2 DEF Settled
  <2>5. (Sending => Sending') /\ (SentMore => SentMore') /\ (SentLast => SentLast')
        /\ (AwaitsZero => AwaitsZero')
    BY <2>1, <2>2, <2>3 DEF Sending, SentMore, SentLast, AwaitsZero
  <2>6. Receiving => Receiving'
    BY <2>1 DEF Receiving, Stream, Block
  <2>7. (AckReady => AckReady') /\ (AckSent => AckSent')
    BY <2>1, <2>2, <2>3 DEF AckReady, AckSent, Block, NoneBefore
  <2>8. SetupWaits => SetupWaits'
    BY <2>1 DEF SetupWaits, Stream, Block
  <2> QED
    BY <2>1, <2>4, <2>5, <2>6, <2>7, <2>8 DEF Stages
<1> QED
  BY <1>1, StagesHandleIn, StagesHandleSetup, StagesHandleOut, StagesSendSetup, StagesDataIn,
     StagesDataOut, StagesStatusIn, StagesStatusOut, StagesSeesStall, StagesReset
     DEF Next, Device, Bus, Handles

-----------------------------------------------------------------------------
(* Every step keeps account of the packet buffers.                         *)
Held == IF dev.reg.rdy \/ dev.sent \/ dev.pend THEN 1 ELSE 0

LEMMA BuffersStep ==
  ASSUME TypeOK, TypeOK', Stages, Polite, BuffersConserved, [Next]_vars,
         ~misread, ~misread'
  PROVE  BuffersConserved'
<1>1. /\ dev.pool \in Int /\ Len(rx) \in Nat /\ Buffers \in Nat /\ rx \in Seq(Packets)
      /\ dev.pool + Len(rx) + Held = Buffers
  BY DeviceFields, SizesAssumption DEF TypeOK, BuffersConserved, Held
<1>2. dev'.pool + Len(rx') + Held' = Buffers => BuffersConserved'
  BY DEF BuffersConserved, Held
<1>3. rx # <<>> /\ rx' = Tail(rx) => Len(rx') = Len(rx) - 1
  BY <1>1, TailFacts
<1>4. \A p \in Packets : rx' = Append(rx, p) => Len(rx') = Len(rx) + 1
  BY <1>1, AppendFacts
<1>5. ~dev.pend
  BY DEF Stages
<1>6. CASE HandleIn
  <2>1. dev.sent /\ rx' = rx /\ (MoreSent \/ Turned \/ AckDone)
    BY <1>6, HandleInEffect
  <2>2. Held = 1
    BY <2>1 DEF Held
  <2>3. \/ dev'.pool = dev.pool /\ Held' = 1
        \/ dev'.pool = dev.pool + 1 /\ Held' = 0
    BY <2>1 DEF MoreSent, Turned, AckDone, Held
  <2> QED
    BY <1>1, <1>2, <2>1, <2>2, <2>3
<1>7. CASE Handles
  <2> DEFINE d == Put(dev)
  <2>1. /\ ~dev.sent /\ ~dev.reg.rdy /\ rx # <<>> /\ rx' = Tail(rx)
        /\ \/ Refuses(d, dev', host.req) \/ Accepts(d, dev', host.req)
           \/ Expects(d, dev', host.req) \/ Replies(d, dev', host.req)
    BY <1>7, HandleSetupEffect
  <2>2. d.pool = dev.pool + 1 /\ ~d.sent /\ ~d.pend /\ ~d.reg.rdy
    BY <1>5, <2>1, PutFacts DEF TypeOK, SameFlags
  <2>3. Held = 0
    BY <1>5, <2>1 DEF Held
  <2> HIDE DEF d
  <2>4. Refuses(d, dev', host.req) => dev'.pool = d.pool /\ Held' = 0
    BY <2>2 DEF Refuses, SameDriver, Held
  <2>5. Accepts(d, dev', host.req) => dev'.pool = d.pool - 1 /\ Held' = 1
    BY DEF Accepts, Acks, Held
  <2>6. Expects(d, dev', host.req) => dev'.pool = d.pool /\ Held' = 0
    BY <2>2 DEF Expects, SameFlags, Held
  <2>7. Replies(d, dev', host.req) => dev'.pool = d.pool - 1 /\ Held' = 1
    BY DEF Replies, Transmits, Held
  <2>8. Len(rx') = Len(rx) - 1
    BY <1>3, <2>1
  <2>9. \/ dev'.pool = dev.pool + 1 /\ Held' = 0
        \/ dev'.pool = dev.pool /\ Held' = 1
    BY <1>1, <2>1, <2>2, <2>4, <2>5, <2>6, <2>7
  <2> QED
    BY <1>1, <1>2, <2>3, <2>8, <2>9
<1>8. CASE HandleOut
  <2>1. /\ ~dev.sent /\ rx # <<>> /\ rx' = Tail(rx)
        /\ (Settled /\ Drops) \/ (AwaitsZero /\ Completes) \/ (Receiving /\ (TakesMore \/ TakesLast))
    BY <1>8, HandleOutEffect
  <2>2. ~dev.reg.rdy
    BY <2>1 DEF Settled, AwaitsZero, Receiving, StatusStage
  <2>3. Held = 0
    BY <1>5, <2>1, <2>2 DEF Held
  <2>4. \/ dev'.pool = dev.pool + 1 /\ Held' = 0
        \/ dev'.pool = dev.pool /\ Held' = 1
    BY <2>1, <2>2 DEF Drops, Completes, TakesMore, TakesLast, Held
  <2>5. Len(rx') = Len(rx) - 1
    BY <1>3, <2>1
  <2> QED
    BY <1>1, <1>2, <2>3, <2>4, <2>5
<1>9. CASE SendSetup
  <2>1. PICK r \in Requests : Started(r)
    BY <1>9, SendSetupEffect
  <2> DEFINE p == [setup |-> TRUE, req |-> r, size |-> 0, data |-> NoData]
  <2>2. rx' = Append(rx, p) /\ dev'.pool = dev.pool - 1 /\ Held' = Held
    BY <1>5, <2>1 DEF Started, Held
  <2> HIDE DEF p
  <2>3. Len(rx') = Len(rx) + 1
    BY <1>1, <2>2
  <2> QED
    BY <1>1, <1>2, <2>2, <2>3 DEF Held
<1>10. CASE DataIn \/ StatusIn
  <2>1. TakenReg /\ rx' = rx /\ dev.reg.rdy
    BY <1>10, DataInEffect, StatusInEffect DEF Sending, AckReady
  <2>2. dev'.pool = dev.pool /\ Held' = 1 /\ Held = 1
    BY <2>1 DEF TakenReg, Held
  <2> QED
    BY <1>1, <1>2, <2>1, <2>2
<1>11. CASE DataOut \/ StatusOut
  <2>1. Supplied /\ \E p : rx' = Append(rx, p)
    BY <1>11, DataOutEffect, StatusOutEffect
  <2>2. dev'.pool = dev.pool - 1 /\ Held' = Held
    BY <2>1 DEF Supplied, SameFlags, Held
  <2>3. Len(rx') = Len(rx) + 1
    BY <1>1, <2>1
  <2> QED
    BY <1>1, <1>2, <2>2, <2>3 DEF Held
<1>12. CASE SeesStall \/ UNCHANGED vars
  <2>1. dev' = dev /\ rx' = rx
    BY <1>12, SeesStallEffect DEF vars
  <2> QED
    BY <2>1 DEF BuffersConserved
<1>13. CASE BusReset
  <2>1. dev' = Enumerated /\ rx' = <<>>
    BY <1>13 DEF BusReset
  <2>2. dev'.pool = Buffers /\ Held' = 0 /\ Len(rx') = 0
    BY <2>1, EnumeratedFacts DEF Held
  <2> QED
    BY <1>1, <1>2, <2>2
<1> QED
  BY <1>6, <1>7, <1>8, <1>9, <1>10, <1>11, <1>12, <1>13 DEF Next, Device, Bus, Handles

-----------------------------------------------------------------------------
(* Blocks are handed over in order, and DnLoadIdle tells of the last one.  *)
LEMMA BlocksSame ==
  ASSUME BlocksInOrder, host'.block = host.block, blocks' = blocks, handed' = handed,
         Downloads(host'.req) => Downloads(host.req),
         dev'.state = "DnLoadIdle" => dev.state = "DnLoadIdle" /\ dev'.error = dev.error
  PROVE  BlocksInOrder'
BY DEF BlocksInOrder, Older, Block, Downloads

LEMMA BlocksHandleIn ==
  ASSUME TypeOK, Stages, BlocksInOrder, HandleIn
  PROVE  BlocksInOrder'
<1>1. /\ host' = host /\ blocks' = blocks
      /\ (SentMore /\ MoreSent) \/ (SentLast /\ Turned) \/ (AckSent /\ AckDone)
  BY HandleInEffect
<1>2. CASE MoreSent \/ Turned
  BY <1>1, <1>2, BlocksSame DEF MoreSent, Turned, SameDfu
<1>3. CASE AckSent /\ AckDone
  <2>1. PICK ok \in BOOLEAN :
       /\ dev.state = "DnLoadSync" =>
            dev'.state = "DnLoadIdle" /\ dev'.error = (IF ok THEN "Ok" ELSE "Vendor")
       /\ Handing(ok)
    BY <1>3 DEF AckDone
  <2>2. CASE dev.state = "DnLoadSync"
    <3>1. dev.data = host.block
      BY <1>3, <2>2 DEF AckSent
    <3>2. handed'.data = host.block /\ handed'.ok = ok
      BY <2>1, <2>2, <3>1 DEF Handing
    <3>3. dev'.error \in {"Ok", "Vendor"} /\ (ok <=> dev'.error = "Ok")
      BY <2>1, <2>2
    <3>4. /\ Older(host.block) \/ host.block = Block
          /\ Downloads(host.req) => Older(host.block)
      BY DEF BlocksInOrder
    <3> QED
      BY <1>1, <3>2, <3>3, <3>4 DEF BlocksInOrder, Older, Block
  <2>3. CASE dev.state # "DnLoadSync"
    <3>1. handed' = handed
      BY <2>1, <2>3 DEF Handing
    <3>2. dev'.state = "DnLoadIdle" => dev.state = "DnLoadIdle" /\ dev'.error = dev.error
      BY <1>3, <2>3 DEF AckDone
    <3> QED
      BY <1>1, <3>1, <3>2, BlocksSame
  <2> QED
    BY <2>2, <2>3
<1> QED
  BY <1>1, <1>2, <1>3

LEMMA BlocksHandleSetup ==
  ASSUME TypeOK, Stages, BlocksInOrder, Handles
  PROVE  BlocksInOrder'
<1> DEFINE d == Put(dev)
<1>1. /\ Settled /\ host' = host /\ blocks' = blocks /\ handed' = handed
      /\ \/ Refuses(d, dev', host.req) \/ Accepts(d, dev', host.req)
         \/ Expects(d, dev', host.req) \/ Replies(d, dev', host.req)
  BY HandleSetupEffect
<1>2. d.state = dev.state /\ d.error = dev.error /\ d.state # "DnLoadSync"
  BY <1>1, PutFacts DEF TypeOK, SameDfu, Settled
<1> HIDE DEF d
<1>3. dev'.state = "DnLoadIdle" => dev.state = "DnLoadIdle" /\ dev'.error = dev.error
  <2>1. Refuses(d, dev', host.req) => (dev'.state = "DnLoadIdle" => dev.state = "DnLoadIdle" /\ dev'.error = dev.error)
    BY <1>2 DEF Refuses
  <2>2. Accepts(d, dev', host.req) => (dev'.state = "DnLoadIdle" => dev.state = "DnLoadIdle" /\ dev'.error = dev.error)
    BY <1>2 DEF Accepts
  <2>3. Expects(d, dev', host.req) => (dev'.state = "DnLoadIdle" => dev.state = "DnLoadIdle" /\ dev'.error = dev.error)
    BY <1>2 DEF Expects
  <2>4. Replies(d, dev', host.req) => (dev'.state = "DnLoadIdle" => dev.state = "DnLoadIdle" /\ dev'.error = dev.error)
    BY <1>2 DEF Replies
  <2> QED
    BY <1>1, <2>1, <2>2, <2>3, <2>4
<1> QED
  BY <1>1, <1>3, BlocksSame

LEMMA BlocksSendSetup ==
  ASSUME TypeOK, Stages, Polite, BlocksInOrder, SendSetup
  PROVE  BlocksInOrder'
<1>1. PICK r \in Requests : Started(r)
  BY SendSetupEffect
<1>2. /\ blocks' = (IF Downloads(r) THEN blocks + 1 ELSE blocks) /\ blocks \in Nat
      /\ host'.req = r /\ host'.block = host.block /\ handed' = handed
      /\ dev'.state = dev.state /\ dev'.error = dev.error
  BY <1>1, SizesAssumption DEF Started, SameDfu, TypeOK
<1>3. CASE ~Downloads(r)
  BY <1>2, <1>3, BlocksSame
<1>4. CASE Downloads(r)
  <2>1. ASSUME NEW data, Older(data) \/ data = Block PROVE Older(data)'
    <3>1. blocks' = blocks + 1 /\ blocks \in 0 .. (blocks' - 1)
      BY <1>2, <1>4
    <3>2. \A n \in 0 .. (blocks - 1) : n \in 0 .. (blocks' - 1)
      BY <1>2, <3>1
    <3> QED
      BY <2>1, <3>1, <3>2 DEF Older, Block
  <2>2. Older(handed.data)' /\ Older(host.block)'
    <3>1. \A data : Older(data) \/ data = Block => Older(data)'
      BY <2>1
    <3>2. \A data : Older(data)' <=> data = NoData \/ \E n \in 0 .. (blocks' - 1) : data = <<"block", n>>
      BY DEF Older
    <3>3. Older(handed.data) \/ handed.data = Block
      BY DEF BlocksInOrder
    <3>4. Older(host.block) \/ host.block = Block
      BY DEF BlocksInOrder
    <3>5. handed.data = NoData \/ \E n \in 0 .. (blocks' - 1) : handed.data = <<"block", n>>
      BY <3>1, <3>2, <3>3
    <3>6. host.block = NoData \/ \E n \in 0 .. (blocks' - 1) : host.block = <<"block", n>>
      BY <3>1, <3>2, <3>4
    <3> QED
      BY <1>2, <3>5, <3>6 DEF Older
  <2> QED
    BY <1>2, <2>2 DEF BlocksInOrder
<1> QED
  BY <1>3, <1>4

LEMMA BlocksStatusIn ==
  ASSUME TypeOK, Stages, BlocksInOrder, StatusIn
  PROVE  BlocksInOrder'
<1>1. /\ AckReady /\ TakenReg /\ Over(NoData, TRUE, host.asked, AckedBlock)
      /\ blocks' = blocks /\ handed' = handed
  BY StatusInEffect
<1>2. /\ dev'.state = dev.state /\ dev'.error = dev.error
      /\ host'.block = AckedBlock /\ host'.req = NoRequest /\ ~Downloads(NoRequest)
  BY <1>1 DEF TakenReg, SameDfu, Over, Downloads, NoRequest
<1>3. CASE ~Downloads(host.req)
  BY <1>1, <1>2, <1>3, BlocksSame DEF AckedBlock
<1>4. CASE Downloads(host.req)
  <2>1. dev'.state = "DnLoadSync" /\ host'.block = Block
    BY <1>1, <1>2, <1>4 DEF AckReady, AckedBlock
  <2> QED
    BY <1>1, <1>2, <2>1 DEF BlocksInOrder, Older, Block
<1> QED
  BY <1>3, <1>4

LEMMA BlocksStep ==
  ASSUME TypeOK, Stages, Polite, BlocksInOrder, [Next]_vars
  PROVE  BlocksInOrder'
<1>1. CASE HandleOut
  <2>1. /\ host' = host /\ blocks' = blocks /\ handed' = handed
        /\ (Settled /\ Drops) \/ (AwaitsZero /\ Completes) \/ (Receiving /\ (TakesMore \/ TakesLast))
    BY <1>1, HandleOutEffect
  <2>2. dev'.state = "DnLoadIdle" => dev.state = "DnLoadIdle" /\ dev'.error = dev.error
    BY <2>1 DEF Drops, Completes, TakesMore, TakesLast
  <2> QED
    BY <2>1, <2>2, BlocksSame
<1>2. CASE DataIn
  BY <1>2, DataInEffect, BlocksSame DEF TakenReg, SameDfu
<1>3. CASE DataOut
  <2>1. /\ Supplied /\ blocks' = blocks /\ handed' = handed
        /\ host'.req = host.req /\ host'.block = host.block
    BY <1>3, DataOutEffect DEF TypeOK, Hosts
  <2> QED
    BY <2>1, BlocksSame DEF Supplied, SameDfu
<1>4. CASE StatusOut
  <2>1. /\ Supplied /\ blocks' = blocks /\ handed' = handed
        /\ host'.req = NoRequest /\ ~Downloads(NoRequest) /\ host'.block = host.block
    BY <1>4, StatusOutEffect DEF Over, Downloads, NoRequest
  <2> QED
    BY <2>1, BlocksSame DEF Supplied, SameDfu
<1>5. CASE SeesStall
  <2>1. /\ dev' = dev /\ blocks' = blocks /\ handed' = handed
        /\ host'.req = NoRequest /\ ~Downloads(NoRequest) /\ host'.block = host.block
    BY <1>5, SeesStallEffect DEF Over, Downloads, NoRequest
  <2> QED
    BY <2>1, BlocksSame
<1>6. CASE BusReset
  <2>1. /\ dev'.state = "Idle" /\ host'.block = NoData /\ handed'.data = NoData
        /\ ~Downloads(host'.req)
    BY <1>6, EnumeratedFacts DEF BusReset, IdleHost, NotHanded, Downloads, NoRequest
  <2> QED
    BY <2>1 DEF BlocksInOrder, Older
<1>7. CASE UNCHANGED vars
  BY <1>7, BlocksSame DEF vars
<1> QED
  BY <1>1, <1>2, <1>3, <1>4, <1>5, <1>6, <1>7, BlocksHandleIn, BlocksHandleSetup, BlocksSendSetup,
     BlocksStatusIn DEF Next, Device, Bus, Handles

-----------------------------------------------------------------------------
(* A SETUP packet waits: one was sent, or has not been reached.            *)
LEMMA WaitingAfter ==
  ASSUME TypeOK
  PROVE  /\ \A p : rx' = Append(rx, p) => (Waiting' <=> Waiting \/ p.setup)
         /\ rx # <<>> /\ rx' = Tail(rx) /\ ~rx[1].setup => (Waiting' <=> Waiting)
<1>1. rx \in Seq(Packets) /\ Len(rx) \in Nat /\ DOMAIN rx = 1 .. Len(rx)
  BY DEF TypeOK
<1>2. ASSUME NEW p, rx' = Append(rx, p) PROVE Waiting' <=> Waiting \/ p.setup
  <2>1. /\ DOMAIN rx' = 1 .. (Len(rx) + 1) /\ rx'[Len(rx) + 1] = p
        /\ \A i \in 1 .. Len(rx) : rx'[i] = rx[i]
    BY <1>1, <1>2
  <2>2. \A i \in DOMAIN rx' : i \in DOMAIN rx \/ i = Len(rx) + 1
    BY <1>1, <2>1
  <2>3. Len(rx) + 1 \in DOMAIN rx' /\ \A i \in DOMAIN rx : i \in DOMAIN rx'
    BY <1>1, <2>1
  <2> QED
    BY <1>1, <2>1, <2>2, <2>3 DEF Waiting
<1>3. ASSUME rx # <<>>, rx' = Tail(rx), ~rx[1].setup PROVE Waiting' <=> Waiting
  <2>1. /\ Len(rx) > 0 /\ Len(rx') = Len(rx) - 1 /\ DOMAIN rx' = 1 .. Len(rx')
        /\ \A i \in 1 .. Len(rx') : rx'[i] = rx[i + 1]
    BY <1>3, TailFacts DEF TypeOK
  <2>2. ASSUME NEW i \in DOMAIN rx, rx[i].setup PROVE Waiting'
    <3>1. i # 1 /\ i \in 1 .. Len(rx)
      BY <1>1, <1>3, <2>2
    <3>2. i - 1 \in DOMAIN rx' /\ (i - 1) + 1 = i
      BY <1>1, <2>1, <3>1
    <3> QED
      BY <2>1, <2>2, <3>2 DEF Waiting
  <2>3. ASSUME NEW i \in DOMAIN rx', rx'[i].setup PROVE Waiting
    <3>1. i + 1 \in DOMAIN rx /\ rx'[i] = rx[i + 1]
      BY <1>1, <2>1
    <3> QED
      BY <2>3, <3>1 DEF Waiting
  <2> QED
    BY <2>2, <2>3 DEF Waiting
<1> QED
  BY <1>2, <1>3

(* What a status tells stays true until another block is handed over.      *)
LEMMA TellsSame ==
  ASSUME handed' = handed, host'.block = host.block
  PROVE  \A data : TellsTruth(data)' <=> TellsTruth(data)
BY DEF TellsTruth

(* A SETUP packet waits only while its request is in progress.             *)
LEMMA WaitingBusy ==
  ASSUME Stages, Waiting
  PROVE  host.phase # "idle" /\ host.phase # "statusOut" /\ ~dev.stall /\ host.req \in Requests
<1>1. PICK i \in DOMAIN rx : rx[i].setup
  BY DEF Waiting
<1>2. host.phase \in {"dataOut", "dataIn", "statusIn"} /\ ~dev.stall /\ host.req \in Requests
  BY <1>1 DEF Stages, SetupWaits, Stream
<1> QED
  BY <1>2

LEMMA ToldHandleIn ==
  ASSUME TypeOK, Stages, StatusTold, HandleIn
  PROVE  StatusTold'
<1>1. /\ dev.sent /\ rx' = rx /\ host' = host /\ answer' = answer
      /\ (SentMore /\ MoreSent) \/ (SentLast /\ Turned) \/ (AckSent /\ AckDone)
  BY HandleInEffect
<1>2. Waiting' <=> Waiting
  BY <1>1 DEF Waiting
<1>3. dev'.stall = dev.stall /\ (dev'.state = "DnLoadSync" => dev.state = "DnLoadSync")
  BY <1>1 DEF MoreSent, Turned, AckDone, SameDfu
<1>4. dev.state # "DnLoadSync" => handed' = handed
  BY <1>1 DEF MoreSent, Turned, AckDone, Handing
<1>5. ~Sending
  BY <1>1 DEF Sending
<1>6. ASSUME host.req.name = "GetStatus", ~Waiting, host.phase = "statusOut"
      PROVE  TellsTruth(host.data)'
  <2>1. ~AckSent
    BY <1>6 DEF AckSent
  <2>2. handed' = handed
    BY <1>1, <2>1 DEF MoreSent, Turned
  <2>3. TellsTruth(host.data)
    BY <1>6 DEF StatusTold
  <2> QED
    BY <1>1, <2>2, <2>3 DEF TellsTruth
<1>7. ASSUME answer.req.name = "GetStatus", answer.ok
      PROVE  host.phase = "idle" /\ dev'.state # "DnLoadSync" /\ TellsTruth(answer.data)'
  <2>1. host.phase = "idle" /\ dev.state # "DnLoadSync" /\ TellsTruth(answer.data)
    BY <1>7 DEF StatusTold
  <2> QED
    BY <1>1, <1>3, <1>4, <2>1 DEF TellsTruth
<1> QED
  BY <1>1, <1>2, <1>3, <1>5, <1>6, <1>7 DEF StatusTold

LEMMA ToldHandleSetup ==
  ASSUME TypeOK, Stages, Stages', BlocksInOrder, StatusTold, Handles
  PROVE  StatusTold'
<1> DEFINE d == Put(dev)
<1>1. /\ Settled /\ rx # <<>> /\ rx[1].setup /\ rx' = Tail(rx) /\ host' = host /\ blocks' = blocks
      /\ answer' = answer /\ handed' = handed /\ host.req \in Requests
      /\ \/ Refuses(d, dev', host.req) \/ Accepts(d, dev', host.req)
         \/ Expects(d, dev', host.req) \/ Replies(d, dev', host.req)
  BY HandleSetupEffect
<1>2. Waiting
  BY <1>1 DEF Waiting, TypeOK
<1>3. ~(answer.req.name = "GetStatus" /\ answer.ok)
  BY <1>2, WaitingBusy DEF StatusTold
<1>4. d.state = dev.state /\ d.error = dev.error /\ d.state # "DnLoadSync"
  BY <1>1, PutFacts DEF TypeOK, SameDfu, Settled
<1> HIDE DEF d
<1>5. ASSUME host.req.name = "GetStatus"
      PROVE  Sending' /\ dev'.reg.size = 1 /\ TellsTruth(dev.reg.data)'
  <2>1. Reads(host.req) /\ ~Downloads(host.req)
    BY <1>5 DEF Reads, Downloads
  <2>2. Replies(d, dev', host.req)
    BY <1>1, <1>5, <2>1 DEF Refuses, Accepts, Expects
  <2>3. PICK m \in Devices :
       /\ dev'.error = d.error
       /\ dev'.state = d.state \/ dev'.state = "Idle"
       /\ Transmits(m, dev', <<dev'.error, dev'.state>>, 1, FALSE, FALSE)
    BY <1>4, <1>5, <2>2 DEF Replies
  <2>4. dev'.reg.rdy /\ dev'.reg.size = Least(MaxPacket, 1) /\ dev'.reg.data = <<dev'.error, dev'.state>>
    BY <2>3 DEF Transmits
  <2>5. Least(MaxPacket, 1) = 1
    BY SizesAssumption DEF Least
  <2>6. Sending'
    BY <1>1, <2>1, <2>4 DEF Stages, Settled, SentMore, SentLast, AwaitsZero, Receiving, AckReady, AckSent,
                            StatusStage
  <2>7. dev'.reg.data[1] = dev'.error /\ dev'.reg.data[2] = dev'.state
    BY <2>4
  <2>8. dev'.state = "DnLoadIdle" =>
          /\ handed.data = host.block
          /\ handed.ok <=> dev'.error = "Ok"
    BY <1>4, <2>3 DEF BlocksInOrder
  <2> QED
    BY <1>1, <2>4, <2>5, <2>6, <2>7, <2>8 DEF TellsTruth
<1>6. host.req.name = "GetStatus" => ~dev'.stall /\ host'.phase # "statusOut"
  <2>1. Sending' => ~dev'.stall
    BY DEF Sending, DataStage
  <2> QED
    BY <1>1, <1>2, <1>5, <2>1, WaitingBusy
<1> QED
  BY <1>1, <1>3, <1>5, <1>6 DEF StatusTold

LEMMA ToldHandleOut ==
  ASSUME TypeOK, Stages, StatusTold, HandleOut
  PROVE  StatusTold'
<1>1. /\ rx # <<>> /\ ~rx[1].setup /\ rx' = Tail(rx) /\ host' = host /\ blocks' = blocks
      /\ handed' = handed /\ answer' = answer
      /\ (Settled /\ Drops) \/ (AwaitsZero /\ Completes) \/ (Receiving /\ (TakesMore \/ TakesLast))
  BY HandleOutEffect
<1>2. dev'.stall = dev.stall /\ (dev'.state = "DnLoadSync" => dev.state = "DnLoadSync")
  BY <1>1 DEF Drops, Completes, TakesMore, TakesLast
<1>3. Waiting' <=> Waiting
  BY <1>1, WaitingAfter
<1>4. ~Sending
  BY <1>1 DEF Sending, DataStage
<1>5. ASSUME host.req.name = "GetStatus", ~Waiting
      PROVE  host.phase # "dataIn" /\ ~dev.stall /\ (host.phase = "statusOut" => TellsTruth(host.data))
  BY <1>4, <1>5 DEF StatusTold
<1>6. \A data : TellsTruth(data)' <=> TellsTruth(data)
  BY <1>1, TellsSame
<1> QED
  BY <1>1, <1>2, <1>3, <1>5, <1>6 DEF StatusTold, TellsTruth

LEMMA ToldDataIn ==
  ASSUME TypeOK, Stages, StatusTold, DataIn
  PROVE  StatusTold'
<1>1. /\ Sending /\ TakenReg /\ host.phase = "dataIn"
      /\ host'.data = (IF dev.reg.size > 0 THEN dev.reg.data ELSE host.data)
      /\ host'.phase = (IF host.moved + dev.reg.size >= host.req.len \/ dev.reg.size < MaxPacket
                          THEN "statusOut" ELSE "dataIn")
      /\ host'.req = host.req /\ host'.block = host.block /\ rx' = rx /\ handed' = handed
      /\ answer' = answer
  BY DataInEffect
<1>2. rx = <<>> /\ ~dev.stall /\ ~dev'.stall
  BY <1>1 DEF Sending, DataStage, TakenReg
<1>3. ~Waiting
  BY <1>2 DEF Waiting
<1>4. ~(answer.req.name = "GetStatus" /\ answer.ok)
  BY <1>1 DEF StatusTold
<1>5. ASSUME host.req.name = "GetStatus"
      PROVE  host'.phase = "statusOut" /\ TellsTruth(host.data)'
  <2>1. dev.reg.size = 1 /\ TellsTruth(dev.reg.data)
    BY <1>1, <1>3, <1>5 DEF StatusTold
  <2>2. dev.reg.size > 0 /\ dev.reg.size < MaxPacket
    BY <2>1, SizesAssumption
  <2>3. host'.data = dev.reg.data /\ host'.phase = "statusOut"
    BY <1>1, <2>2
  <2> QED
    BY <1>1, <2>1, <2>3 DEF TellsTruth
<1> QED
  BY <1>1, <1>2, <1>4, <1>5 DEF StatusTold

LEMMA ToldOver ==
  ASSUME TypeOK, Stages, StatusTold, StatusIn \/ StatusOut \/ SeesStall
  PROVE  StatusTold'
<1>1. host'.req = NoRequest /\ host'.req.name # "GetStatus" /\ host'.phase = "idle"
  <2>1. \E data, ok, asked, block : Over(data, ok, asked, block)
    <3>1. CASE StatusIn
      BY <3>1, StatusInEffect
    <3>2. CASE StatusOut
      BY <3>2, StatusOutEffect
    <3>3. CASE SeesStall
      BY <3>3, SeesStallEffect
    <3> QED
      BY <3>1, <3>2, <3>3
  <2> QED
    BY <2>1 DEF Over, NoRequest
<1>2. CASE StatusIn
  <2>1. answer'.req = host.req /\ ~Reads(host.req)
    BY <1>2, StatusInEffect DEF Over, AckReady
  <2> QED
    BY <1>1, <2>1 DEF StatusTold, Reads
<1>3. CASE StatusOut
  <2>1. /\ SentLast \/ AwaitsZero
        /\ rx = <<>> /\ Supplied /\ host.phase = "statusOut" /\ handed' = handed
        /\ host'.block = host.block /\ answer'.req = host.req /\ answer'.data = host.data
    BY <1>3, StatusOutEffect DEF Over
  <2>2. dev'.state # "DnLoadSync" /\ ~Waiting
    BY <2>1 DEF SentLast, AwaitsZero, StatusStage, Supplied, SameDfu, Waiting
  <2>3. host.req.name = "GetStatus" => TellsTruth(answer.data)'
    <3>1. host.req.name = "GetStatus" => TellsTruth(host.data)
      BY <2>1, <2>2 DEF StatusTold
    <3> QED
      BY <2>1, <3>1 DEF TellsTruth
  <2> QED
    BY <1>1, <2>1, <2>2, <2>3 DEF StatusTold
<1>4. CASE SeesStall
  <2>1. answer'.ok = FALSE
    BY <1>4, SeesStallEffect DEF Over
  <2> QED
    BY <1>1, <2>1 DEF StatusTold
<1> QED
  BY <1>2, <1>3, <1>4

LEMMA ToldStep ==
  ASSUME TypeOK, Stages, Stages', Polite, BlocksInOrder, StatusTold, [Next]_vars
  PROVE  StatusTold'
<1>1. CASE SendSetup
  <2>1. PICK r \in Requests : Started(r)
    BY <1>1, SendSetupEffect
  <2>2. answer'.ok = FALSE
    BY <2>1 DEF Started, NoAnswer
  <2>3. Waiting'
    <3> DEFINE p == [setup |-> TRUE, req |-> r, size |-> 0, data |-> NoData]
    <3>1. rx' = Append(rx, p) /\ p.setup
      BY <2>1 DEF Started
    <3> QED
      BY <3>1, WaitingAfter
  <2> QED
    BY <2>2, <2>3 DEF StatusTold
<1>2. CASE DataOut
  <2>1. /\ Supplied /\ host.phase = "dataOut" /\ ~dev.stall /\ answer' = answer
        /\ host'.req = host.req /\ host'.phase \in {"dataOut", "statusIn"}
    BY <1>2, DataOutEffect DEF TypeOK, Hosts
  <2>2. ~(answer.req.name = "GetStatus" /\ answer.ok) /\ ~dev'.stall
    BY <2>1 DEF StatusTold, Supplied, SameFlags
  <2> QED
    BY <2>1, <2>2 DEF StatusTold
<1>3. CASE BusReset
  <2>1. answer' = NoAnswer /\ host' = IdleHost
    BY <1>3 DEF BusReset
  <2>2. host'.req.name # "GetStatus" /\ answer'.ok = FALSE
    BY <2>1 DEF IdleHost, NoRequest, NoAnswer
  <2> QED
    BY <2>2 DEF StatusTold
<1>4. CASE UNCHANGED vars
  <2>1. dev' = dev /\ rx' = rx /\ host' = host /\ handed' = handed /\ answer' = answer
    BY <1>4 DEF vars
  <2>2. Waiting' = Waiting /\ (\A data : TellsTruth(data)' <=> TellsTruth(data)) /\ (Sending => Sending')
    BY <2>1 DEF Waiting, TellsTruth, Sending, DataStage, Drained, Rest, InReg
  <2> QED
    BY <2>1, <2>2 DEF StatusTold, TellsTruth
<1>5. CASE HandleIn
  BY <1>5, ToldHandleIn
<1>6. CASE Handles
  BY <1>6, ToldHandleSetup
<1>7. CASE HandleOut
  BY <1>7, ToldHandleOut
<1>8. CASE DataIn
  BY <1>8, ToldDataIn
<1>9. CASE StatusIn \/ StatusOut \/ SeesStall
  BY <1>9, ToldOver
<1> QED
  BY <1>1, <1>2, <1>3, <1>4, <1>5, <1>6, <1>7, <1>8, <1>9 DEF Next, Device, Bus, Handles

-----------------------------------------------------------------------------
(* What the host may still upload, and what is staged for it.              *)
LEMMA ReadySends ==
  ASSUME Stages', dev'.reg.rdy, Reads(host.req)'
  PROVE  Sending'
BY DEF Stages, Settled, SentMore, SentLast, AwaitsZero, Receiving, AckReady, AckSent, StatusStage

LEMMA AskedStep ==
  ASSUME TypeOK, Stages, Polite, Asked, [Next]_vars
  PROVE  Asked'
<1>1. CASE SendSetup
  <2>1. PICK r \in Requests : Started(r)
    BY <1>1, SendSetupEffect
  <2>2. /\ host'.req = r /\ host'.asked = StillAsked(r) /\ host'.phase # "idle"
        /\ host.asked \in Int
    BY <2>1, HostFields DEF Started
  <2>3. r.name \in {"DnLoad", "GetState", "SetConfiguration"} => StillAsked(r) <= 0
    BY <2>2 DEF StillAsked, Least
  <2>4. r.name = "UpLoad" => StillAsked(r) = Unchecked
    BY DEF StillAsked, Polite
  <2>5. r.name = "SetInterface" /\ StillAsked(r) > 0 => StillAsked(r) = r.setting
    BY DEF StillAsked, Unchecked
  <2> QED
    BY <2>2, <2>3, <2>4, <2>5 DEF Asked
<1>2. CASE StatusIn \/ StatusOut \/ SeesStall
  <2>1. \E data, ok, asked, block : Over(data, ok, asked, block)
    <3>1. CASE StatusIn
      BY <3>1, StatusInEffect
    <3>2. CASE StatusOut
      BY <3>2, StatusOutEffect
    <3>3. CASE SeesStall
      BY <3>3, SeesStallEffect
    <3> QED
      BY <1>2, <3>1, <3>2, <3>3
  <2> QED
    BY <2>1 DEF Over, NoRequest, Asked
<1>3. CASE DataIn
  <2>1. host'.req = host.req /\ host'.asked = host.asked /\ host'.phase # "idle"
    BY <1>3, DataInEffect
  <2> QED
    BY <2>1 DEF Asked
<1>4. CASE DataOut
  <2>1. host'.req = host.req /\ host'.asked = host.asked /\ host'.phase # "idle"
    BY <1>4, DataOutEffect DEF TypeOK, Hosts
  <2> QED
    BY <2>1 DEF Asked
<1>5. CASE BusReset
  BY <1>5 DEF BusReset, IdleHost, NoRequest, Asked
<1>6. CASE Device \/ UNCHANGED vars
  <2>1. host' = host
    BY <1>6 DEF Device, HandleIn, HandleSetupPacket, StagingFails, HandleOut, Poll, vars
  <2> QED
    BY <2>1 DEF Asked
<1> QED
  BY <1>1, <1>2, <1>3, <1>4, <1>5, <1>6 DEF Next, Bus

LEMMA StagedHandleIn ==
  ASSUME TypeOK, TypeOK', Stages, Staged, HandleIn
  PROVE  Staged'
<1>1. /\ dev.sent /\ rx' = rx /\ host' = host
      /\ (SentMore /\ MoreSent) \/ (SentLast /\ Turned) \/ (AckSent /\ AckDone)
  BY HandleInEffect
<1>2. Waiting' <=> Waiting
  BY <1>1 DEF Waiting
<1>3. ~Sending /\ ~AwaitsZero /\ ~dev.pend
  BY <1>1 DEF Sending, AwaitsZero, Stages
<1>4. dev'.stall = dev.stall /\ dev'.allow = dev.allow /\ dev'.data = dev.data
  BY <1>1 DEF MoreSent, Turned, AckDone, SameDfu
<1>5. dev.state \notin {"UpLoadIdle", "DnLoadSync"} => dev'.state = dev.state /\ dev'.staged = dev.staged
  BY <1>1 DEF MoreSent, Turned, AckDone, SameDfu
<1>6. \A i : Prepared(i) => Prepared(i)'
  BY <1>4, <1>5 DEF Prepared
<1>7. /\ host.asked > 0 /\ (Waiting' \/ dev'.stall => host.req.name # "SetInterface") =>
           Prepared(host.asked)
      /\ Waiting' /\ host.req.name = "UpLoad" => host.expects > 0 /\ Prepared(host.expects)
  BY <1>2, <1>4 DEF Staged
<1>8. dev'.state = "UpLoadIdle" => dev.state = "UpLoadIdle"
  BY <1>1 DEF MoreSent, Turned, AckDone, SameDfu
<1>9. dev'.state = "UpLoadIdle" /\ host.asked # Unchecked =>
        (Waiting /\ host.req.name = "GetStatus") \/ (SentLast /\ Amount = 1)
  BY <1>3, <1>8 DEF Staged
<1>10. ASSUME SentLast, Amount = 1 PROVE AwaitsZero' /\ Amount' = 1
  <2>1. AwaitsZero'
    BY <1>10, StagesHandleIn
  <2>2. Turned
    BY <1>1, <1>10 DEF SentLast, StatusStage, SentMore, AckSent, AckStage
  <2>3. dev.in.done \in Nat /\ dev.in.len \in Nat /\ dev.reg.size \in Nat
    BY DeviceFields, SizesAssumption DEF TypeOK
  <2>4. Amount = dev.in.done + dev.reg.size + dev.in.len
    BY <1>1 DEF Amount
  <2>5. Amount' = (dev.in.done + dev.reg.size) + 0 + dev.in.len
    BY <2>2 DEF Amount, Turned
  <2> QED
    BY <1>10, <2>1, <2>3, <2>4, <2>5
<1> QED
  BY <1>1, <1>2, <1>6, <1>7, <1>9, <1>10 DEF Staged, Prepared

LEMMA StagedHandleSetup ==
  ASSUME TypeOK, TypeOK', Stages, Stages', Asked, Staged, Handles
  PROVE  Staged'
<1> DEFINE d == Put(dev)
<1>1. /\ Settled /\ ~dev.sent /\ ~dev.reg.rdy /\ rx # <<>> /\ rx[1].setup /\ rx' = Tail(rx)
      /\ host' = host /\ blocks' = blocks /\ host.req \in Requests
      /\ \/ Refuses(d, dev', host.req) \/ Accepts(d, dev', host.req)
         \/ Expects(d, dev', host.req) \/ Replies(d, dev', host.req)
  BY HandleSetupEffect
<1>2. Waiting /\ ~Waiting'
  BY <1>1, AfterSetup DEF Waiting, TypeOK
<1>3. /\ d.state = dev.state /\ d.allow = dev.allow /\ d.staged = dev.staged /\ d.data = dev.data
      /\ d.state # "DnLoadSync"
  BY <1>1, PutFacts DEF TypeOK, SameDfu, Settled
<1> HIDE DEF d
<1>4. dev.state = "UpLoadIdle" /\ host.asked # Unchecked => host.req.name = "GetStatus"
  <2>1. ~Sending /\ ~SentLast /\ ~AwaitsZero
    BY <1>1, <1>2 DEF Sending, SentLast, AwaitsZero, StatusStage, ZeroBefore
  <2> QED
    BY <2>1 DEF Staged
<1>5. host.asked > 0 /\ host.req.name # "SetInterface" => Prepared(host.asked)
  BY DEF Staged
<1>6. host.asked \in Int /\ Unchecked = 0 - 1
  BY HostFields DEF Unchecked
<1>7. CASE Refuses(d, dev', host.req)
  <2>1. /\ dev'.stall /\ dev'.staged = dev.staged /\ dev'.data = dev.data /\ dev'.allow = dev.allow
        /\ host.req.name # "SetInterface" => dev'.state \in {"Idle", "Error"}
        /\ host.req.name = "SetInterface" => dev'.state = dev.state
        /\ host.req.name # "GetStatus"
    BY <1>3, <1>7 DEF Refuses, Kept
  <2>2. host.asked > 0 /\ host.req.name # "SetInterface" => Prepared(host.asked)'
    BY <1>1, <1>5, <2>1 DEF Prepared
  <2>3. ~(dev'.state = "UpLoadIdle" /\ host.asked # Unchecked)
    BY <1>4, <2>1
  <2> QED
    BY <1>1, <1>2, <2>1, <2>2, <2>3 DEF Staged
<1>8. CASE Accepts(d, dev', host.req)
  <2>1. \/ /\ host.req.name \in {"DnLoad", "ClrStatus", "Abort"} /\ dev'.staged = dev.staged
           /\ dev'.data = dev.data /\ dev'.allow = dev.allow
           /\ dev'.state \in {"Error", "ManifestSync", "Idle"}
        \/ /\ host.req.name = "SetInterface" /\ host.req.setting \in DOMAIN Settings
           /\ dev'.state = dev.state
           /\ LET s == Settings[host.req.setting]
              IN  /\ dev'.allow = Allows(s)
                  /\ Allowed(s.up) => \/ dev'.staged = s.len /\ dev'.data = <<s.up>>
                                      \/ dev'.data = Unread
        \/ host.req.name = "SetConfiguration" /\ dev'.state = "Idle"
    BY <1>3, <1>8 DEF Accepts, Kept
  <2>2. ~(dev'.state = "UpLoadIdle" /\ host.asked # Unchecked)
    BY <1>4, <2>1
  <2>3. host.asked > 0 => Prepared(host.asked)'
    <3>1. ASSUME host.asked > 0 PROVE Prepared(host.asked)'
      <4>1. CASE host.req.name \in {"DnLoad", "ClrStatus", "Abort"}
        <5>1. Prepared(host.asked)
          BY <1>5, <3>1, <4>1
        <5> QED
          BY <1>1, <2>1, <4>1, <5>1 DEF Prepared
      <4>2. CASE host.req.name = "SetInterface"
        <5>1. host.asked = host.req.setting
          BY <3>1, <4>2 DEF Asked
        <5>2. dev'.state = dev.state /\ dev.state \notin {"UpLoadIdle", "DnLoadSync"}
          BY <1>3, <1>4, <1>6, <2>1, <3>1, <4>2
        <5>3. "UpLoad" \in Allows(Settings[host.req.setting]) => Allowed(Settings[host.req.setting].up)
          BY DEF Allows
        <5> QED
          BY <1>1, <2>1, <4>2, <5>1, <5>2, <5>3 DEF Prepared
      <4>3. CASE host.req.name = "SetConfiguration"
        BY <1>6, <3>1, <4>3 DEF Asked
      <4> QED
        BY <2>1, <4>1, <4>2, <4>3
    <3> QED
      BY <3>1
  <2> QED
    BY <1>1, <1>2, <2>2, <2>3 DEF Staged
<1>9. CASE Expects(d, dev', host.req)
  <2>1. host.req.name = "DnLoad" /\ dev'.state = "DnLoadSync"
    BY <1>9 DEF Expects, Downloads
  <2>2. ~(host.asked > 0)
    BY <1>6, <2>1 DEF Asked
  <2> QED
    BY <1>1, <1>2, <2>1, <2>2 DEF Staged
<1>10. CASE Replies(d, dev', host.req)
  <2>1. /\ Reads(host.req) /\ dev'.staged = dev.staged /\ dev'.data = dev.data /\ dev'.allow = dev.allow
    BY <1>3, <1>10 DEF Replies, Kept
  <2>2. \/ host.req.name = "UpLoad"
        \/ /\ \/ host.req.name = "GetStatus" /\ (dev'.state = dev.state \/ dev'.state = "Idle")
              \/ host.req.name = "GetState" /\ (dev'.state = dev.state \/ dev'.state = "UpLoadIdle")
              \/ host.req.name = "GetDescriptor" /\ dev'.state = dev.state
           /\ \E m, data : Transmits(m, dev', data, 1, FALSE, FALSE)
    BY <1>3, <1>10 DEF Replies
  <2>3. dev'.reg.rdy
    BY <1>10 DEF Replies, Transmits
  <2>4. Sending'
    <3>1. Reads(host.req)'
      BY <1>1, <2>1 DEF Reads
    <3> QED
      BY <2>3, <3>1, ReadySends
  <2>5. host.asked > 0 => Prepared(host.asked)'
    <3>1. ASSUME host.asked > 0 PROVE Prepared(host.asked)'
      <4>1. host.req.name \notin {"UpLoad", "GetState"}
        BY <1>6, <3>1 DEF Asked
      <4>2. host.req.name # "SetInterface"
        BY <2>2
      <4>3. Prepared(host.asked)
        BY <1>5, <3>1, <4>2
      <4>4. dev'.state = dev.state \/ dev'.state = "Idle"
        BY <2>2, <4>1
      <4> QED
        BY <1>1, <2>1, <4>3, <4>4 DEF Prepared
    <3> QED
      BY <3>1
  <2>6. dev'.state = "UpLoadIdle" /\ host.asked # Unchecked => Amount' = 1
    <3>1. ASSUME host.asked # Unchecked PROVE Amount' = 1
      <4>1. host.req.name # "UpLoad"
        BY <3>1 DEF Asked
      <4>2. PICK m, data : Transmits(m, dev', data, 1, FALSE, FALSE)
        BY <2>2, <4>1
      <4>3. Least(MaxPacket, 1) = 1
        BY SizesAssumption DEF Least
      <4>4. dev'.in.done = 0 /\ dev'.reg.size = 1 /\ dev'.in.len = 0
        BY <4>2, <4>3 DEF Transmits
      <4> QED
        BY <2>3, <4>4 DEF Amount
    <3> QED
      BY <3>1
  <2> QED
    BY <1>1, <1>2, <2>4, <2>5, <2>6 DEF Staged
<1> QED
  BY <1>1, <1>7, <1>8, <1>9, <1>10

LEMMA StagedHandleOut ==
  ASSUME TypeOK, TypeOK', Stages, Asked, Staged, HandleOut
  PROVE  Staged'
<1>1. /\ ~dev.sent /\ rx # <<>> /\ ~rx[1].setup /\ rx' = Tail(rx) /\ host' = host
      /\ (Settled /\ Drops) \/ (AwaitsZero /\ Completes) \/ (Receiving /\ (TakesMore \/ TakesLast))
  BY HandleOutEffect
<1>2. Waiting' <=> Waiting
  BY <1>1, WaitingAfter
<1>3. /\ host.asked > 0 /\ (Waiting \/ dev.stall => host.req.name # "SetInterface") =>
           Prepared(host.asked)
      /\ Waiting /\ host.req.name = "UpLoad" => host.expects > 0 /\ Prepared(host.expects)
  BY DEF Staged
<1>4. CASE Drops
  <2>1. \A i : Prepared(i) => Prepared(i)'
    BY <1>4 DEF Drops, Prepared
  <2>2. dev'.stall = dev.stall /\ dev'.state = "Error"
    BY <1>4 DEF Drops
  <2> QED
    BY <1>1, <1>2, <1>3, <2>1, <2>2 DEF Staged, Prepared
<1>5. CASE AwaitsZero /\ Completes
  <2>1. \A i : Prepared(i) => Prepared(i)'
    BY <1>5 DEF Completes, Prepared
  <2>2. dev'.stall = dev.stall
    BY <1>5 DEF Completes
  <2>3. dev'.state = "UpLoadIdle" /\ host.asked # Unchecked => Waiting /\ host.req.name = "GetStatus"
    <3>1. ASSUME dev'.state = "UpLoadIdle", host.asked # Unchecked, Amount = 1 PROVE FALSE
      <4>1. /\ dev.in.done \in Nat /\ dev.in.len = 0 /\ ~dev.reg.rdy /\ TransferSize \in Nat /\ TransferSize > 1
        BY <1>5, DeviceFields, SizesAssumption DEF AwaitsZero, StatusStage, Drained, TypeOK
      <4>2. dev.in.done = 1
        BY <1>1, <3>1, <4>1 DEF Amount
      <4>3. dev.state = "UpLoadIdle" => dev'.state = "Idle"
        BY <1>5, <4>1, <4>2 DEF Completes
      <4>4. dev.state # "UpLoadIdle" => dev'.state = dev.state
        BY <1>5 DEF Completes
      <4> QED
        BY <3>1, <4>3, <4>4
    <3>2. dev'.state = "UpLoadIdle" => dev.state = "UpLoadIdle"
      BY <1>5 DEF Completes
    <3> QED
      BY <3>1, <3>2 DEF Staged
  <2> QED
    BY <1>1, <1>2, <1>3, <2>1, <2>2, <2>3 DEF Staged, Prepared
<1>6. CASE Receiving /\ (TakesMore \/ TakesLast)
  <2>1. Downloads(host.req) /\ dev'.state = "DnLoadSync" /\ host.asked \in Int
    BY <1>6, HostFields DEF Receiving, TakesMore, TakesLast
  <2>2. ~(host.asked > 0) /\ host.req.name # "UpLoad"
    BY <2>1 DEF Asked, Downloads
  <2> QED
    BY <1>1, <2>1, <2>2 DEF Staged
<1> QED
  BY <1>1, <1>4, <1>5, <1>6

LEMMA StagedSendSetup ==
  ASSUME TypeOK, TypeOK', Stages, Polite, Asked, Staged, SendSetup
  PROVE  Staged'
<1>1. PICK r \in Requests : Started(r)
  BY SendSetupEffect
<1>2. /\ host.phase = "idle" /\ Disciplined(r) /\ ~dev'.stall /\ ~dev'.reg.rdy /\ ~dev.reg.rdy
      /\ host'.req = r /\ host'.asked = StillAsked(r)
      /\ host'.expects = (IF r.name = "UpLoad" THEN host.asked ELSE 0)
      /\ dev'.state = dev.state /\ dev'.allow = dev.allow /\ dev'.staged = dev.staged
      /\ dev'.data = dev.data /\ dev'.in = dev.in /\ dev'.sent = dev.sent /\ dev'.reg.size = dev.reg.size
  BY <1>1 DEF Started, SameDfu
<1>3. ~Waiting /\ host.req.name = "none" /\ host.asked \in Int
  BY <1>2, IdleStages, HostFields DEF Asked, NoRequest
<1>4. Waiting'
  <2> DEFINE p == [setup |-> TRUE, req |-> r, size |-> 0, data |-> NoData]
  <2>1. rx' = Append(rx, p) /\ p.setup
    BY <1>1 DEF Started
  <2> QED
    BY <2>1, WaitingAfter
<1>5. \A i : Prepared(i) => Prepared(i)'
  BY <1>2 DEF Prepared
<1>6. host.asked > 0 => Prepared(host.asked)
  BY <1>3 DEF Staged
<1>7. StillAsked(r) > 0 /\ r.name # "SetInterface" => StillAsked(r) = host.asked
  BY <1>3 DEF StillAsked, Polite, Least, Unchecked
<1>8. StillAsked(r) # Unchecked => r.name = "GetStatus" \/ host.asked # Unchecked
  BY <1>3 DEF StillAsked, Polite, Least, Unchecked
<1>9. dev'.state = "UpLoadIdle" /\ StillAsked(r) # Unchecked =>
        r.name = "GetStatus" \/ ((SentLast \/ AwaitsZero) /\ Amount = 1)
  <2>1. ~Sending
    BY <1>2 DEF Sending
  <2> QED
    BY <1>2, <1>3, <1>8, <2>1 DEF Staged
<1>10. (SentLast => SentLast') /\ (AwaitsZero => AwaitsZero')
  BY StagesSendSetup
<1>11. Amount' = Amount
  BY <1>2 DEF Amount
<1>12. r.name = "UpLoad" => host'.expects > 0 /\ Prepared(host.expects)'
  <2>1. ASSUME r.name = "UpLoad" PROVE host'.expects > 0 /\ Prepared(host.expects)'
    <3>1. host'.expects = host.asked /\ host.asked > 0
      BY <1>2, <2>1 DEF Disciplined
    <3> QED
      BY <1>2, <1>6, <3>1 DEF Prepared
  <2> QED
    BY <2>1
<1>13. host'.asked > 0 /\ r.name # "SetInterface" => Prepared(host.asked)'
  BY <1>2, <1>6, <1>7 DEF Prepared
<1> QED
  BY <1>2, <1>4, <1>9, <1>10, <1>11, <1>12, <1>13 DEF Staged

LEMMA StagedDataIn ==
  ASSUME TypeOK, TypeOK', Stages, Stages', Staged, DataIn
  PROVE  Staged'
<1>1. /\ Sending /\ TakenReg /\ rx' = rx
      /\ host'.req = host.req /\ host'.asked = host.asked /\ host'.expects = host.expects
  BY DataInEffect
<1>2. /\ dev'.stall = dev.stall /\ dev'.state = dev.state /\ dev'.allow = dev.allow
      /\ dev'.staged = dev.staged /\ dev'.data = dev.data /\ dev'.sent /\ ~dev'.reg.rdy
      /\ dev'.in = dev.in /\ dev'.reg.size = dev.reg.size
  BY <1>1 DEF TakenReg, SameDfu
<1>3. rx = <<>> /\ dev.reg.rdy /\ dev.in.zlp /\ ~Waiting
  BY <1>1 DEF Sending, DataStage, Waiting
<1>4. Waiting' <=> Waiting
  BY <1>1 DEF Waiting
<1>5. \A i : Prepared(i) => Prepared(i)'
  BY <1>2 DEF Prepared
<1>6. Amount' = Amount
  BY <1>2, <1>3 DEF Amount
<1>7. Amount = 1 => SentLast'
  <2>1. ASSUME Amount = 1 PROVE SentLast'
    <3>1. /\ dev.in.done \in Nat /\ dev.in.len \in Nat /\ dev.reg.size \in Nat
          /\ MaxPacket \in Nat /\ MaxPacket > 1
      BY DeviceFields, SizesAssumption DEF TypeOK
    <3>2. dev.in.done + dev.reg.size + dev.in.len = 1
      BY <1>3, <2>1 DEF Amount
    <3>3. Drained
      BY <1>1, <3>1, <3>2 DEF Sending
    <3>4. ~SentMore'
      BY <1>2, <3>3 DEF SentMore, Drained
    <3> QED
      BY <1>2, <1>3, <3>4 DEF Stages, Settled, Sending, AwaitsZero, Receiving, AckReady, AckSent, AckStage
  <2> QED
    BY <2>1
<1>8. dev.state = "UpLoadIdle" /\ host.asked # Unchecked => Amount = 1
  BY <1>3 DEF Staged
<1>9. host.asked > 0 /\ (dev.stall => host.req.name # "SetInterface") => Prepared(host.asked)
  BY <1>3 DEF Staged
<1>10. host'.asked > 0 /\ (dev'.stall => host'.req.name # "SetInterface") => Prepared(host.asked)'
  BY <1>1, <1>2, <1>9 DEF Prepared
<1> QED
  BY <1>1, <1>2, <1>3, <1>4, <1>6, <1>7, <1>8, <1>10 DEF Staged

LEMMA StagedDataOut ==
  ASSUME TypeOK, TypeOK', Stages, Staged, DataOut
  PROVE  Staged'
<1>1. /\ Supplied /\ host.phase = "dataOut" /\ \E p : rx' = Append(rx, p) /\ ~p.setup
      /\ host'.req = host.req /\ host'.asked = host.asked /\ host'.expects = host.expects
  <2> DEFINE p == [setup |-> FALSE, req |-> NoRequest,
                   size |-> Least(MaxPacket, host.req.len - host.moved), data |-> Block]
  <2>1. rx' = Append(rx, p) /\ ~p.setup
    BY DataOutEffect
  <2>2. /\ Supplied /\ host.phase = "dataOut"
        /\ host'.req = host.req /\ host'.asked = host.asked /\ host'.expects = host.expects
    BY DataOutEffect DEF TypeOK, Hosts
  <2> QED
    BY <2>1, <2>2
<1>2. Waiting' <=> Waiting
  BY <1>1, WaitingAfter
<1>3. /\ dev'.stall = dev.stall /\ dev'.state = dev.state /\ dev'.allow = dev.allow
      /\ dev'.staged = dev.staged /\ dev'.data = dev.data /\ dev'.sent = dev.sent
      /\ dev'.in = dev.in /\ dev'.reg = dev.reg
  BY <1>1 DEF Supplied, SameDfu, SameFlags
<1>4. ~Sending
  BY <1>1 DEF Sending, DataStage
<1>5. (SentLast => SentLast') /\ (AwaitsZero => AwaitsZero')
  BY StagesDataOut
<1>6. Amount' = Amount
  BY <1>3 DEF Amount
<1>7. \A i : Prepared(i) => Prepared(i)'
  BY <1>3 DEF Prepared
<1>8. host'.asked > 0 /\ (Waiting \/ dev.stall => host'.req.name # "SetInterface") => Prepared(host.asked)'
  BY <1>1, <1>3 DEF Staged, Prepared
<1>9. Waiting /\ host'.req.name = "UpLoad" => host'.expects > 0 /\ Prepared(host.expects)'
  BY <1>1, <1>3 DEF Staged, Prepared
<1>10. dev.state = "UpLoadIdle" /\ host.asked # Unchecked =>
         (Waiting /\ host.req.name = "GetStatus") \/ ((SentLast \/ AwaitsZero) /\ Amount = 1)
  BY <1>4 DEF Staged
<1> QED
  BY <1>1, <1>2, <1>3, <1>5, <1>6, <1>8, <1>9, <1>10 DEF Staged

LEMMA StagedOver ==
  ASSUME TypeOK, TypeOK', Stages, Staged, StatusIn \/ StatusOut \/ SeesStall
  PROVE  Staged'
<1>1. CASE StatusIn
  <2>1. /\ AckReady /\ TakenReg /\ rx' = rx /\ host'.asked = host.asked
    BY <1>1, StatusInEffect DEF Over
  <2>2. /\ ~dev.stall /\ dev'.stall = dev.stall /\ dev'.state = dev.state /\ dev'.allow = dev.allow
        /\ dev'.staged = dev.staged /\ dev'.data = dev.data
    BY <2>1 DEF TakenReg, SameDfu, AckReady, AckStage
  <2>3. ~Waiting /\ ~Waiting'
    BY <2>1 DEF AckReady, Waiting
  <2>4. ~Sending /\ ~SentLast /\ ~AwaitsZero
    BY <2>1 DEF AckReady, AckStage, Sending, DataStage, SentLast, AwaitsZero, StatusStage
  <2>5. ~(dev.state = "UpLoadIdle" /\ host.asked # Unchecked)
    BY <2>3, <2>4 DEF Staged
  <2>6. host'.asked > 0 => Prepared(host.asked)'
    BY <2>1, <2>2, <2>3 DEF Staged, Prepared
  <2> QED
    BY <2>1, <2>2, <2>3, <2>5, <2>6 DEF Staged
<1>2. CASE StatusOut
  <2>1. /\ SentLast \/ AwaitsZero
        /\ rx = <<>> /\ Supplied /\ ~dev.stall /\ host'.asked = host.asked
        /\ \E p : rx' = Append(rx, p) /\ ~p.setup
    <3> DEFINE p == [setup |-> FALSE, req |-> NoRequest, size |-> 0, data |-> NoData]
    <3>1. rx' = Append(rx, p) /\ ~p.setup
      BY <1>2, StatusOutEffect
    <3>2. /\ SentLast \/ AwaitsZero
          /\ rx = <<>> /\ Supplied /\ ~dev.stall /\ host'.asked = host.asked
      BY <1>2, StatusOutEffect DEF Over
    <3> QED
      BY <3>1, <3>2
  <2>2. ~Waiting
    BY <2>1 DEF Waiting
  <2>3. ~Waiting'
    BY <2>1, <2>2, WaitingAfter
  <2>4. /\ dev'.stall = dev.stall /\ dev'.state = dev.state /\ dev'.allow = dev.allow
        /\ dev'.staged = dev.staged /\ dev'.data = dev.data /\ dev'.sent = dev.sent
        /\ dev'.in = dev.in /\ dev'.reg = dev.reg
    BY <2>1 DEF Supplied, SameDfu, SameFlags
  <2>5. ~Sending
    BY <2>1 DEF Sending, SentLast, AwaitsZero, StatusStage
  <2>6. (SentLast => SentLast') /\ (AwaitsZero => AwaitsZero')
    BY <1>2, StagesStatusOut
  <2>7. Amount' = Amount
    BY <2>4 DEF Amount
  <2>8. dev.state = "UpLoadIdle" /\ host.asked # Unchecked => (SentLast \/ AwaitsZero) /\ Amount = 1
    BY <2>2, <2>5 DEF Staged
  <2>9. host'.asked > 0 => Prepared(host.asked)'
    BY <2>1, <2>2, <2>4 DEF Staged, Prepared
  <2> QED
    BY <2>1, <2>3, <2>4, <2>6, <2>7, <2>8, <2>9 DEF Staged
<1>3. CASE SeesStall
  <2>1. /\ Settled /\ dev.stall /\ ~Waiting /\ dev' = dev /\ rx' = rx
        /\ host'.asked = StillAskedAfterStall
    BY <1>3, SeesStallEffect DEF Over
  <2>2. ~Waiting'
    BY <2>1 DEF Waiting
  <2>3. ~Sending /\ ~SentLast /\ ~AwaitsZero
    BY <2>1 DEF Sending, DataStage, SentLast, AwaitsZero, StatusStage
  <2>4. ~(dev.state = "UpLoadIdle" /\ host.asked # Unchecked)
    BY <2>1, <2>3 DEF Staged
  <2>5. host.asked \in Int
    BY HostFields
  <2>6. host'.asked # Unchecked => host.asked # Unchecked
    BY <2>1, <2>5 DEF StillAskedAfterStall, Least, Unchecked
  <2>7. host'.asked > 0 => host.req.name # "SetInterface" /\ host'.asked = host.asked
    BY <2>1, <2>5 DEF StillAskedAfterStall, Least
  <2>8. host'.asked > 0 => Prepared(host.asked)'
    BY <2>1, <2>7 DEF Staged, Prepared
  <2> QED
    BY <2>1, <2>2, <2>4, <2>6, <2>8 DEF Staged
<1> QED
  BY <1>1, <1>2, <1>3

LEMMA StagedStep ==
  ASSUME TypeOK, TypeOK', Stages, Stages', Polite, Asked, Staged, [Next]_vars
  PROVE  Staged'
<1>1. CASE BusReset
  <2>1. dev'.state = "Idle" /\ host'.asked = 0 /\ rx' = <<>>
    BY <1>1, EnumeratedFacts DEF BusReset, IdleHost
  <2> QED
    BY <2>1 DEF Staged, Waiting
<1>2. CASE UNCHANGED vars
  <2>1. dev' = dev /\ rx' = rx /\ host' = host
    BY <1>2 DEF vars
  <2>2. Waiting' = Waiting /\ Amount' = Amount
    BY <2>1 DEF Waiting, Amount
  <2>3. \A i : Prepared(i)' <=> Prepared(i)
    BY <2>1 DEF Prepared
  <2>4. (Sending => Sending') /\ (SentLast => SentLast') /\ (AwaitsZero => AwaitsZero')
    BY <2>1, <2>2 DEF Sending, DataStage, SentLast, AwaitsZero, StatusStage, ZeroBefore, Waiting, Drained,
                      Rest, InReg
  <2>5. Prepared(host.asked)' <=> Prepared(host.asked)
    BY <2>1 DEF Prepared
  <2>6. Prepared(host.expects)' <=> Prepared(host.expects)
    BY <2>1 DEF Prepared
  <2> QED
    BY <2>1, <2>2, <2>4, <2>5, <2>6 DEF Staged
<1>3. CASE HandleIn
  BY <1>3, StagedHandleIn
<1>4. CASE Handles
  BY <1>4, StagedHandleSetup
<1>5. CASE HandleOut
  BY <1>5, StagedHandleOut
<1>6. CASE SendSetup
  BY <1>6, StagedSendSetup
<1>7. CASE DataIn
  BY <1>7, StagedDataIn
<1>8. CASE DataOut
  BY <1>8, StagedDataOut
<1>9. CASE StatusIn \/ StatusOut \/ SeesStall
  BY <1>9, StagedOver
<1> QED
  BY <1>1, <1>2, <1>3, <1>4, <1>5, <1>6, <1>7, <1>8, <1>9 DEF Next, Device, Bus, Handles

-----------------------------------------------------------------------------
(* An upload sends what was staged, from the first packet to the last.     *)
LEMMA UploadHandleIn ==
  ASSUME TypeOK, TypeOK', Stages, Uploading, HandleIn
  PROVE  Uploading'
<1>1. /\ dev.sent /\ rx' = rx /\ host' = host
      /\ (SentMore /\ MoreSent) \/ (SentLast /\ Turned) \/ (AckSent /\ AckDone)
  BY HandleInEffect
<1>2. Waiting' <=> Waiting
  BY <1>1 DEF Waiting
<1>3. dev'.stall = dev.stall
  BY <1>1 DEF MoreSent, Turned, AckDone, SameDfu
<1> SUFFICES ASSUME host.req.name = "UpLoad", ~Waiting, ~dev.stall
             PROVE  Uploading'
  BY <1>1, <1>2, <1>3 DEF Uploading
<1>4. ~AckSent
  BY DEF Uploading, AckSent
<1>5. /\ dev.in.len \in Nat /\ dev.reg.size \in Nat /\ host.moved \in Nat /\ MaxPacket \in Nat
  BY HostFields, DeviceFields, SizesAssumption DEF TypeOK
<1>6. ~dev.reg.rdy /\ InReg = 0 /\ Rest = dev.in.len
  BY <1>1, <1>4, <1>5 DEF SentMore, SentLast, StatusStage, InReg, Rest
<1>7. Rest' = Rest /\ (dev'.in.len > 0 => dev'.in.data = dev.in.data /\ dev.in.len > 0)
      /\ (dev'.reg.rdy /\ dev'.reg.size > 0 => dev'.reg.data = dev.in.data /\ dev.in.len > 0)
  <2>1. CASE MoreSent
    <3>1. /\ dev'.reg.rdy /\ dev'.reg.size = Least(MaxPacket, dev.in.len) /\ dev'.reg.data = dev.in.data
          /\ dev'.in.len = dev.in.len - Least(MaxPacket, dev.in.len)
          /\ dev'.in.len > 0 => dev'.in.data = dev.in.data
      BY <2>1 DEF MoreSent
    <3>2. Least(MaxPacket, dev.in.len) \in Nat /\ Least(MaxPacket, dev.in.len) <= dev.in.len
      BY <1>5 DEF Least
    <3> QED
      BY <1>5, <1>6, <3>1, <3>2 DEF Rest, InReg
  <2>2. CASE SentLast /\ Turned
    <3>1. ~dev'.reg.rdy /\ dev'.in.len = dev.in.len /\ dev.in.len = 0
      BY <2>2 DEF Turned, SentLast, StatusStage, Drained
    <3> QED
      BY <1>6, <3>1 DEF Rest, InReg
  <2> QED
    BY <1>1, <1>4, <2>1, <2>2
<1> QED
  BY <1>1, <1>7 DEF Uploading

LEMMA UploadHandleSetup ==
  ASSUME TypeOK, TypeOK', Stages, Staged, Handles, ~misread'
  PROVE  Uploading'
<1> DEFINE d == Put(dev)
<1>1. /\ Settled /\ rx # <<>> /\ rx[1].setup /\ rx' = Tail(rx)
      /\ host' = host /\ blocks' = blocks /\ host.req \in Requests
      /\ host.req.name = "UpLoad" => dev.data # Unread
      /\ \/ Refuses(d, dev', host.req) \/ Accepts(d, dev', host.req)
         \/ Expects(d, dev', host.req) \/ Replies(d, dev', host.req)
  BY HandleSetupEffect
<1>2. Waiting
  BY <1>1 DEF Waiting, TypeOK
<1>3. d.allow = dev.allow /\ d.staged = dev.staged /\ d.data = dev.data
  BY PutFacts DEF TypeOK, SameDfu
<1> HIDE DEF d
<1> SUFFICES ASSUME host.req.name = "UpLoad", ~dev'.stall
             PROVE  Uploading'
  BY <1>1 DEF Uploading
<1>4. Reads(host.req) /\ ~Downloads(host.req)
  BY DEF Reads, Downloads
<1>5. Replies(d, dev', host.req)
  BY <1>1, <1>4 DEF Refuses, Accepts, Expects
<1>6. host.moved = 0 /\ host.phase = "dataIn"
  BY <1>1, <1>4, AfterSetup
<1> DEFINE len == Least(dev.staged, host.req.len)
           short == len < host.req.len /\ len % MaxPacket = 0
           s == Settings[host.expects]
<1>7. PICK m \in Devices : Transmits(m, dev', dev.data, len, short, FALSE)
  BY <1>3, <1>5 DEF Replies
<1>8. "UpLoad" \in dev.allow
  BY <1>3, <1>5 DEF Replies
<1>9. /\ host.expects \in DOMAIN Settings /\ s.len > 0 /\ s.len \in Nat
      /\ dev.staged = s.len /\ dev.data = <<s.up>>
  <2>1. Prepared(host.expects)
    BY <1>2 DEF Staged
  <2>2. /\ host.expects \in DOMAIN Settings /\ Allowed(s.up)
        /\ dev.staged = s.len /\ dev.data = <<s.up>>
    BY <1>1, <1>8, <2>1 DEF Prepared
  <2> QED
    BY <2>2, SettingsFacts, SizesAssumption DEF Allowed
<1>10. len \in Nat /\ len = Least(host.req.len, s.len) /\ MaxPacket \in Nat
  BY <1>1, <1>9, RequestFacts, SizesAssumption DEF Least
<1> HIDE DEF len, short
<1>11. /\ dev'.reg.rdy /\ dev'.reg.size = Least(MaxPacket, len) /\ dev'.reg.data = dev.data
       /\ dev'.in.len = len - Least(MaxPacket, len)
       /\ dev'.in.len > 0 => dev'.in.data = dev.data
  BY <1>7 DEF Transmits
<1>12. Least(MaxPacket, len) \in Nat /\ Least(MaxPacket, len) <= len
  BY <1>10 DEF Least
<1>13. Rest' = len
  BY <1>10, <1>11, <1>12 DEF Rest, InReg
<1>14. host.moved + Rest' = Least(host.req.len, s.len)
  BY <1>6, <1>10, <1>13
<1> QED
  BY <1>1, <1>6, <1>9, <1>11, <1>14 DEF Uploading

LEMMA UploadDataIn ==
  ASSUME TypeOK, TypeOK', Stages, Uploading, DataIn
  PROVE  Uploading'
<1>1. /\ Sending /\ TakenReg /\ host.phase = "dataIn"
      /\ host'.moved = host.moved + dev.reg.size
      /\ host'.data = (IF dev.reg.size > 0 THEN dev.reg.data ELSE host.data)
      /\ host'.phase = (IF host.moved + dev.reg.size >= host.req.len \/ dev.reg.size < MaxPacket
                          THEN "statusOut" ELSE "dataIn")
      /\ host'.req = host.req /\ host'.expects = host.expects /\ rx' = rx
  BY DataInEffect
<1>2. /\ dev'.stall = dev.stall /\ ~dev'.reg.rdy /\ dev'.in = dev.in
  BY <1>1 DEF TakenReg
<1>3. rx = <<>> /\ dev.reg.rdy /\ host.moved + Rest <= host.req.len
      /\ (dev.reg.size = MaxPacket \/ dev.in.len = 0)
  BY <1>1 DEF Sending, DataStage, Drained
<1>4. ~Waiting /\ ~dev.stall
  BY <1>1, <1>3 DEF Waiting, Sending, DataStage
<1> SUFFICES ASSUME host.req.name = "UpLoad"
             PROVE  Uploading'
  BY <1>1 DEF Uploading
<1>5. /\ dev.in.len \in Nat /\ dev.reg.size \in Nat /\ host.moved \in Nat /\ host.req.len \in Nat
      /\ MaxPacket \in Nat
  BY HostFields, DeviceFields, SizesAssumption DEF TypeOK
<1>6. Rest = dev.reg.size + dev.in.len /\ Rest' = dev.in.len
  BY <1>2, <1>3, <1>5 DEF Rest, InReg
<1> DEFINE s == Settings[host.expects]
<1>7. /\ host.expects \in DOMAIN Settings /\ s.len > 0
      /\ host.moved + (dev.reg.size + dev.in.len) = Least(host.req.len, s.len)
      /\ dev.reg.size > 0 => dev.reg.data = <<s.up>>
      /\ dev.in.len > 0 => dev.in.data = <<s.up>>
      /\ host.moved > 0 => host.data = <<s.up>>
  BY <1>1, <1>3, <1>4, <1>6 DEF Uploading
<1> HIDE DEF s
<1>8. host'.moved + (IF host'.phase = "dataIn" THEN Rest' ELSE 0) = Least(host.req.len, s.len)
  <2>1. CASE host'.phase = "dataIn"
    BY <1>1, <1>5, <1>6, <1>7, <2>1
  <2>2. CASE host'.phase # "dataIn"
    <3>1. host.moved + dev.reg.size >= host.req.len \/ dev.reg.size < MaxPacket
      BY <1>1, <2>2
    <3>2. dev.in.len = 0
      <4>1. host.moved + (dev.reg.size + dev.in.len) <= host.req.len
        BY <1>3, <1>6
      <4>2. CASE host.moved + dev.reg.size >= host.req.len
        <5>1. \A m, n, l, r \in Nat : m + (n + l) <= r /\ m + n >= r => l = 0
          OBVIOUS
        <5> QED
          BY <1>5, <4>1, <4>2, <5>1
      <4>3. CASE dev.reg.size < MaxPacket
        BY <1>3, <1>5, <4>3
      <4> QED
        BY <3>1, <4>2, <4>3
    <3> QED
      BY <1>1, <1>5, <1>7, <2>2, <3>2
  <2> QED
    BY <2>1, <2>2
<1>9. host'.moved > 0 => host'.data = <<s.up>>
  BY <1>1, <1>5, <1>7
<1>10. host'.phase \in {"dataIn", "statusOut"}
  BY <1>1
<1> QED
  BY <1>1, <1>2, <1>7, <1>8, <1>9, <1>10 DEF Uploading, s

LEMMA UploadStep ==
  ASSUME TypeOK, TypeOK', Stages, Polite, Staged, Uploading, [Next]_vars,
         ~misread, ~misread'
  PROVE  Uploading'
<1>1. CASE HandleOut
  <2>1. /\ rx # <<>> /\ ~rx[1].setup /\ rx' = Tail(rx) /\ host' = host
        /\ (Settled /\ Drops) \/ (AwaitsZero /\ Completes) \/ (Receiving /\ (TakesMore \/ TakesLast))
    BY <1>1, HandleOutEffect
  <2>2. (Waiting' <=> Waiting) /\ dev'.stall = dev.stall
    BY <2>1, WaitingAfter DEF Drops, Completes, TakesMore, TakesLast
  <2>3. ~(host.req.name = "UpLoad" /\ ~Waiting /\ ~dev.stall)
    <3>1. ASSUME host.req.name = "UpLoad", ~Waiting, ~dev.stall PROVE FALSE
      <4>1. host.phase \in {"dataIn", "statusOut"}
        BY <3>1 DEF Uploading
      <4> QED
        BY <2>1, <3>1, <4>1 DEF Settled, AwaitsZero, StatusStage, ZeroBefore, Receiving, Downloads
    <3> QED
      BY <3>1
  <2> QED
    BY <2>1, <2>2, <2>3 DEF Uploading
<1>2. CASE SendSetup
  <2>1. PICK r \in Requests : Started(r)
    BY <1>2, SendSetupEffect
  <2> DEFINE p == [setup |-> TRUE, req |-> r, size |-> 0, data |-> NoData]
  <2>2. rx' = Append(rx, p) /\ p.setup
    BY <2>1 DEF Started
  <2>3. Waiting'
    BY <2>2, WaitingAfter
  <2> QED
    BY <2>3 DEF Uploading
<1>3. CASE DataOut
  <2> DEFINE p == [setup |-> FALSE, req |-> NoRequest,
                   size |-> Least(MaxPacket, host.req.len - host.moved), data |-> Block]
  <2>1. rx' = Append(rx, p) /\ ~p.setup /\ Supplied /\ host.phase = "dataOut"
    BY <1>3, DataOutEffect
  <2>2. host'.req = host.req
    BY <1>3, DataOutEffect DEF TypeOK, Hosts
  <2>3. (Waiting' <=> Waiting) /\ dev'.stall = dev.stall
    BY <2>1, WaitingAfter DEF Supplied, SameFlags
  <2> QED
    BY <2>1, <2>2, <2>3 DEF Uploading
<1>4. CASE StatusIn \/ StatusOut \/ SeesStall
  <2>1. \E data, ok, asked, block : Over(data, ok, asked, block)
    <3>1. CASE StatusIn
      BY <3>1, StatusInEffect
    <3>2. CASE StatusOut
      BY <3>2, StatusOutEffect
    <3>3. CASE SeesStall
      BY <3>3, SeesStallEffect
    <3> QED
      BY <1>4, <3>1, <3>2, <3>3
  <2> QED
    BY <2>1 DEF Over, NoRequest, Uploading
<1>5. CASE BusReset
  BY <1>5 DEF BusReset, IdleHost, NoRequest, Uploading
<1>6. CASE UNCHANGED vars
  BY <1>6 DEF vars, Uploading, Waiting, Rest, InReg
<1>7. CASE HandleIn
  BY <1>7, UploadHandleIn
<1>8. CASE Handles
  BY <1>8, UploadHandleSetup
<1>9. CASE DataIn
  BY <1>9, UploadDataIn
<1> QED
  BY <1>1, <1>2, <1>3, <1>4, <1>5, <1>6, <1>7, <1>8, <1>9 DEF Next, Device, Bus, Handles

LEMMA UploadedStep ==
  ASSUME TypeOK, Stages, Polite, Uploading, UploadIsStaged, [Next]_vars,
         ~misread, ~misread'
  PROVE  UploadIsStaged'
<1>1. CASE answer' = answer
  BY <1>1 DEF UploadIsStaged
<1>2. CASE SendSetup \/ BusReset
  <2>1. answer' = NoAnswer
    BY <1>2 DEF SendSetup, BusReset
  <2> QED
    BY <2>1 DEF NoAnswer, UploadIsStaged
<1>3. CASE StatusIn
  <2>1. answer'.req = host.req /\ ~Reads(host.req)
    BY <1>3, StatusInEffect DEF Over, AckReady
  <2> QED
    BY <2>1 DEF UploadIsStaged, Reads
<1>4. CASE SeesStall
  <2>1. answer'.ok = FALSE
    BY <1>4, SeesStallEffect DEF Over
  <2> QED
    BY <2>1 DEF UploadIsStaged
<1>5. CASE StatusOut
  <2>1. /\ rx = <<>> /\ ~dev.stall /\ host.phase = "statusOut"
        /\ SentLast \/ AwaitsZero
        /\ answer'.req = host.req /\ answer'.expects = host.expects /\ answer'.moved = host.moved
        /\ answer'.data = host.data
    BY <1>5, StatusOutEffect DEF Over
  <2>2. ~Waiting
    BY <2>1 DEF Waiting
  <2>3. host.req \in Requests /\ Reads(host.req)
    BY <2>1 DEF SentLast, AwaitsZero, StatusStage, ZeroBefore
  <2>4. host.req.len \in Nat /\ host.req.len > 0 /\ host.moved \in Nat
    BY <2>3, RequestFacts, HostFields
  <2>5. host.req.name = "UpLoad" =>
          /\ host.data = <<Settings[host.expects].up>>
          /\ host.moved = Least(host.req.len, Settings[host.expects].len)
    <3>1. ASSUME host.req.name = "UpLoad"
          PROVE  /\ host.data = <<Settings[host.expects].up>>
                 /\ host.moved = Least(host.req.len, Settings[host.expects].len)
      <4>1. /\ host.expects \in DOMAIN Settings /\ Settings[host.expects].len > 0
            /\ host.moved + 0 = Least(host.req.len, Settings[host.expects].len)
            /\ host.moved > 0 => host.data = <<Settings[host.expects].up>>
        BY <2>1, <2>2, <3>1 DEF Uploading
      <4>2. Settings[host.expects].len \in Nat
        BY <4>1, SettingsFacts, SizesAssumption
      <4> QED
        BY <2>4, <4>1, <4>2 DEF Least
    <3> QED
      BY <3>1
  <2> QED
    BY <2>1, <2>5 DEF UploadIsStaged
<1>6. CASE Device \/ DataIn \/ DataOut \/ UNCHANGED vars
  BY <1>1, <1>6 DEF Device, HandleIn, HandleSetupPacket, StagingFails, HandleOut, Poll, DataIn, DataOut, vars
<1> QED
  BY <1>2, <1>3, <1>4, <1>5, <1>6 DEF Next, Bus

-----------------------------------------------------------------------------
(* The FIFO takes a packet only when it has room, and the pool follows.    *)
LEMMA BoundedStep ==
  ASSUME TypeOK, TypeOK', Stages, Polite, PoolBounded, BuffersConserved', [Next]_vars,
         ~misread, ~misread'
  PROVE  PoolBounded'
<1>1. Len(rx') <= RxDepth
  <2>1. rx \in Seq(Packets) /\ Len(rx) \in Nat /\ Len(rx) <= RxDepth /\ RxDepth \in Nat
    BY SizesAssumption DEF TypeOK, PoolBounded
  <2>2. CASE rx' = rx
    BY <2>1, <2>2
  <2>3. CASE rx # <<>> /\ rx' = Tail(rx)
    BY <2>1, <2>3, TailFacts
  <2>4. CASE SendSetup \/ DataOut \/ StatusOut
    <3>1. Len(rx) < RxDepth /\ \E p : rx' = Append(rx, p)
      BY <2>4 DEF SendSetup, DataOut, StatusOut, Room, Receive
    <3>2. Len(rx') = Len(rx) + 1
      BY <2>1, <3>1
    <3> QED
      BY <2>1, <3>1, <3>2
  <2>5. CASE BusReset
    BY <2>1, <2>5 DEF BusReset
  <2>6. CASE HandleIn \/ DataIn \/ StatusIn \/ SeesStall \/ UNCHANGED vars
    BY <2>2, <2>6 DEF HandleIn, DataIn, StatusIn, SeesStall, vars
  <2>7. CASE Handles \/ HandleOut
    BY <2>3, <2>7 DEF Handles, HandleSetupPacket, StagingFails, HandleOut
  <2> QED
    BY <2>4, <2>5, <2>6, <2>7 DEF Next, Device, Bus, Handles
<1>2. Len(rx') \in Nat /\ dev'.pool \in Int /\ RxDepth \in Nat /\ Buffers \in Nat /\ RxDepth < Buffers
  BY SizesAssumption, DeviceFields DEF TypeOK
<1>3. dev'.pool + Len(rx') + Held' = Buffers /\ Held' \in {0, 1}
  BY DEF BuffersConserved, Held
<1> QED
  BY <1>1, <1>2, <1>3 DEF PoolBounded

-----------------------------------------------------------------------------
(* The indices of a sequence that lost its head or gained an element.      *)
LEMMA IndexFacts ==
  \A n \in Nat :
    /\ \A i \in 1 .. (n - 1) : i + 1 \in 1 .. n
    /\ \A i \in 1 .. (n + 1) : i \in 1 .. n \/ i = n + 1
  OBVIOUS

(* After an upload of what was not read nothing is asked any more.         *)
LEMMA NoSetupAfter ==
  ASSUME TypeOK, ~Waiting,
         \/ rx' = rx
         \/ rx' = <<>>
         \/ rx # <<>> /\ rx' = Tail(rx)
         \/ \E p \in Packets : ~p.setup /\ rx' = Append(rx, p)
  PROVE  ~Waiting'
<1>1. rx \in Seq(Packets)
  BY DEF TypeOK
<1>2. CASE rx' = rx \/ rx' = <<>>
  BY <1>2 DEF Waiting
<1>3. CASE rx # <<>> /\ rx' = Tail(rx)
  <2>1. /\ DOMAIN rx' = 1 .. (Len(rx) - 1) /\ DOMAIN rx = 1 .. Len(rx) /\ Len(rx) \in Nat
        /\ \A i \in 1 .. (Len(rx) - 1) : rx'[i] = rx[i + 1]
    BY <1>1, <1>3, TailFacts
  <2> SUFFICES ASSUME NEW i \in DOMAIN rx', rx'[i].setup PROVE FALSE
    BY DEF Waiting
  <2>2. i \in 1 .. (Len(rx) - 1)
    BY <2>1, Zenon
  <2>3. rx[i + 1] = rx'[i]
    BY <2>1, <2>2, Zenon
  <2>4. i + 1 \in 1 .. Len(rx)
    BY <2>1, <2>2, IndexFacts, Zenon
  <2> QED
    BY <2>1, <2>3, <2>4, Zenon DEF Waiting
<1>4. CASE \E p \in Packets : ~p.setup /\ rx' = Append(rx, p)
  <2>1. PICK p \in Packets : ~p.setup /\ rx' = Append(rx, p)
    BY <1>4
  <2>2. /\ DOMAIN rx' = 1 .. (Len(rx) + 1) /\ DOMAIN rx = 1 .. Len(rx) /\ Len(rx) \in Nat
        /\ rx'[Len(rx) + 1] = p /\ \A i \in 1 .. Len(rx) : rx'[i] = rx[i]
    BY <1>1, <2>1, AppendFacts
  <2> SUFFICES ASSUME NEW i \in DOMAIN rx', rx'[i].setup PROVE FALSE
    BY DEF Waiting
  <2>3. i \in 1 .. (Len(rx) + 1)
    BY <2>2, Zenon
  <2>4. i \in 1 .. Len(rx) \/ i = Len(rx) + 1
    BY <2>2, <2>3, IndexFacts, Zenon
  <2> QED
    BY <2>1, <2>2, <2>4, Zenon DEF Waiting
<1> QED
  BY <1>2, <1>3, <1>4

LEMMA MisreadKept ==
  ASSUME TypeOK, misread, Misread, [Next]_vars
  PROVE  TypeOK' /\ misread' /\ Misread'
<1>1. /\ ~Waiting /\ host.phase # "dataOut" /\ misread \in BOOLEAN /\ rx \in Seq(Packets)
  BY DEF Misread, TypeOK
<1>2. misread'
  <2>1. CASE HandleSetupPacket
    BY <2>1 DEF HandleSetupPacket
  <2>2. CASE Bus \/ SendSetup \/ BusReset
    BY <2>2 DEF Bus, DataIn, DataOut, StatusIn, StatusOut, SeesStall, SendSetup, BusReset
  <2>3. CASE HandleIn \/ StagingFails \/ HandleOut \/ UNCHANGED vars
    BY <2>3 DEF HandleIn, StagingFails, HandleOut, vars
  <2> QED
    BY <2>1, <2>2, <2>3 DEF Next, Device
<1>3. misread' \in BOOLEAN
  BY MisreadStep
<1>4. ~Handles /\ ~SendSetup /\ ~DataOut
  <2>1. rx # <<>> => ~Head(rx).setup
    <3>1. rx # <<>> => 1 \in DOMAIN rx /\ Head(rx) = rx[1]
      BY <1>1, TailFacts
    <3> QED
      BY <1>1, <3>1 DEF Waiting
  <2> QED
    BY <1>1, <2>1 DEF Handles, HandleSetupPacket, StagingFails, SendSetup, DataOut
<1>5. CASE HandleIn
  <2>1. TypeOK' /\ rx' = rx /\ host' = host
    BY <1>3, <1>5, TypeHandleIn DEF TypeOK
  <2> QED
    BY <1>1, <1>2, <2>1, NoSetupAfter DEF Misread
<1>6. CASE HandleOut
  <2>1. rx # <<>> /\ rx' = Tail(rx) /\ host' = host
    BY <1>6, TypeHandleOut
  <2>2. rx' \in Seq(Packets)
    BY <1>1, <2>1, TailFacts
  <2>3. TypeOK'
    BY <1>3, <1>6, <2>2, TypeHandleOut DEF TypeOK
  <2> QED
    BY <1>1, <1>2, <2>1, <2>3, NoSetupAfter DEF Misread
<1>7. CASE DataIn
  <2>1. TypeOK' /\ rx' = rx /\ host'.phase # "dataOut"
    BY <1>3, <1>7, DataInMoves DEF TypeOK, TakenReg
  <2> QED
    BY <1>1, <1>2, <2>1, NoSetupAfter DEF Misread
<1>8. CASE StatusIn
  <2>1. TypeOK' /\ rx' = rx /\ host'.phase # "dataOut"
    BY <1>3, <1>8, StatusInMoves DEF TypeOK, TakenReg, Over
  <2> QED
    BY <1>1, <1>2, <2>1, NoSetupAfter DEF Misread
<1>9. CASE StatusOut
  <2> DEFINE p == [setup |-> FALSE, req |-> NoRequest, size |-> 0, data |-> NoData]
  <2>1. /\ Supplied /\ rx' = Append(rx, p) /\ Over(host.data, TRUE, host.asked, host.block)
        /\ UNCHANGED <<running, blocks, handed>>
    BY <1>9, StatusOutMoves
  <2>2. p \in Packets /\ ~p.setup
    BY DataFacts, SizesAssumption DEF Packets
  <2> HIDE DEF p
  <2>3. rx' \in Seq(Packets)
    BY <1>1, <2>1, <2>2, AppendFacts
  <2>4. TypeOK' /\ host'.phase # "dataOut"
    BY <1>3, <2>1, <2>3 DEF TypeOK, Supplied, Over
  <2> QED
    BY <1>1, <1>2, <2>1, <2>2, <2>4, NoSetupAfter DEF Misread
<1>10. CASE SeesStall
  <2>1. TypeOK' /\ rx' = rx /\ host'.phase # "dataOut"
    BY <1>3, <1>10, SeesStallMoves DEF TypeOK, Over
  <2> QED
    BY <1>1, <1>2, <2>1, NoSetupAfter DEF Misread
<1>11. CASE BusReset
  BY <1>1, <1>2, <1>3, <1>11, TypeReset, NoSetupAfter DEF Misread
<1>12. CASE UNCHANGED vars
  <2>1. TypeOK' /\ rx' = rx /\ host' = host
    BY <1>3, <1>12 DEF TypeOK, vars
  <2> QED
    BY <1>1, <1>2, <2>1, NoSetupAfter DEF Misread
<1> QED
  BY <1>4, <1>5, <1>6, <1>7, <1>8, <1>9, <1>10, <1>11, <1>12 DEF Next, Device, Bus, Handles

(* It starts with the SETUP packet of the upload, the only one there is.   *)
LEMMA MisreadStarts ==
  ASSUME TypeOK, Stages, ~misread, misread', [Next]_vars
  PROVE  Misread'
<1>1. HandleSetupPacket /\ Head(rx).req.name = "UpLoad"
  <2>1. CASE Bus \/ SendSetup \/ BusReset
    BY <2>1 DEF Bus, DataIn, DataOut, StatusIn, StatusOut, SeesStall, SendSetup, BusReset
  <2>2. CASE HandleIn \/ StagingFails \/ HandleOut \/ UNCHANGED vars
    BY <2>2 DEF HandleIn, StagingFails, HandleOut, vars
  <2>3. CASE HandleSetupPacket
    BY <2>3 DEF HandleSetupPacket
  <2> QED
    BY <2>1, <2>2, <2>3 DEF Next, Device
<1>2. /\ rx # <<>> /\ rx[1].setup /\ rx' = Tail(rx) /\ host' = host /\ blocks' = blocks
  BY <1>1, HandleSetupEffect DEF Handles
<1>3. host.req.name = "UpLoad"
  <2>1. Head(rx) = rx[1] /\ 1 \in DOMAIN rx
    BY <1>2, TailFacts DEF TypeOK
  <2> QED
    BY <1>1, <1>2, <2>1 DEF Stages, SetupWaits
<1>4. ~Waiting' /\ host.phase = "dataIn"
  BY <1>2, <1>3, AfterSetup DEF Downloads, Reads
<1> QED
  BY <1>2, <1>4 DEF Misread

LEMMA InitInv ==
  Init => IInv
<1> SUFFICES ASSUME Init PROVE IInv
  OBVIOUS
<1>1. TypeOK
  BY TypeInit
<1>2. /\ dev = Enumerated /\ rx = <<>> /\ host = IdleHost /\ handed = NotHanded
      /\ answer = NoAnswer
  BY DEF Init
<1>3. Stages
  BY <1>2, StagesStart
<1>4. /\ dev.state = "Idle" /\ dev.pool = Buffers /\ ~dev.pend /\ ~dev.sent /\ ~dev.stall
      /\ ~dev.reg.rdy
  BY <1>2, EnumeratedFacts
<1>5. /\ host.phase = "idle" /\ host.req = NoRequest /\ host.req.name = "none" /\ host.asked = 0
      /\ host.block = NoData /\ handed.data = NoData /\ answer.req.name = "none"
  BY <1>2 DEF IdleHost, NoRequest, NotHanded, NoAnswer
<1>6. ~Waiting /\ Len(rx) = 0
  BY <1>2 DEF Waiting
<1>7. BuffersConserved /\ PoolBounded
  BY <1>4, <1>6, SizesAssumption DEF BuffersConserved, PoolBounded
<1>8. BlocksInOrder
  BY <1>4, <1>5 DEF BlocksInOrder, Older, Downloads
<1>9. StatusTold
  BY <1>5 DEF StatusTold
<1>10. Asked
  BY <1>5 DEF Asked
<1>11. Staged
  BY <1>4, <1>5, <1>6 DEF Staged
<1>12. Uploading /\ UploadIsStaged
  BY <1>5 DEF Uploading, UploadIsStaged
<1>13. misread = FALSE
  BY DEF Init
<1> QED
  BY <1>1, <1>3, <1>7, <1>8, <1>9, <1>10, <1>11, <1>12, <1>13 DEF IInv, Regular

LEMMA RegularStep ==
  ASSUME TypeOK, TypeOK', ~misread, ~misread', Regular, Polite, [Next]_vars
  PROVE  Regular'
<1>1. /\ Stages /\ BuffersConserved /\ PoolBounded /\ BlocksInOrder /\ StatusTold
      /\ Asked /\ Staged /\ Uploading /\ UploadIsStaged
  BY DEF Regular
<1>3. Stages'
  BY <1>1, StagesStep
<1>4. BuffersConserved'
  BY <1>1, BuffersStep
<1>5. PoolBounded'
  BY <1>1, <1>4, BoundedStep
<1>6. BlocksInOrder'
  BY <1>1, BlocksStep
<1>7. StatusTold'
  BY <1>1, <1>3, ToldStep
<1>8. Asked' /\ Staged'
  BY <1>1, <1>3, AskedStep, StagedStep
<1>9. Uploading' /\ UploadIsStaged'
  BY <1>1, UploadStep, UploadedStep
<1> QED
  BY <1>3, <1>4, <1>5, <1>6, <1>7, <1>8, <1>9 DEF Regular

LEMMA StepInv ==
  ASSUME IInv, Polite, [Next]_vars
  PROVE  IInv'
<1>1. CASE misread
  <2>1. TypeOK /\ Misread
    BY <1>1 DEF IInv
  <2> QED
    BY <1>1, <2>1, MisreadKept DEF IInv
<1>2. CASE ~misread
  <2>1. TypeOK /\ Regular /\ Stages
    BY <1>2 DEF IInv, Regular
  <2>2. TypeOK'
    BY <2>1, TypeStep
  <2>3. CASE misread'
    BY <1>2, <2>1, <2>2, <2>3, MisreadStarts DEF IInv
  <2>4. CASE ~misread'
    BY <1>2, <2>1, <2>2, <2>4, RegularStep DEF IInv
  <2> QED
    BY <2>3, <2>4
<1> QED
  BY <1>1, <1>2

-----------------------------------------------------------------------------
(* The inductive invariant: a control transfer is in one of the stages of  *)
(* the control endpoint, of the driver and the host alike.                 *)
THEOREM InductiveInvariant ==
  ASSUME Polite
  PROVE  Spec => []IInv
<1>1. Init => IInv
  BY InitInv
<1>2. IInv /\ [Next]_vars => IInv'
  BY StepInv
<1> QED
  BY <1>1, <1>2, PTL DEF Spec

(* The driver, the packets, the host and the histories have their types:   *)
(* no length leaves its range and no block number its bound.               *)
THEOREM TypeCorrect ==
  ASSUME Polite
  PROVE  Spec => []TypeOK
<1>1. IInv => TypeOK
  BY DEF IInv
<1> QED
  BY <1>1, InductiveInvariant, PTL

(* Every packet buffer is free, received and unread, or in the endpoint's  *)
(* register: the pool of usb.c never loses one and never holds one twice.  *)
THEOREM NoBufferLost ==
  ASSUME Polite
  PROVE  Spec => []BuffersConserved
<1>1. IInv => BuffersConserved
  BY DEF IInv, Regular, BuffersConserved
<1> QED
  BY <1>1, InductiveInvariant, PTL

(* The pool stays between empty and full and the received FIFO in its      *)
(* depth: usb.c takes a buffer without asking whether there is one.        *)
THEOREM PoolSuffices ==
  ASSUME Polite
  PROVE  Spec => []PoolBounded
<1>1. IInv => PoolBounded
  BY DEF IInv, Regular, PoolBounded
<1> QED
  BY <1>1, InductiveInvariant, PTL

(* What GETSTATUS tells of a block is what rescue_recv_handler made of it. *)
THEOREM StatusIsTrue ==
  ASSUME Polite
  PROVE  Spec => []StatusTruth
<1>1. IInv => StatusTruth
  <2> SUFFICES ASSUME StatusTold PROVE StatusTruth
    BY DEF IInv, Regular, StatusTruth
  <2> QED
    BY DEF StatusTold, TellsTruth, StatusTruth
<1> QED
  BY <1>1, InductiveInvariant, PTL

(* An upload returns, whole, what the SET_INTERFACE before it staged.      *)
THEOREM UploadReturnsStaged ==
  ASSUME Polite
  PROVE  Spec => []UploadIsStaged
<1>1. IInv => UploadIsStaged
  BY DEF IInv, Regular, UploadIsStaged
<1> QED
  BY <1>1, InductiveInvariant, PTL

(* rescue_recv_handler is given only a block the host has sent completely  *)
(* and has seen acknowledged, and each block once.                         *)
THEOREM HandedOnce ==
  ASSUME Polite
  PROVE  Spec => DownloadsOnly
<1> DEFINE Handed == handed' \notin {handed, NotHanded} /\ ~misread =>
                       handed'.data = host.block /\ handed'.data # handed.data
<1>1. ASSUME IInv, [Next]_vars PROVE [Handed]_vars
  <2> SUFFICES ASSUME ~misread PROVE [Handed]_vars
    OBVIOUS
  <2>1. TypeOK /\ Stages
    BY <1>1 DEF IInv, Regular
  <2>2. CASE HandleIn
    <3>1. handed' = handed \/ (AckSent /\ AckDone)
      BY <2>1, <2>2, HandleInEffect DEF MoreSent, Turned
    <3>2. CASE AckSent /\ AckDone
      <4>1. handed' = handed \/ (dev.state = "DnLoadSync" /\ handed'.data = dev.data)
        BY <3>2 DEF AckDone, Handing
      <4>2. dev.state = "DnLoadSync" => dev.data = host.block /\ handed.data # host.block
        BY <3>2 DEF AckSent
      <4> QED
        BY <4>1, <4>2
    <3> QED
      BY <3>1, <3>2
  <2>3. CASE Handles \/ HandleOut
    <3>1. handed' = handed
      BY <2>1, <2>3, HandleSetupEffect, HandleOutEffect
    <3> QED
      BY <3>1
  <2>4. CASE BusReset
    BY <2>4 DEF BusReset
  <2>5. CASE Bus \/ SendSetup \/ UNCHANGED vars
    <3>1. handed' = handed
      BY <2>5 DEF Bus, DataIn, DataOut, StatusIn, StatusOut, SeesStall, SendSetup, vars
    <3> QED
      BY <3>1
  <2> QED
    BY <1>1, <2>2, <2>3, <2>4, <2>5 DEF Next, Device, Handles
<1> QED
  BY <1>1, InductiveInvariant, PTL DEF Spec, DownloadsOnly
=============================================================================
