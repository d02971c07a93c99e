-------------------------------- MODULE Dfu --------------------------------
(***************************************************************************)
(* Rescue over USB: control transfers of a host against the endpoint       *)
(* driver (drivers/usb.c) and the DFU state machine on top of it           *)
(* (rescue/dfu.c).  A bus transaction is one step; a pass of usb_poll that *)
(* handles one event is one step, and the host is not faster than such a   *)
(* pass: a packet that was sent is accounted for before a newer one is     *)
(* looked at.  Lengths are counted in units of which a packet holds        *)
(* MaxPacket and the rescue buffer TransferSize.                           *)
(***************************************************************************)
EXTENDS Integers, Sequences, FiniteSets

CONSTANTS
  MaxPacket, TransferSize,
  Buffers,        (* USB packet buffers.                                   *)
  RxDepth,        (* Packets the received FIFO holds.                      *)
  Forbidden,      (* Modes the owner's configuration forbids.              *)
  Requests,       (* Control requests the host makes.                      *)
  HostAbandons,   (* The host may start a request before the last ended.   *)
  HostChecks,     (* The host asks for the status after each upload.       *)
  MaxBlocks       (* Bound: download requests with data.                   *)

Names == {"DnLoad", "UpLoad", "GetStatus", "GetState", "ClrStatus", "Abort",
          "GetDescriptor", "SetInterface", "SetConfiguration"}
Reads(r) == r.name \in {"UpLoad", "GetStatus", "GetState", "GetDescriptor"}

(* A short packet ends a short answer; a full one fits in the buffer.      *)
ASSUME SizesAssumption ==
  /\ MaxPacket \in Nat /\ MaxPacket > 1
  /\ TransferSize \in Nat /\ TransferSize >= MaxPacket
  /\ RxDepth \in Nat /\ Buffers \in Nat /\ RxDepth < Buffers
  /\ MaxBlocks \in Nat

(* A host asks for data when it reads, and sends none but in downloads.    *)
ASSUME RequestsAssumption ==
  /\ Requests \subseteq [name : Names, len : Nat, setting : Nat]
  /\ \A r \in Requests : IF Reads(r) THEN r.len > 0 ELSE r.name # "DnLoad" => r.len = 0

VARIABLES
  dev,      (* The driver, the DFU context and the endpoint's registers.   *)
  rx,       (* Packets received and not yet handled.                       *)
  running,  (* No reboot yet.                                              *)
  host,     (* The control transfer in progress on the host.               *)
  blocks,   (* Download requests with data so far.                         *)
  handed,   (* History: what rescue_recv_handler was given last.           *)
  answer,   (* History: what the last completed request told the host.     *)
  misread   (* History: an upload was answered from a buffer whose staging *)
            (* had failed.                                                 *)

vars == <<dev, rx, running, host, blocks, handed, answer, misread>>

Least(a, b) == IF a < b THEN a ELSE b

(* mode_by_altsetting: what a setting sends, receives, and how much.       *)
Settings ==
  << [up |-> "none",        down |-> "Firmware",   len |-> 0],
     [up |-> "OpenTitanID", down |-> "none",       len |-> MaxPacket],
     [up |-> "BootSvcRsp",  down |-> "BootSvcReq", len |-> TransferSize - 1],
     [up |-> "OwnerPage0",  down |-> "OwnerBlock", len |-> TransferSize] >>
Allowed(mode) == mode # "none" /\ mode \notin Forbidden

NoData == <<"none">>
NoTransfer == [len |-> 0, done |-> 0, zlp |-> FALSE, ack |-> FALSE, short |-> FALSE,
               data |-> NoData]
EmptyReg == [rdy |-> FALSE, size |-> 0, data |-> NoData]

(* validate_mode: the mode that sends stages its data, then the paired     *)
(* mode takes its place.  Returns the context and whether it is accepted.  *)
Stage(d, s) ==
  IF Allowed(s.up) THEN [d EXCEPT !.mode = s.up, !.staged = s.len, !.data = <<s.up>>] ELSE d
Pair(d, s) == IF Allowed(s.down) THEN [d EXCEPT !.mode = s.down] ELSE d
Allows(s) == (IF Allowed(s.up) THEN {"UpLoad"} ELSE {})
             \cup (IF Allowed(s.down) THEN {"DnLoad"} ELSE {})
SetMode(d, s) ==
  LET e == Pair(Stage(d, s), s)
  IN  IF Allows(s) # {} THEN [e EXCEPT !.allow = Allows(s)] ELSE e
-----------------------------------------------------------------------------
(* drivers/usb.c: transfers of the control endpoint.                       *)
Put(d) == [d EXCEPT !.pool = @ + 1]

SendPacket(d) ==
  LET chunk == Least(MaxPacket, d.in.len)
  IN  [d EXCEPT !.pool = @ - 1,
                !.in.len = @ - chunk,
                !.in.short = @ /\ chunk = MaxPacket,
                !.in.data = IF chunk < d.in.len THEN @ ELSE NoData,
                !.reg = [rdy |-> TRUE, size |-> chunk, data |-> d.in.data]]

(* usb_ep_transfer: data is followed by a zero-length packet the other way. *)
InTransfer(d, data, len, short, ack) ==
  SendPacket([d EXCEPT !.in = [len |-> len, done |-> 0, zlp |-> len > 0, ack |-> ack,
                               short |-> short, data |-> data]])
OutTransfer(d, len, ack) ==
  [d EXCEPT !.out = [len |-> len, done |-> 0, zlp |-> len > 0, ack |-> ack,
                     short |-> FALSE, data |-> NoData]]
Acknowledge(d) == InTransfer(d, NoData, 0, FALSE, FALSE)
Stalled(d) == [d EXCEPT !.stall = TRUE]

(* dfu_state_table: the requests the state machine answers, and the next   *)
(* state.                                                                  *)
States == {"Idle", "DnLoadSync", "DnLoadIdle", "ManifestSync", "UpLoadIdle", "Error"}
Answered(name, state) ==
  CASE name = "DnLoad" -> state \in {"Idle", "DnLoadIdle"}
    [] name = "UpLoad" -> state \in {"Idle", "UpLoadIdle"}
    [] name \in {"GetStatus", "GetState"} -> TRUE
    [] name = "ClrStatus" -> state = "Error"
    [] name = "Abort" -> state # "Error"
    [] OTHER -> FALSE

NextState(name, state, len) ==
  IF ~Answered(name, state)
    THEN IF name = "ClrStatus" /\ state = "Idle" THEN "Idle" ELSE "Error"
    ELSE CASE name = "DnLoad" -> IF len > 0 THEN "DnLoadSync"
                                 ELSE IF state = "Idle" THEN "Error" ELSE "ManifestSync"
           [] name = "UpLoad" -> IF state = "UpLoadIdle" /\ len = 0 THEN "Idle" ELSE "UpLoadIdle"
           [] name = "GetStatus" -> CASE state = "DnLoadSync" -> "DnLoadIdle"
                                      [] state = "ManifestSync" -> "Idle"
                                      [] OTHER -> state
           [] name = "GetState" -> CASE state = "DnLoadSync" -> "DnLoadIdle"
                                     [] state = "Idle" -> "UpLoadIdle"
                                     [] OTHER -> state
           [] name \in {"ClrStatus", "Abort"} -> "Idle"

(* Mutant: a short upload is not ended by an empty packet.                 *)
DataXferUnended(d, r) ==
  IF r.len > TransferSize \/ r.name \notin d.allow
    THEN Stalled([d EXCEPT !.state = "Error", !.error = "Unknown"])
    ELSE IF r.name = "DnLoad"
           THEN IF r.len = 0 THEN Acknowledge(d) ELSE OutTransfer(d, r.len, FALSE)
           ELSE InTransfer(d, d.data, Least(d.staged, r.len), FALSE, FALSE)

(* dfu_control.  Its check of offset against flash_limit cannot fail: a    *)
(* block fills the buffer from its start, and the limit is a bank's end    *)
(* (rescue_state_init) or beyond the ROM_EXT (owner_block_rescue_check).   *)
DataXfer(d, r) ==
  IF r.len > TransferSize \/ r.name \notin d.allow
    THEN Stalled([d EXCEPT !.state = "Error", !.error = "Unknown"])
    ELSE IF r.name = "DnLoad"
           THEN IF r.len = 0 THEN Acknowledge(d) ELSE OutTransfer(d, r.len, FALSE)
           ELSE LET len == Least(d.staged, r.len)
                IN  InTransfer(d, d.data, len, len < r.len /\ len % MaxPacket = 0, FALSE)

DfuControl(d, r) ==
  LET e == [d EXCEPT !.state = NextState(r.name, d.state, r.len)]
  IN  IF ~Answered(r.name, d.state)
        THEN Stalled([e EXCEPT !.error = "StalledPkt"])
        ELSE CASE r.name \in {"DnLoad", "UpLoad"} -> DataXfer(e, r)
               [] r.name = "GetStatus" -> InTransfer(e, <<e.error, e.state>>, 1, FALSE, FALSE)
               [] r.name = "GetState" -> InTransfer(e, <<e.state>>, 1, FALSE, FALSE)
               [] r.name = "ClrStatus" -> Acknowledge([e EXCEPT !.error = "Ok"])
               [] r.name = "Abort" -> Acknowledge(e)

(* interface_request, set_configuration, and a descriptor shorter than     *)
(* what is asked.                                                          *)
SetInterface(d, r) ==
  IF r.setting \in DOMAIN Settings /\ Allows(Settings[r.setting]) # {}
    THEN Acknowledge(SetMode(d, Settings[r.setting]))
    ELSE Stalled(d)
SetConfiguration(d) ==
  Acknowledge(SetMode([d EXCEPT !.state = "Idle", !.error = "Ok"], Settings[1]))

HandleSetup(d, r) ==
  CASE r.name = "SetInterface" -> SetInterface(d, r)
    [] r.name = "SetConfiguration" -> SetConfiguration(d)
    [] r.name = "GetDescriptor" -> InTransfer(d, <<"descriptor">>, 1, FALSE, FALSE)
    [] OTHER -> DfuControl(d, r)

(* Mutants: a failure is not recorded; every completion ends an upload;    *)
(* the state stays DnLoadSync.                                             *)
DoneForgives(d, len, error, ok) ==
  LET e == CASE d.state = "DnLoadSync" -> [d EXCEPT !.state = "DnLoadIdle"]
             [] d.state = "UpLoadIdle" ->
                  [d EXCEPT !.state = IF len < TransferSize THEN "Idle" ELSE @, !.staged = 0]
             [] OTHER -> d
  IN  IF error THEN [e EXCEPT !.state = "Error", !.error = "Unknown"] ELSE e
DoneDrops(d, len, error, ok) ==
  LET e == CASE d.state = "DnLoadSync" ->
                  [d EXCEPT !.state = "DnLoadIdle", !.error = IF ok THEN "Ok" ELSE "Vendor"]
             [] d.state = "UpLoadIdle" /\ len < TransferSize -> [d EXCEPT !.state = "Idle"]
             [] OTHER -> d
  IN  IF error THEN [e EXCEPT !.state = "Error", !.error = "Unknown"]
      ELSE [e EXCEPT !.staged = 0]

(* dfu_protocol_handler, a transfer that is done: the buffer is filled up  *)
(* and handed to rescue_recv_handler, or an upload ends.                   *)
Done(d, len, error, ok) ==
  LET e == CASE d.state = "DnLoadSync" ->
                  [d EXCEPT !.state = "DnLoadIdle", !.error = IF ok THEN "Ok" ELSE "Vendor"]
             [] d.state = "UpLoadIdle" ->
                  [d EXCEPT !.state = IF len < TransferSize THEN "Idle" ELSE @, !.staged = 0]
             [] OTHER -> d
  IN  IF error THEN [e EXCEPT !.state = "Error", !.error = "Unknown"] ELSE e
NotHanded == [data |-> NoData, ok |-> TRUE]
Hands(d, ok) ==
  handed' = IF d.state = "DnLoadSync" THEN [data |-> d.data, ok |-> ok] ELSE handed
-----------------------------------------------------------------------------
Poll == running /\ UNCHANGED <<running, host, blocks, answer>>

(* handle_in: the next packet, the turn-around of a control transfer, or   *)
(* the end of the transfer.                                                *)
HandleIn ==
  LET d == [Put(dev) EXCEPT !.sent = FALSE, !.pend = FALSE, !.reg = EmptyReg]
      e == IF dev.pend THEN d ELSE [d EXCEPT !.in.done = @ + dev.reg.size]
      more == dev.in.len > 0 \/ dev.in.short
      len == IF dev.in.ack THEN dev.out.done ELSE e.in.done
  IN  /\ Poll
      /\ dev.sent
      /\ UNCHANGED <<rx, misread>>
      /\ CASE ~dev.pend /\ more -> dev' = SendPacket(e) /\ UNCHANGED handed
           [] ~dev.pend /\ ~more /\ dev.in.zlp -> dev' = OutTransfer(e, 0, TRUE) /\ UNCHANGED handed
           [] OTHER -> \E ok \in BOOLEAN :
                         /\ dev' = Done([e EXCEPT !.in.ack = FALSE], len, dev.pend, ok)
                         /\ Hands(dev, ok)

(* Mutant: the buffer of a SETUP packet does not return to the pool.       *)
HandleSetupPacketKeeps ==
  /\ Poll
  /\ ~dev.sent
  /\ rx # <<>> /\ Head(rx).setup
  /\ dev' = HandleSetup(dev, Head(rx).req)
  /\ rx' = Tail(rx)
  /\ UNCHANGED <<handed, misread>>

(* handle_out: a SETUP packet.                                             *)
Unread == <<"unread">>   (* The buffer after a read of the flash that failed. *)
HandleSetupPacket ==
  /\ Poll
  /\ ~dev.sent
  /\ rx # <<>> /\ Head(rx).setup
  /\ dev' = HandleSetup(Put(dev), Head(rx).req)
  /\ rx' = Tail(rx)
  /\ misread' = (misread \/ (Head(rx).req.name = "UpLoad" /\ dev.data = Unread))
  /\ UNCHANGED handed

(* The same, for a SET_INTERFACE whose owner page cannot be read: what     *)
(* rescue_send_handler returns is not looked at.  The buffer holds what    *)
(* came from the flash, the length staged stays, the mode is accepted.     *)
StagingFails ==
  LET r == Head(rx).req
      up == "OwnerPage0"
  IN  /\ Poll
      /\ ~dev.sent
      /\ rx # <<>> /\ Head(rx).setup
      /\ r.name = "SetInterface" /\ r.setting \in DOMAIN Settings
      /\ Settings[r.setting].up = up /\ Allowed(up)
      /\ dev' = [HandleSetup(Put(dev), r) EXCEPT !.data = Unread, !.staged = dev.staged]
      /\ rx' = Tail(rx)
      /\ UNCHANGED <<handed, misread>>

(* handle_out: a data packet.                                              *)
HandleOut ==
  LET p == Head(rx)
      error == p.size > dev.out.len
      chunk == Least(p.size, dev.out.len)
      d == [Put(dev) EXCEPT !.out.len = @ - chunk, !.out.done = @ + chunk,
                            !.data = IF chunk > 0 THEN p.data ELSE @]
      ends == error \/ d.out.len = 0 \/ chunk < MaxPacket
      len == IF dev.out.ack THEN dev.in.done ELSE d.out.done
  IN  /\ Poll
      /\ ~dev.sent
      /\ rx # <<>> /\ ~p.setup
      /\ rx' = Tail(rx)
      /\ UNCHANGED misread
      /\ CASE ~ends -> dev' = d /\ UNCHANGED handed
           [] ends /\ ~error /\ dev.out.zlp ->
                dev' = InTransfer(d, NoData, 0, FALSE, TRUE) /\ UNCHANGED handed
           [] OTHER -> \E ok \in BOOLEAN :
                         /\ dev' = Done([d EXCEPT !.out.ack = FALSE], len, error, ok)
                         /\ Hands(d, ok)
-----------------------------------------------------------------------------
(* The host's side of a control transfer, one bus transaction at a time.   *)
NoRequest == [name |-> "none", len |-> 0, setting |-> 0]
IdleHost == [phase |-> "idle", req |-> NoRequest, moved |-> 0, data |-> NoData,
             asked |-> 0, expects |-> 0, block |-> NoData]
NoAnswer == [req |-> NoRequest, expects |-> 0, moved |-> 0, data |-> NoData, ok |-> FALSE]

(* A packet is received in a buffer that is free, whether in the pool or   *)
(* among those fill_fifos has handed to the hardware.                      *)
Room == Len(rx) < RxDepth
Receive(p) == rx' = Append(rx, p) /\ UNCHANGED <<running>>
Block == <<"block", blocks>>

(* The setting whose data the host may upload: that of its last            *)
(* SET_INTERFACE, until it uploads, downloads or configures.               *)
Unchecked == 0 - 1
StillAsked(r) ==
  CASE r.name = "SetInterface" -> IF host.asked = Unchecked THEN Unchecked ELSE r.setting
    [] r.name = "UpLoad" -> IF HostChecks THEN Unchecked ELSE 0
    [] r.name \in {"DnLoad", "GetState", "SetConfiguration"} -> Least(host.asked, 0)
    [] r.name = "GetStatus" -> IF host.asked = Unchecked THEN 0 ELSE host.asked
    [] OTHER -> host.asked

Disciplined(r) == r.name = "UpLoad" => host.asked > 0

(* Bound: no request after an upload of what was not read (misread), of    *)
(* which no property but TypeOK speaks.                                    *)
SendSetup ==
  /\ running /\ Room /\ ~misread
  /\ host.phase = "idle" \/ HostAbandons
  /\ \E r \in Requests :
       /\ ~HostAbandons => Disciplined(r)
       /\ r.name = "DnLoad" /\ r.len > 0 => blocks < MaxBlocks
       /\ blocks' = IF r.name = "DnLoad" /\ r.len > 0 THEN blocks + 1 ELSE blocks
       /\ Receive([setup |-> TRUE, req |-> r, size |-> 0, data |-> NoData])
       /\ host' = [host EXCEPT !.phase = CASE r.len = 0 -> "statusIn"
                                           [] r.len > 0 /\ Reads(r) -> "dataIn"
                                           [] OTHER -> "dataOut",
                               !.req = r, !.moved = 0, !.data = NoData,
                               !.asked = StillAsked(r),
                               !.expects = IF r.name = "UpLoad" THEN host.asked ELSE 0]
  (* The hardware clears the stall and cancels a packet not yet sent.      *)
  /\ dev' = [dev EXCEPT !.stall = FALSE, !.pool = @ - 1,
                        !.pend = @ \/ dev.reg.rdy, !.reg.rdy = FALSE]
  /\ answer' = NoAnswer
  /\ UNCHANGED <<handed, misread>>

(* The request ends, and its answer is kept until the next one starts.     *)
Ends(data, ok, asked, block) ==
  /\ answer' = [req |-> host.req, expects |-> host.expects, moved |-> host.moved,
                data |-> data, ok |-> ok]
  /\ host' = [IdleHost EXCEPT !.asked = asked, !.block = block]

(* Until the SETUP packet is handled, reads are answered NAK.              *)
DataIn ==
  /\ running /\ host.phase = "dataIn"
  /\ dev.reg.rdy /\ ~dev.stall
  /\ LET moved == host.moved + dev.reg.size
     IN  host' = [host EXCEPT !.moved = moved,
                              !.data = IF dev.reg.size > 0 THEN dev.reg.data ELSE @,
                              !.phase = IF moved >= host.req.len \/ dev.reg.size < MaxPacket
                                          THEN "statusOut" ELSE @]
  /\ dev' = [dev EXCEPT !.reg.rdy = FALSE, !.sent = TRUE]
  /\ UNCHANGED <<rx, running, blocks, handed, answer, misread>>

DataOut ==
  /\ running /\ Room /\ host.phase = "dataOut" /\ ~dev.stall
  /\ LET size == Least(MaxPacket, host.req.len - host.moved)
     IN  /\ Receive([setup |-> FALSE, req |-> NoRequest, size |-> size, data |-> Block])
         /\ host' = [host EXCEPT !.moved = @ + size,
                                 !.phase = IF host.moved + size = host.req.len
                                             THEN "statusIn" ELSE @]
  /\ dev' = [dev EXCEPT !.pool = @ - 1]
  /\ UNCHANGED <<blocks, handed, answer, misread>>

StatusIn ==
  /\ running /\ host.phase = "statusIn"
  /\ dev.reg.rdy /\ ~dev.stall
  /\ dev' = [dev EXCEPT !.reg.rdy = FALSE, !.sent = TRUE]
  /\ Ends(NoData, TRUE, host.asked,
          IF host.req.name = "DnLoad" /\ host.req.len > 0 THEN Block ELSE host.block)
  /\ UNCHANGED <<rx, running, blocks, handed, misread>>

StatusOut ==
  /\ running /\ Room /\ host.phase = "statusOut" /\ ~dev.stall
  /\ Receive([setup |-> FALSE, req |-> NoRequest, size |-> 0, data |-> NoData])
  /\ dev' = [dev EXCEPT !.pool = @ - 1]
  /\ Ends(host.data, TRUE, host.asked, host.block)
  /\ UNCHANGED <<blocks, handed, misread>>

SeesStall ==
  /\ running /\ host.phase # "idle" /\ dev.stall
  /\ Ends(NoData, FALSE,
          IF host.req.name = "SetInterface" THEN Least(host.asked, 0) ELSE host.asked,
          host.block)
  /\ UNCHANGED <<dev, rx, running, blocks, handed, misread>>

(* usb_ep_init and set_configuration.                                      *)
Enumerated ==
  SetMode([state |-> "Idle", error |-> "Ok", allow |-> {}, mode |-> "none", staged |-> 0,
           data |-> NoData, in |-> NoTransfer, out |-> NoTransfer, reg |-> EmptyReg,
           pend |-> FALSE, sent |-> FALSE, stall |-> FALSE, pool |-> Buffers], Settings[1])

(* A bus reset after enumeration reboots the chip.                         *)
BusReset ==
  /\ running
  /\ running' = FALSE
  /\ dev' = Enumerated /\ rx' = <<>> /\ host' = IdleHost /\ blocks' = 0
  /\ handed' = NotHanded /\ answer' = NoAnswer /\ UNCHANGED misread
-----------------------------------------------------------------------------
Init ==
  /\ dev = Enumerated
  /\ rx = <<>>
  /\ running = TRUE
  /\ host = IdleHost
  /\ blocks = 0
  /\ handed = NotHanded
  /\ answer = NoAnswer
  /\ misread = FALSE

Device == HandleIn \/ HandleSetupPacket \/ StagingFails \/ HandleOut
Bus == DataIn \/ DataOut \/ StatusIn \/ StatusOut \/ SeesStall
Next == Device \/ Bus \/ SendSetup \/ BusReset
Spec == Init /\ [][Next]_vars
FairSpec == Spec /\ WF_vars(Device) /\ WF_vars(Bus)
-----------------------------------------------------------------------------
Errors == {"Ok", "Vendor", "Unknown", "StalledPkt"}
Data ==
  {NoData, Unread, <<"descriptor">>} \cup {<<"block", n>> : n \in 0 .. MaxBlocks}
  \cup {<<Settings[i].up>> : i \in DOMAIN Settings}
  \cup {<<s>> : s \in States} \cup {<<e, s>> : e \in Errors, s \in States}
Modes == {"none", "Firmware", "OpenTitanID", "BootSvcRsp", "BootSvcReq", "OwnerPage0", "OwnerBlock"}
Transfers == [len : 0 .. TransferSize, done : Nat, zlp : BOOLEAN, ack : BOOLEAN, short : BOOLEAN,
              data : Data]
Registers == [rdy : BOOLEAN, size : 0 .. TransferSize, data : Data]
Devices ==
  [state : States, error : Errors, allow : SUBSET {"UpLoad", "DnLoad"}, mode : Modes,
   staged : 0 .. TransferSize, data : Data, in : Transfers, out : Transfers, reg : Registers,
   pend : BOOLEAN, sent : BOOLEAN, stall : BOOLEAN, pool : Int]
Packets == [setup : BOOLEAN, req : Requests \cup {NoRequest}, size : 0 .. MaxPacket, data : Data]
Phases == {"idle", "dataIn", "dataOut", "statusIn", "statusOut"}
Hosts == [phase : Phases, req : Requests \cup {NoRequest}, moved : Nat, data : Data, asked : Int,
          expects : Int, block : Data]

TypeOK ==
  /\ dev \in Devices /\ rx \in Seq(Packets) /\ running \in BOOLEAN /\ host \in Hosts
  /\ blocks \in 0 .. MaxBlocks
  /\ handed \in [data : Data, ok : BOOLEAN] /\ misread \in BOOLEAN
  /\ answer \in [req : Requests \cup {NoRequest}, expects : Int, moved : Nat, data : Data, ok : BOOLEAN]

(* What follows an upload whose staging failed is left out below: with     *)
(* nothing staged before, it is answered by an empty packet and no status  *)
(* stage, as if it were a request without data.                            *)

(* The pool and the received FIFO never overflow or underflow.             *)
PoolBounded == ~misread => dev.pool \in 0 .. Buffers /\ Len(rx) <= RxDepth

(* Every packet buffer is free, received and unread, or in the register of *)
(* the endpoint: none is lost and none is used twice (usb.c, buffer_pool). *)
BuffersConserved ==
  ~misread => dev.pool + Len(rx) + (IF dev.reg.rdy \/ dev.sent \/ dev.pend THEN 1 ELSE 0) = Buffers

(* rescue_recv_handler is given a block the host has sent completely, once *)
(* ("If we're in the DnLoadSync state and we completed a transfer, that    *)
(* means the rescue buffer has data to process", dfu.c).                   *)
DownloadsOnly ==
  [][handed' \notin {handed, NotHanded} /\ ~misread =>
       handed'.data = host.block /\ handed'.data # handed.data]_vars

(* What GETSTATUS tells of the last block is what became of it: it was     *)
(* handed to the receive handler, which succeeded or failed, before the    *)
(* status was composed.                                                    *)
StatusTruth ==
  /\ ~misread
  /\ answer.req.name = "GetStatus" /\ answer.ok
  /\ answer.data[2] = "DnLoadIdle" /\ host.block = Block
  => /\ handed.data = Block
     /\ answer.data[1] \in {"Ok", "Vendor"} => (handed.ok <=> answer.data[1] = "Ok")

(* An upload returns, whole, what the SET_INTERFACE before it staged ("A   *)
(* prior `SetInterface` command will have staged the requested content     *)
(* into the buffer", dfu.c), unless it could not be read from the flash,   *)
(* and downloads and requests in between leave it alone or end it.         *)
UploadIsStaged ==
  ~misread /\ answer.req.name = "UpLoad" /\ answer.ok /\ answer.expects > 0 =>
    /\ answer.data = <<Settings[answer.expects].up>>
    /\ answer.moved = Least(answer.req.len, Settings[answer.expects].len)

(* Every control transfer ends, with a status or a stall, also when the    *)
(* device has less to send than the host asks for.                         *)
TransferEnds == host.phase # "idle" ~> host.phase = "idle" \/ ~running \/ misread
-----------------------------------------------------------------------------
(* The inductive invariant, of a host that ends each request and asks for  *)
(* the status after an upload.  A control transfer is settled, sends data, *)
(* awaits the host's empty packet, receives data, or acknowledges.         *)
Waiting == \E i \in DOMAIN rx : rx[i].setup
Fresh(i) == \E j \in 1 .. (i - 1) : rx[j].setup

Downloads(r) == r.name = "DnLoad" /\ r.len > 0
Drained == dev.in.len = 0 /\ ~dev.in.short
InReg == IF dev.reg.rdy THEN dev.reg.size ELSE 0
Rest == InReg + dev.in.len
Amount == dev.in.done + (IF dev.reg.rdy \/ dev.sent THEN dev.reg.size ELSE 0) + dev.in.len

(* The packets of a download from the first on, of which left is unread.   *)
Ahead(left, n) == IF left > n * MaxPacket THEN left - n * MaxPacket ELSE 0
Stream(first, left) ==
  /\ \A i \in first .. Len(rx) :
       /\ ~rx[i].setup /\ rx[i].data = Block
       /\ Ahead(left, i - first) > 0
       /\ rx[i].size = Least(MaxPacket, Ahead(left, i - first))
  /\ host.req.len - host.moved = Ahead(left, Len(rx) + 1 - first)
  /\ host.phase = IF host.moved < host.req.len THEN "dataOut" ELSE "statusIn"

(* The SETUP packet that has not been handled is that of the request.      *)
SetupWaits ==
  \A i \in DOMAIN rx : rx[i].setup =>
    /\ rx[i].req = host.req /\ host.req \in Requests
    /\ ~dev.stall /\ ~dev.reg.rdy
    /\ IF Downloads(host.req) THEN Stream(i + 1, host.req.len)
       ELSE /\ i = Len(rx) /\ host.moved = 0
            /\ host.phase = IF Reads(host.req) THEN "dataIn" ELSE "statusIn"

NoneBefore == rx = <<>> \/ rx[1].setup
ZeroBefore ==
  /\ rx # <<>> /\ ~rx[1].setup /\ rx[1].size = 0
  /\ IF Waiting THEN Len(rx) > 1 /\ rx[2].setup ELSE Len(rx) = 1 /\ host.phase = "idle"

Settled ==
  /\ ~dev.sent /\ ~dev.reg.rdy /\ dev.out.len = 0
  /\ dev.state # "DnLoadSync"
  /\ \A i \in DOMAIN rx : ~rx[i].setup /\ ~Fresh(i) => rx[i].size > 0 /\ dev.state = "Error"
  /\ Waiting \/ dev.stall \/ host.phase = "idle"

DataStage ==
  /\ ~dev.stall /\ rx = <<>> /\ host.phase = "dataIn" /\ host.req \in Requests /\ Reads(host.req)
  /\ dev.in.zlp /\ dev.out.len = 0 /\ dev.state # "DnLoadSync"
  /\ host.moved + Rest <= host.req.len
  /\ dev.in.short => host.moved + Rest < host.req.len /\ dev.in.len % MaxPacket = 0
  /\ \/ host.moved + Rest = host.req.len
     \/ dev.in.short
     \/ Rest % MaxPacket # 0
     \/ dev.reg.rdy /\ dev.reg.size < MaxPacket

Sending ==
  /\ dev.reg.rdy /\ ~dev.sent /\ DataStage
  /\ dev.reg.size <= MaxPacket
  /\ dev.reg.size = MaxPacket \/ Drained

SentMore == dev.sent /\ ~dev.reg.rdy /\ DataStage /\ ~Drained

StatusStage ==
  /\ ~dev.stall /\ ~dev.reg.rdy /\ dev.out.len = 0 /\ dev.state # "DnLoadSync"
  /\ Drained
  /\ \/ ZeroBefore
     \/ rx = <<>> /\ host.phase = "statusOut" /\ host.req \in Requests /\ Reads(host.req)

SentLast == dev.sent /\ dev.in.zlp /\ StatusStage
AwaitsZero == ~dev.sent /\ ~dev.out.zlp /\ dev.out.ack /\ StatusStage

Receiving ==
  /\ ~dev.stall /\ ~dev.sent /\ ~dev.reg.rdy
  /\ Downloads(host.req) /\ host.req \in Requests
  /\ dev.state = "DnLoadSync"
  /\ dev.out.len > 0 /\ dev.out.zlp
  /\ Stream(1, dev.out.len)

AckStage == ~dev.stall /\ Drained /\ ~dev.in.zlp /\ dev.out.len = 0
AckReady ==
  /\ dev.reg.rdy /\ ~dev.sent /\ AckStage
  /\ rx = <<>> /\ host.phase = "statusIn" /\ host.req \in Requests /\ ~Reads(host.req)
  /\ dev.state = "DnLoadSync" <=> Downloads(host.req)
  /\ Downloads(host.req) => dev.data = Block

AckSent ==
  /\ dev.sent /\ ~dev.reg.rdy /\ AckStage /\ NoneBefore
  /\ Waiting \/ host.phase = "idle"
  /\ dev.state = "DnLoadSync" => dev.data = host.block /\ handed.data # host.block

Stages ==
  /\ ~dev.pend
  /\ SetupWaits
  /\ Settled \/ Sending \/ SentMore \/ SentLast \/ AwaitsZero \/ Receiving \/ AckReady \/ AckSent

(* Blocks are handed over in order, and DnLoadIdle says what became of the *)
(* last one.                                                               *)
Older(data) == data = NoData \/ \E n \in 0 .. (blocks - 1) : data = <<"block", n>>
BlocksInOrder ==
  /\ Older(handed.data) \/ handed.data = Block
  /\ Older(host.block) \/ host.block = Block
  /\ Downloads(host.req) => Older(handed.data) /\ Older(host.block)
  /\ dev.state = "DnLoadIdle" =>
       /\ handed.data = host.block /\ dev.error \in {"Ok", "Vendor"}
       /\ handed.ok <=> dev.error = "Ok"

(* What a GETSTATUS in progress, and one that has ended, tells.            *)
TellsTruth(data) ==
  data[2] = "DnLoadIdle" =>
    /\ handed.data = host.block
    /\ data[1] \in {"Ok", "Vendor"} => (handed.ok <=> data[1] = "Ok")
StatusTold ==
  /\ host.req.name = "GetStatus" /\ ~Waiting =>
       /\ host.phase = "dataIn" => Sending /\ dev.reg.size = 1 /\ TellsTruth(dev.reg.data)
       /\ host.phase = "statusOut" => TellsTruth(host.data)
       /\ ~dev.stall
  /\ answer.req.name = "GetStatus" /\ answer.ok =>
       host.phase = "idle" /\ dev.state # "DnLoadSync" /\ TellsTruth(answer.data)

(* What SET_INTERFACE staged stays until it is uploaded.                   *)
Prepared(i) ==
  /\ dev.state \notin {"UpLoadIdle", "DnLoadSync"}
  /\ "UpLoad" \in dev.allow =>
       /\ i \in DOMAIN Settings /\ Allowed(Settings[i].up)
       /\ dev.data # Unread => dev.staged = Settings[i].len /\ dev.data = <<Settings[i].up>>
Asked ==
  /\ host.phase = "idle" => host.req = NoRequest
  /\ host.req.name \in {"DnLoad", "GetState", "SetConfiguration"} => host.asked <= 0
  /\ host.req.name = "UpLoad" => host.asked = Unchecked
  /\ host.req.name = "SetInterface" /\ host.asked > 0 => host.asked = host.req.setting
Staged ==
  /\ host.asked > 0 /\ (Waiting \/ dev.stall => host.req.name # "SetInterface") => Prepared(host.asked)
  /\ Waiting /\ host.req.name = "UpLoad" => host.expects > 0 /\ Prepared(host.expects)
  /\ dev.state = "UpLoadIdle" /\ host.asked # Unchecked =>
       \/ Waiting /\ host.req.name = "GetStatus"
       \/ (Sending \/ SentLast \/ AwaitsZero) /\ Amount = 1

(* What an upload in progress has sent and will send.                      *)
Uploading ==
  host.req.name = "UpLoad" /\ ~Waiting /\ ~dev.stall =>
    /\ host.expects \in DOMAIN Settings
    /\ LET s == Settings[host.expects]
       IN  /\ host.phase \in {"dataIn", "statusOut"} /\ s.len > 0
           /\ host.moved + (IF host.phase = "dataIn" THEN Rest ELSE 0) = Least(host.req.len, s.len)
           /\ dev.reg.rdy /\ dev.reg.size > 0 => dev.reg.data = <<s.up>>
           /\ dev.in.len > 0 => dev.in.data = <<s.up>>
           /\ host.moved > 0 => host.data = <<s.up>>

Regular ==
  /\ Stages /\ BuffersConserved /\ PoolBounded /\ BlocksInOrder /\ StatusTold
  /\ Asked /\ Staged /\ Uploading /\ UploadIsStaged

(* After an upload of what was not read, the last request runs its course. *)
Misread == ~Waiting /\ host.phase # "dataOut"

IInv == TypeOK /\ IF misread THEN Misread ELSE Regular
=============================================================================
