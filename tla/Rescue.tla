------------------------------- MODULE Rescue -------------------------------
(***************************************************************************)
(* Serial rescue: the device of RescueDevice, the host of opentitanlib     *)
(* (rescue/serial.rs, rescue/xmodem.rs) and the serial line between them,  *)
(* which may damage or lose what it carries.  The line keeps the order,    *)
(* and a CRC-16 that matches is taken as proof that a payload is intact.   *)
(***************************************************************************)
EXTENDS RescueDevice

CONSTANTS
  Scripts,     (* The scripts to choose from: sequences of requests        *)
               (* [mode, len, romExt, type]; len is in blocks, mode "none" *)
               (* leaves the device in its default mode.                   *)
  MaxErrors,   (* Xmodem.max_errors, over a whole transfer.                *)
  Faults,      (* What the line may do.                                    *)
  MaxFaults    (* Bound on the number of faults.                           *)

FaultKinds == {"payload", "number", "short", "start", "eof", "command", "reply"}

ASSUME HostAssumption ==
  /\ MaxErrors \in Nat \ {0}
  /\ MaxFaults \in Nat
  /\ Faults \subseteq FaultKinds
  /\ Scripts \subseteq Seq([mode : Commands \cup {"none"}, len : Nat, romExt : BOOLEAN,
                      type : {"none", "unlock", "activate"}])
  /\ \A s \in Scripts : \A r \in 1 .. Len(s) : s[r].mode = "none" => r = 1

VARIABLES
  host,    (* Where the host's program is.                                 *)
  faults   (* How many faults have happened.                               *)

vars == <<script, toDevice, toHost, dev, flash, ownerPage, message, host, faults>>

Request == script[host.at]

HostInit ==
  host = [pc |-> "idle", at |-> 1, block |-> 0, errors |-> 0, cancels |-> 0, last |-> "none"]

Init == script \in Scripts /\ DeviceInit /\ HostInit /\ faults = 0

-----------------------------------------------------------------------------
Write(m) == toDevice' = Append(toDevice, m)

(* A read blocks until a character arrives.                                *)
Reads(pc) ==
  /\ host.pc = pc
  /\ toHost # <<>>
  /\ toHost' = Tail(toHost)

HostKeeps == UNCHANGED <<script, devVars, faults>>

(* set_mode(): write the command, then wait for the line that answers it.  *)
SendMode ==
  /\ host.pc = "idle"
  /\ host.at <= Len(script)
  /\ Request.mode # "none"
  /\ Write(Simple("command", Request.mode))
  /\ host' = [host EXCEPT !.pc = "mode", !.block = 0, !.errors = 0, !.cancels = 0]
  /\ HostKeeps /\ UNCHANGED toHost

(* A terminal program that only sends a file.                              *)
SkipMode ==
  /\ host.pc = "idle"
  /\ host.at <= Len(script)
  /\ Request.mode = "none"
  /\ host' = [host EXCEPT !.pc = "start"]
  /\ HostKeeps /\ UNCHANGED <<toDevice, toHost>>

AwaitMode ==
  /\ Reads("mode")
  /\ host' = CASE Head(toHost) = "error" -> [host EXCEPT !.pc = "refused"]
               [] Head(toHost) = "ok" /\ Request.mode = "Reboot" ->
                    [host EXCEPT !.pc = "idle", !.at = @ + 1, !.last = "ok"]
               [] Head(toHost) = "ok" /\ Request.mode # "Reboot" -> [host EXCEPT !.pc = "start"]
               [] OTHER -> host
  /\ HostKeeps /\ UNCHANGED toDevice

(* wait_for_line() gives up after a second.                                *)
ModeTimeout ==
  /\ host.pc = "mode"
  /\ toHost = <<>>
  /\ PromptHost => toDevice = <<>>
  /\ host' = [host EXCEPT !.pc = "failed"]
  /\ HostKeeps /\ UNCHANGED <<toDevice, toHost>>

(* The next block, or the end of the file after the last one.              *)
SendBlock(h) ==
  /\ host' = h
  /\ Write(Frame(h.block, Block(h.at, h.block)))

SendNext(h) ==
  IF h.block < Request.len
  THEN SendBlock([h EXCEPT !.pc = "data", !.block = @ + 1, !.cancels = 0])
  ELSE host' = [h EXCEPT !.pc = "eof"] /\ Write(Simple("eof", "none"))

(* send_start().                                                           *)
AwaitStart ==
  LET c == Head(toHost)
      cancelled == [host EXCEPT !.cancels = @ + 1]
  IN  /\ Reads("start")
      /\ \/ c = "C" /\ SendNext(host)
         \/ c = "NAK" /\ host' = [host EXCEPT !.pc = "failed"] /\ UNCHANGED toDevice
         \/ /\ c = "CAN"
            /\ host' = IF host.cancels >= 1 THEN [host EXCEPT !.pc = "failed"] ELSE cancelled
            /\ UNCHANGED toDevice
         \/ c \notin {"C", "NAK", "CAN"} /\ UNCHANGED <<host, toDevice>>
      /\ HostKeeps

(* send_data(): the reply to a block.                                      *)
AwaitReply ==
  LET c == Head(toHost)
      h == IF c = "CAN" THEN [host EXCEPT !.cancels = @ + 1]
           ELSE [host EXCEPT !.errors = @ + 1]
  IN  /\ Reads("data")
      /\ \/ c = "ACK" /\ SendNext(host)
         \/ /\ c # "ACK"
            /\ h.cancels >= 2 \/ h.errors >= MaxErrors
            /\ host' = [h EXCEPT !.pc = "failed"]
            /\ UNCHANGED toDevice
         \/ /\ c # "ACK"
            /\ h.cancels < 2 /\ h.errors < MaxErrors
            /\ SendBlock(h)
      /\ HostKeeps

(* send_finish(): whatever the answer is, the transfer has succeeded.      *)
AwaitFinish ==
  /\ Reads("eof")
  /\ host' = [host EXCEPT !.pc = "idle", !.at = @ + 1, !.last = Head(toHost)]
  /\ HostKeeps /\ UNCHANGED toDevice

HostNext ==
  SendMode \/ SkipMode \/ AwaitMode \/ ModeTimeout \/ AwaitStart \/ AwaitReply \/ AwaitFinish

-----------------------------------------------------------------------------
(* The line damages or loses what comes next.                              *)
Fault(kind) == kind \in Faults /\ faults < MaxFaults /\ faults' = faults + 1

DamageFrame ==
  \E kind \in {"payload", "number", "short", "start"} :
    /\ Fault(kind)
    /\ toDevice # <<>>
    /\ Head(toDevice).kind = "frame" /\ Head(toDevice).damage = "none"
    /\ toDevice' = [toDevice EXCEPT ![1].damage = kind]
    /\ UNCHANGED toHost

DamageOther ==
  /\ toDevice # <<>>
  /\ LET kind == Head(toDevice).kind IN kind \in {"eof", "command"} /\ Fault(kind)
  /\ \/ toDevice' = Tail(toDevice)
     \/ toDevice' = [toDevice EXCEPT ![1].kind = "byte"]
     \/ Head(toDevice).kind = "command" /\ toDevice' = [toDevice EXCEPT ![1].mode = "garbled"]
  /\ UNCHANGED toHost

DamageReply ==
  /\ Fault("reply")
  /\ toHost # <<>>
  /\ toHost' = Tail(toHost) \/ toHost' = [toHost EXCEPT ![1] = "text"]
  /\ UNCHANGED toDevice

Line == (DamageFrame \/ DamageOther \/ DamageReply) /\ UNCHANGED <<script, devVars, host>>

Device == DeviceNext /\ UNCHANGED <<script, host, faults>>

Next == Device \/ HostNext \/ Line

Spec == Init /\ [][Next]_vars

(* The processor runs, and the host's program is scheduled.                *)
FairSpec == Spec /\ WF_vars(Device) /\ WF_vars(HostNext)

-----------------------------------------------------------------------------
Data == [req : 0 .. Len(script), n : Nat]

Characters == {"C", "ACK", "NAK", "CAN", "ok", "error", "text"}

Requested == [req : 1 .. Len(script), n : Nat]

Frames == [kind : {"frame"}, num : 0 .. FrameModulus - 1, block : Requested,
           damage : {"none", "payload", "number", "short", "start"}, mode : {"none"}]
Others == [kind : {"eof", "command", "byte", "noise"}, num : {0}, block : {Padding},
           damage : {"none"}, mode : Commands \cup {"none"}]

(* Every variable has its type; the write offset stays in the region.      *)
TypeOK ==
  /\ script \in Scripts
  /\ toDevice \in Seq(Frames \cup Others) /\ toHost \in Seq(Characters)
  /\ dev \in [open : BOOLEAN, exit : Exits, mode : Commands, frame : Nat \ {0},
              staged : Seq(Requested), offset : 0 .. FlashLimit, begin : {0, FlashStart},
              deadline : BOOLEAN]
  /\ Len(dev.staged) <= 2
  /\ flash \in [Slots -> [Pages -> Data \X Data]]
  /\ ownerPage \in Data \X Data
  /\ message \in Data
  /\ host \in [pc : {"idle", "mode", "start", "data", "eof", "failed", "refused"},
               at : 1 .. Len(script) + 1, block : Nat, errors : 0 .. MaxErrors,
               cancels : 0 .. 2, last : Characters \cup {"none"}]
  /\ host.pc # "idle" => host.at <= Len(script)
  /\ faults \in 0 .. MaxFaults

ModeOf(r) == IF script[r].mode = "none" THEN DefaultMode ELSE script[r].mode

(* Where block n of firmware request r belongs.                            *)
Base(r) == IF script[r].romExt THEN 0 ELSE FlashStart
Place(r, n) == Base(r) + ((n - 1) \div 2)
Half(n) == 1 + ((n - 1) % 2)
BankOf(r) == IF ModeOf(r) = "FirmwareSlotB" THEN "B" ELSE "A"

Programmed(s, p) == flash[s][p] \notin {Old, Erased, Mixed}

InFlash(r, n) ==
  /\ Place(r, n) \in Pages
  /\ flash[BankOf(r)][Place(r, n)][Half(n)] = Block(r, n)

(* The part of an image that belongs to the running ROM_EXT is read and    *)
(* thrown away.                                                            *)
Discarded(r, n) == BankOf(r) = RomExtSlot /\ Place(r, n) < FlashStart

(* Rescue never touches the ROM_EXT it runs from, nor what lies behind the *)
(* rescue region in either bank (flash_firmware_block(): the code that     *)
(* decides on the image's first page is what stands between a wrong image  *)
(* and the code that executes).                                            *)
RunningCodeUntouched ==
  \A p \in Pages :
    /\ p < FlashStart => flash[RomExtSlot][p] = Old
    /\ p >= FlashLimit => \A s \in Slots : flash[s][p] = Old

(* Whatever the line does, what rescue leaves in a bank is a beginning of  *)
(* one image: every programmed page holds the two blocks that belong there *)
(* (the last one may be padded), all pages before it are complete and come *)
(* from the same transfer.  No duplicate, no gap, no page programmed twice.*)
PrefixOfOneImage ==
  \A s \in Slots, p \in Pages :
    /\ flash[s][p] # Mixed
    /\ Programmed(s, p) =>
         \E r \in 1 .. Len(script) :
           /\ BankOf(r) = s
           /\ \E n \in 1 .. script[r].len :
                /\ Place(r, n) = p /\ Half(n) = 1
                /\ flash[s][p][1] = Block(r, n)
                /\ flash[s][p][2] \in {Block(r, n + 1), Padding}
                /\ \A m \in 1 .. n - 1 : InFlash(r, m) \/ Discarded(r, m)

(* What the device has acknowledged to a host in the middle of a transfer  *)
(* is in flash or in its buffer.                                           *)
AckedIsKept ==
  host.pc = "data" /\ dev.open /\ ModeOf(host.at) \in FirmwareModes =>
    \A n \in 1 .. host.block - 1 :
      \/ InFlash(host.at, n)
      \/ Discarded(host.at, n)
      \/ \E i \in 1 .. Len(dev.staged) : dev.staged[i] = Block(host.at, n)

(* When the end of a file is acknowledged, all of the file is where the    *)
(* command puts it.                                                        *)
Stored(r) ==
  CASE ModeOf(r) \in FirmwareModes ->
         \A n \in 1 .. script[r].len : InFlash(r, n) \/ Discarded(r, n)
    [] ModeOf(r) = "OwnerBlock" -> ownerPage[1] = Block(r, 1)
    [] ModeOf(r) = "BootSvcReq" -> message = Block(r, 1)
    [] OTHER -> TRUE

AckedFileStored ==
  host.pc = "idle" /\ host.last = "ACK" => Stored(host.at - 1)

(* A request the device has accepted is not replaced by the request to     *)
(* skip rescue, with which it shares the slot in retention RAM.            *)
SkipKeepsRequest == [][message \notin {Former, Skip} => message' # Skip]_vars

(* With a prompt host, and a line that damages no more payloads than the   *)
(* host has retries, every request that fits is carried out.               *)
Delivered == <>[](host.pc = "idle" /\ host.at = Len(script) + 1 /\ host.last = "ACK")

-----------------------------------------------------------------------------
(* The inductive invariant.  The region of a transfer in progress is the   *)
(* one its first page has chosen; what Skip would overwrite is only there  *)
(* once the deadline is off.  A host that goes on has retries left.         *)
RegionChosen ==
  dev.offset # 0 => dev.begin = FlashStart \/ (dev.begin = 0 /\ Bank # RomExtSlot)

DeadlineOff ==
  dev.open /\ dev.deadline => dev.staged = <<>> /\ message = Former

RetriesLeft ==
  host.pc # "failed" => host.cancels < 2 /\ host.errors < MaxErrors

IInv == TypeOK /\ RegionChosen /\ DeadlineOff /\ RetriesLeft /\ RunningCodeUntouched

-----------------------------------------------------------------------------
(* rescue.md:219: an invalid start of a packet aborts the transfer.        *)
BadStartAborts ==
  [][/\ dev.frame > 1
     /\ toDevice # <<>> /\ Head(toDevice).damage = "start"
     /\ dev' # dev
     => ~dev'.open]_vars
-----------------------------------------------------------------------------
(* The inductive invariant behind PrefixOfOneImage and AckedIsKept, as     *)
(* long as no frame loses its first byte.  The host is in a transfer, or   *)
(* was when it gave up.                                                    *)
Transferring == host.pc \in {"data", "eof"} \/ (host.pc = "failed" /\ host.block > 0)

(* A frame on its way is the one the device expects, or the one before.    *)
InFlight(m) ==
  /\ m.block = Block(host.at, m.block.n) /\ m.num = m.block.n % FrameModulus
  /\ m.block.n \in 1 .. host.block
  /\ m.block.n \in {dev.frame - 1, dev.frame}

FramesInOrder ==
  \A i \in 1 .. Len(toDevice) :
    toDevice[i].kind = "frame" =>
      /\ InFlight(toDevice[i])
      /\ \A j \in 1 .. i - 1 : toDevice[j].kind = "frame" /\ toDevice[j].block.n <= toDevice[i].block.n

(* Frames are only on the line in a transfer, and nothing follows the end  *)
(* of the file; a command is the last thing, and only its answer awaited.  *)
LineInOrder ==
  IF Transferring
  THEN /\ FramesInOrder
       /\ \A i \in 1 .. Len(toDevice) :
            \/ toDevice[i].kind = "frame"
            \/ host.pc = "eof" /\ i = Len(toDevice) /\ toDevice[i].kind # "command"
  ELSE \A i \in 1 .. Len(toDevice) :
         /\ toDevice[i].kind # "frame"
         /\ toDevice[i].kind = "command" =>
              i = Len(toDevice) /\ host.pc \in {"mode", "failed", "refused"}

(* Outside a transfer the device waits for one; in it, the host is at the  *)
(* frame the device expects, or has not yet read the ACK for the last one. *)
AtRest == dev.frame = 1 /\ dev.staged = <<>> /\ dev.offset = 0

TransferStage ==
  /\ ~Transferring => AtRest
  /\ dev.frame = 1 => AtRest
  /\ Transferring => /\ dev.mode = ModeOf(host.at)
                     /\ host.block <= Request.len
                     /\ dev.frame <= host.block + 1
  /\ host.pc = "data" =>
       /\ host.block \in {dev.frame - 1, dev.frame}
       /\ \A i \in 1 .. Len(toHost) :
            toHost[i] = "ACK" => (i = Len(toHost) /\ host.block = dev.frame - 1)
  /\ host.pc = "eof" =>
       IF dev.frame = 1
       THEN \A i \in 1 .. Len(toDevice) : toDevice[i].kind # "frame"
       ELSE dev.frame = host.block + 1 /\ toHost = <<>>

(* A transfer starts in the mode that was asked for, on an empty line.     *)
Ready == toDevice = <<>> /\ dev.mode = ModeOf(host.at)

Silent(c) == \A i \in 1 .. Len(toHost) : toHost[i] # c

StartStage ==
  /\ host.pc = "idle" /\ host.at = 1 => toDevice = <<>> /\ dev.mode = DefaultMode
  /\ host.pc = "start" => Ready
  /\ host.pc = "mode" =>
       /\ ~Silent("ok") => Ready
       /\ \A i \in 1 .. Len(toDevice) :
            toDevice[i].kind = "command" => toDevice[i].mode \in {Request.mode, "garbled"}

(* No answer is left over from a request before.                           *)
RepliesInOrder ==
  /\ host.pc \in {"idle", "start", "data", "eof"} => Silent("ok")
  /\ host.pc = "start" \/ (host.pc = "idle" /\ host.at = 1) => Silent("ACK") /\ host.block = 0
  /\ host.pc = "mode" =>
       /\ Request.mode # "none" /\ host.block = 0
       /\ \A i, j \in 1 .. Len(toHost) :
            i < j /\ toHost[i] = "ok" => toHost[j] \notin {"ok", "ACK"}
  /\ host.pc = "data" =>
       /\ host.block \in 1 .. Request.len
       /\ \A i, j \in 1 .. Len(toHost) : toHost[i] = "ACK" /\ toHost[j] = "ACK" => i = j
  /\ host.pc = "eof" => host.block = Request.len

(* A frame arrives from its first byte on.                                 *)
WholeFrames == \A i \in 1 .. Len(toDevice) : toDevice[i].kind # "noise" /\ toDevice[i].damage # "start"

(* The blocks of an image are staged and stored in order.                  *)
PagesDone == IF dev.offset = 0 THEN 0 ELSE dev.offset - Base(host.at)

ImageInOrder ==
  Transferring /\ ModeOf(host.at) \in FirmwareModes =>
    /\ dev.frame - 1 = 2 * PagesDone + Len(dev.staged)
    /\ dev.staged \in {<<>>, <<Block(host.at, dev.frame - 1)>>}
    /\ dev.offset # 0 =>
         /\ PagesDone > 0
         /\ dev.begin = IF Request.romExt /\ Bank # RomExtSlot THEN 0 ELSE FlashStart
         /\ \A n \in 1 .. 2 * PagesDone : InFlash(host.at, n) \/ Discarded(host.at, n)
         /\ \A p \in Pages :
              dev.begin <= p /\ dev.offset <= p /\ p < FlashLimit => flash[Bank][p] = Erased

OrderInv ==
  /\ WholeFrames
  /\ RepliesInOrder
  /\ dev.open => LineInOrder /\ TransferStage /\ StartStage /\ ImageInOrder
  /\ PrefixOfOneImage

(* What the other handlers have taken, on the way to AckedFileStored; the  *)
(* end of a file is only acknowledged once everything is in place.         *)
BlocksStored ==
  /\ dev.mode = "OwnerBlock" => OwnerUnlocked
  /\ dev.open /\ Transferring =>
       /\ ModeOf(host.at) = "OwnerBlock" =>
            /\ dev.frame = 2 => dev.staged = <<Block(host.at, 1)>>
            /\ dev.frame = 3 => (ownerPage[1] = Block(host.at, 1) /\ dev.staged = <<>>)
       /\ ModeOf(host.at) = "BootSvcReq" /\ dev.frame = 2 =>
            message = Block(host.at, 1) /\ dev.staged = <<>>
       /\ host.pc = "eof" /\ dev.frame = 1 => Stored(host.at)

FileStored == host.pc = "eof" /\ ~Silent("ACK") => Stored(host.at)

StoredInv ==
  /\ BlocksStored /\ FileStored /\ AckedFileStored
  /\ host.last # "none" => host.at > 1
=============================================================================
