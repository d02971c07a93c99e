---------------------------- MODULE RescueDevice ----------------------------
(***************************************************************************)
(* The device side of serial rescue: the loop of rescue_xmodem.c, the      *)
(* XMODEM receiver of xmodem.c and the receive handlers of rescue.c, which *)
(* flash firmware into a bank, an owner block into owner page 1 and a boot *)
(* service request into retention RAM.                                     *)
(*                                                                         *)
(* A frame carries one block of 1 KiB, a flash page holds two.  Addresses  *)
(* are counted in flash pages.                                             *)
(***************************************************************************)
EXTENDS Integers, Sequences

CONSTANTS
  Allowed,        (* owner_rescue_command_allowed(): modes and requests.   *)
  RomExtSlot,     (* boot_log->rom_ext_slot: the slot of the running code. *)
  FlashStart,     (* state->flash_start, in pages.                         *)
  FlashLimit,     (* state->flash_limit, in pages.                         *)
  BankPages,      (* Pages of a flash bank.                                *)
  OwnerUnlocked,  (* The ownership state lets page 1 be written.           *)
  BootAttempted,  (* Rescue was entered because the boot had failed.       *)
  HasDeadline,    (* The rescue configuration sets an inactivity timeout.  *)
  FlashCanFail,   (* Flash operations may return errors.                   *)
  FrameModulus,   (* Frame numbers are sent in a byte: 256.                *)
  PromptHost,     (* The host reacts within the device's timeout.          *)
  MaxReplies      (* Bound on the characters queued for the host.          *)

Slots == {"A", "B"}
Pages == 0 .. BankPages - 1

ASSUME RescueAssumption ==
  /\ RomExtSlot \in Slots
  /\ BankPages \in Nat
  /\ FlashStart \in 1 .. BankPages
  /\ FlashLimit \in FlashStart .. BankPages
  /\ FrameModulus \in Nat \ {0}
  /\ OwnerUnlocked \in BOOLEAN /\ BootAttempted \in BOOLEAN /\ HasDeadline \in BOOLEAN
  /\ FlashCanFail \in BOOLEAN /\ PromptHost \in BOOLEAN

VARIABLES
  script,     (* What the host wants done: a sequence of requests.         *)
  toDevice,   (* What the host has written and the device not yet read.    *)
  toHost,     (* What the device has written and the host not yet read.    *)
  dev,        (* rescue_state_t, and whether protocol() still runs.        *)
  flash,      (* The two flash banks.                                      *)
  ownerPage,  (* Owner page 1.                                             *)
  message     (* The boot service message slot of retention RAM.           *)

devVars == <<dev, flash, ownerPage, message>>

(* Block n of the data of request r, and blocks that are no request's.     *)
Block(r, n) == [req |-> r, n |-> n]

Padding == Block(0, 0)
Former == Block(0, 1)       (* What was there before.                      *)
Blank == Block(0, 2)        (* Erased flash.                               *)
Spoiled == Block(0, 3)      (* Programmed twice.                           *)
Skip == Block(0, 4)         (* The request to skip rescue once.            *)

Page(b) == <<b, b>>
Old == Page(Former)
Erased == Page(Blank)
Mixed == Page(Spoiled)

(* rescue_mode_t, without the modes that send data to the host, and a      *)
(* command that is none of them.                                           *)
Commands == {"Firmware", "FirmwareSlotB", "OwnerBlock", "BootSvcReq", "NoOp", "Reboot",
             "Wait", "garbled"}

Exits == {"none", "reboot", "cancel", "bad_mode", "too_big", "unknown", "timeout", "error",
          "inactivity"}

FirmwareModes == {"Firmware", "FirmwareSlotB"}

(* XMODEM codes that a frame number can be mistaken for.                   *)
Soh == 1
Stx == 2
Eof == 4

(* rescue_state_init().                                                    *)
DefaultMode == IF "Firmware" \in Allowed THEN "Firmware" ELSE "NoOp"

(* The first start character is sent before the loop.                      *)
DeviceInit ==
  /\ toDevice = <<>>
  /\ toHost = <<"C">>
  /\ dev = [open |-> TRUE, exit |-> "none", mode |-> DefaultMode, frame |-> 1,
            staged |-> <<>>, offset |-> 0, begin |-> 0, deadline |-> HasDeadline]
  /\ flash = [s \in Slots |-> [p \in Pages |-> Old]]
  /\ ownerPage = Old
  /\ message = Former

-----------------------------------------------------------------------------
Reply(chars) == toHost' = toHost \o chars

Close(why) == dev' = [dev EXCEPT !.open = FALSE, !.exit = why]

(* xmodem_cancel() and the return from protocol().                         *)
Cancel(why) == Close(why) /\ Reply(<<"CAN", "CAN">>)

Reset(d) == [d EXCEPT !.frame = 1, !.staged = <<>>, !.offset = 0]

(* The handler has succeeded: acknowledge and go on with d, in which frame *)
(* 1 says that it was the end of the file.                                 *)
Continue(d) ==
  /\ dev' = IF d.frame = 1 THEN Reset(d) ELSE d
  /\ Reply(<<"ACK">>)

(* flash_firmware_block().                                                 *)
IsRomExt(b) == b.n = 1 /\ script[b.req].romExt

RomExtUpdateAllowedAnySlot ==     \* mutant: the slot of the running code is not considered
  dev.mode \in FirmwareModes

RomExtUpdateAllowed ==
  \/ dev.mode = "Firmware" /\ RomExtSlot = "B"
  \/ dev.mode = "FirmwareSlotB" /\ RomExtSlot = "A"

Bank == IF dev.mode = "FirmwareSlotB" THEN "B" ELSE "A"

FirstBlock == dev.offset = 0

Begin(s) ==
  IF ~FirstBlock THEN dev.begin
  ELSE IF RomExtUpdateAllowed /\ IsRomExt(s[1]) THEN 0 ELSE FlashStart

Offset(s) ==
  IF ~FirstBlock THEN dev.offset ELSE IF IsRomExt(s[1]) THEN 0 ELSE FlashStart

PreparedNever(begin) == flash     \* mutant: the region is not erased

Prepared(begin) ==
  IF FirstBlock
  THEN [flash EXCEPT ![Bank] = [p \in Pages |->
          IF begin <= p /\ p < FlashLimit THEN Erased ELSE @[p]]]
  ELSE flash

(* A program operation on a page that is not erased spoils it.             *)
Program(f, p, s) == [f EXCEPT ![Bank][p] = IF @ = Erased THEN s ELSE Mixed]

FirmwareBlock(s, d) ==
  LET begin == Begin(s)
      offset == Offset(s)
      next == [d EXCEPT !.staged = <<>>, !.offset = offset + 1, !.begin = begin]
  IN  /\ dev.mode \in FirmwareModes
      /\ Len(s) = 2
      /\ \/ offset < begin /\ flash' = Prepared(begin) /\ Continue(next)
         \/ offset >= begin /\ offset >= FlashLimit /\ flash' = Prepared(begin) /\ Cancel("too_big")
         \/ /\ begin <= offset
            /\ offset < FlashLimit
            /\ flash' = Program(Prepared(begin), offset, s)
            /\ Continue(next)
         \/ /\ FlashCanFail
            /\ flash' \in {flash, Prepared(begin)}
            /\ Close("error")
            /\ UNCHANGED toHost
      /\ UNCHANGED <<ownerPage, message>>

(* flash_owner_block(), and its state check: a refused block is answered   *)
(* like an accepted one.                                                   *)
OwnerBlock(s, d) ==
  /\ dev.mode = "OwnerBlock"
  /\ Len(s) = 2
  /\ \/ ~OwnerUnlocked /\ UNCHANGED ownerPage /\ Continue([d EXCEPT !.staged = <<>>])
     \/ OwnerUnlocked /\ ownerPage' = s /\ Continue([d EXCEPT !.staged = <<>>])
     \/ /\ OwnerUnlocked /\ FlashCanFail
        /\ ownerPage' \in {ownerPage, Erased}
        /\ Close("error")
        /\ UNCHANGED toHost
  /\ UNCHANGED <<flash, message>>

(* The boot service request, which is complete after any one block.        *)
BootSvcReq(s, d) ==
  /\ dev.mode = "BootSvcReq"
  /\ IF script[s[1].req].type \in Allowed
     THEN message' = s[1] /\ Continue([d EXCEPT !.staged = <<>>])
     ELSE UNCHANGED message /\ Cancel("bad_mode")
  /\ UNCHANGED <<flash, ownerPage>>

(* handle_recv_modes() with the staged blocks s; d is the state to go on   *)
(* with.                                                                   *)
Handle(s, d) ==
  \/ /\ dev.mode \notin Allowed
     /\ Cancel("bad_mode")
     /\ UNCHANGED <<flash, ownerPage, message>>
  \/ /\ dev.mode \in Allowed
     /\ \/ FirmwareBlock(s, d)
        \/ OwnerBlock(s, d)
        \/ BootSvcReq(s, d)
        \/ /\ dev.mode # "BootSvcReq"
           /\ dev.mode = "NoOp" \/ Len(s) < 2
           /\ Continue([d EXCEPT !.staged = s])
           /\ UNCHANGED <<flash, ownerPage, message>>

-----------------------------------------------------------------------------
(* What the host writes: frames, end-of-file characters, mode commands.    *)
(* The line can turn each into something else: see damage and "noise".     *)
Frame(n, b) ==
  [kind |-> "frame", num |-> n % FrameModulus, block |-> b, damage |-> "none", mode |-> "none"]

Simple(kind, mode) ==
  [kind |-> kind, num |-> 0, block |-> Padding, damage |-> "none", mode |-> mode]

Receives(kind) ==
  /\ dev.open
  /\ toDevice # <<>>
  /\ Head(toDevice).kind = kind

Kept == UNCHANGED <<flash, ownerPage, message>>

Expected(m) == m.num = dev.frame % FrameModulus /\ m.damage # "number"

(* xmodem_recv_frame() for a frame that has arrived at its full length.    *)
ReceiveFrameKeepDeadline ==       \* mutant: a packet does not cancel the deadline
  LET m == Head(toDevice) IN
  /\ Receives("frame")
  /\ m.damage = "none" /\ Expected(m)
  /\ Len(dev.staged) < 2
  /\ toDevice' = Tail(toDevice)
  /\ Handle(Append(dev.staged, m.block), [dev EXCEPT !.frame = @ + 1])

ReceiveFrame ==
  LET m == Head(toDevice) IN
  /\ Receives("frame")
  /\ m.damage = "none" /\ Expected(m)
  /\ Len(dev.staged) < 2
  /\ toDevice' = Tail(toDevice)
  /\ Handle(Append(dev.staged, m.block),
            [dev EXCEPT !.frame = @ + 1, !.deadline = FALSE])

(* No room in the buffer: kErrorXModemBadLength.                           *)
ReceiveOverrun ==
  /\ Receives("frame")
  /\ Head(toDevice).damage # "start"
  /\ Len(dev.staged) = 2
  /\ toDevice' = Tail(toDevice)
  /\ Close("error")
  /\ Kept /\ UNCHANGED toHost

ReceiveWrongNumber ==
  LET m == Head(toDevice) IN
  /\ Receives("frame")
  /\ m.damage \in {"none", "number", "payload"} /\ ~Expected(m)
  /\ Len(dev.staged) < 2
  /\ toDevice' = Tail(toDevice)
  /\ Cancel("cancel")
  /\ Kept

ReceiveBadCrcAcked ==             \* mutant: the frame is dropped and acknowledged
  LET m == Head(toDevice) IN
  /\ Receives("frame")
  /\ m.damage = "payload" /\ Expected(m)
  /\ Len(dev.staged) < 2
  /\ toDevice' = Tail(toDevice)
  /\ Reply(<<"ACK">>)
  /\ dev' = [dev EXCEPT !.frame = @ + 1]
  /\ Kept

ReceiveBadCrcSilent ==            \* mutant: the sender is not told
  LET m == Head(toDevice) IN
  /\ Receives("frame")
  /\ m.damage = "payload" /\ Expected(m)
  /\ Len(dev.staged) < 2
  /\ toDevice' = Tail(toDevice)
  /\ Kept /\ UNCHANGED <<dev, toHost>>

ReceiveBadCrc ==
  LET m == Head(toDevice) IN
  /\ Receives("frame")
  /\ m.damage = "payload" /\ Expected(m)
  /\ Len(dev.staged) < 2
  /\ toDevice' = Tail(toDevice)
  /\ Reply(<<"NAK">>)
  /\ Kept /\ UNCHANGED dev

(* A byte after the first is missing: a packet, data or CRC timeout.       *)
ReceiveShort ==
  /\ Receives("frame")
  /\ Head(toDevice).damage = "short"
  /\ Len(dev.staged) < 2
  /\ toDevice' = Tail(toDevice)
  /\ Close("timeout")
  /\ Kept /\ UNCHANGED toHost

(* The residue is padded, handled and acknowledged.                        *)
EndOfFileUnpadded ==              \* mutant: the residue is not written
  Continue([dev EXCEPT !.frame = 1]) /\ Kept

EndOfFile ==
  IF Len(dev.staged) = 1
  THEN Handle(Append(dev.staged, Padding), [dev EXCEPT !.frame = 1])
  ELSE Continue([dev EXCEPT !.frame = 1]) /\ Kept

ReceiveEof ==
  /\ Receives("eof")
  /\ toDevice' = Tail(toDevice)
  /\ EndOfFile

(* The first byte of a frame is lost, and the frame number read in its     *)
(* place: a header, the end of the file, or an unknown character.          *)
ReceiveStartless ==
  LET m == Head(toDevice)
      rest == <<Simple("noise", "none")>> \o Tail(toDevice)
  IN  /\ Receives("frame")
      /\ m.damage = "start"
      /\ toDevice' = rest
      /\ \/ m.num = Soh /\ Len(dev.staged) < 2 /\ Cancel("cancel") /\ Kept
         \/ /\ m.num = Stx /\ Len(dev.staged) < 2
            /\ Close("timeout")
            /\ Kept /\ UNCHANGED toHost
         \/ /\ m.num \in {Soh, Stx} /\ Len(dev.staged) = 2
            /\ Close("error")
            /\ Kept /\ UNCHANGED toHost
         \/ m.num = Eof /\ EndOfFile
         \/ /\ m.num \notin {Soh, Stx, Eof}
            /\ dev.frame > 1 => Close("unknown")
            /\ dev.frame = 1 => UNCHANGED dev
            /\ Kept /\ UNCHANGED toHost

(* An unknown character, or noise: what is left of a frame, which may      *)
(* contain any code.  Before a transfer an unknown character counts as     *)
(* part of a command.                                                      *)
ReceiveNoise ==
  LET kind == Head(toDevice).kind IN
  /\ dev.open
  /\ toDevice # <<>>
  /\ kind \in {"byte", "noise"}
  /\ toDevice' = Tail(toDevice)
  /\ \/ dev.frame > 1 /\ Close("unknown") /\ UNCHANGED toHost
     \/ dev.frame = 1 /\ UNCHANGED <<dev, toHost>>
     \/ dev.frame = 1 /\ kind = "noise" /\ Continue(dev)
     \/ dev.frame = 1 /\ kind = "noise" /\ Close("timeout") /\ UNCHANGED toHost
     \/ dev.frame = 1 /\ kind = "noise" /\ Cancel("cancel")
  /\ Kept

(* rescue_validate_mode(), called for a command that ends in a return.     *)
Known == FirmwareModes \cup {"OwnerBlock", "BootSvcReq"}

Accepted(mode) ==
  mode \in Allowed \cap Known /\ (mode = "OwnerBlock" => OwnerUnlocked)

ValidateMode(mode) ==
  LET d == [dev EXCEPT !.deadline = FALSE]
  IN  \/ /\ mode = "NoOp" \/ Accepted(mode)
         /\ dev' = [Reset(d) EXCEPT !.mode = mode]
         /\ Reply(<<"ok">>)
      \/ /\ mode = "Reboot"
         /\ dev' = [Reset(d) EXCEPT !.mode = mode, !.open = FALSE, !.exit = "reboot"]
         /\ Reply(<<"ok">>)
      \/ /\ mode \notin {"NoOp", "Reboot"}
         /\ ~Accepted(mode)
         /\ dev' = IF mode \in Allowed THEN d ELSE Reset(d)
         /\ Reply(<<"error">>)

ReceiveCommand ==
  /\ Receives("command")
  /\ toDevice' = Tail(toDevice)
  /\ dev.frame = 1 => ValidateMode(Head(toDevice).mode)
  /\ dev.frame > 1 => Close("unknown") /\ UNCHANGED toHost
  /\ Kept

(* Nothing arrives for a second.  A prompt host has read and answered      *)
(* everything before.                                                      *)
StartTimeout ==
  /\ dev.open
  /\ toDevice = <<>>
  /\ PromptHost => toHost = <<>>
  /\ \/ /\ dev.frame = 1 /\ dev.mode # "NoOp"
        /\ Len(toHost) < MaxReplies
        /\ Reply(<<"C">>)
        /\ UNCHANGED dev
     \/ dev.frame > 1 /\ Close("timeout") /\ UNCHANGED toHost
  /\ Kept /\ UNCHANGED toDevice

(* What xmodem_recv_frame() answers by cancelling.                         *)
Refused(m) ==
  \/ m.kind = "frame" /\ m.damage \in {"none", "number", "payload"} /\ ~Expected(m)
  \/ m.kind = "frame" /\ m.damage = "start" /\ m.num = Soh
  \/ m.kind = "noise"

(* rescue_inactivity() fails, whatever has just been received; rom_ext.c   *)
(* asks the next boot to skip rescue.                                      *)
InactivityNoDeadline ==           \* mutant: a deadline of 0 has always passed
  /\ dev.open
  /\ Close("inactivity")
  /\ message' = IF BootAttempted THEN message ELSE Skip
  /\ UNCHANGED <<toDevice, toHost, flash, ownerPage>>

Inactivity ==
  /\ dev.open
  /\ dev.deadline
  /\ \/ UNCHANGED <<toDevice, toHost>>
     \/ /\ toDevice # <<>>
        /\ toDevice' = Tail(toDevice)
        /\ \/ Refused(Head(toDevice)) /\ Reply(<<"CAN", "CAN">>)
           \/ (~Refused(Head(toDevice)) \/ Head(toDevice).kind = "noise") /\ UNCHANGED toHost
  /\ Close("inactivity")
  /\ message' = IF BootAttempted THEN message ELSE Skip
  /\ UNCHANGED <<flash, ownerPage>>

(* shutdown_finalize() prints the error code; a reset prints banners.      *)
Output ==
  /\ ~dev.open
  /\ Len(toHost) < MaxReplies
  /\ Reply(<<"text">>)
  /\ UNCHANGED <<toDevice, devVars>>

DeviceNext ==
  \/ ReceiveFrame \/ ReceiveOverrun \/ ReceiveWrongNumber \/ ReceiveBadCrc
  \/ ReceiveShort \/ ReceiveEof \/ ReceiveStartless \/ ReceiveNoise
  \/ ReceiveCommand \/ StartTimeout \/ Inactivity \/ Output
=============================================================================
