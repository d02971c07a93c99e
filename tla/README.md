# Verification of the boot firmware

The repository is an OpenTitan-style root of trust: a chip (RTL under `hw/`),
its boot firmware (`sw/device/silicon_creator/`), device libraries
(`sw/device/lib/`), host tools (`sw/host/`) and generators (`util/`).  The logic
that is hardest to get right and hardest to test is in the boot firmware: the
state it keeps in flash across resets, which decides who owns the chip and what
it may boot.  Every step of that logic can be cut short by a reset or a failed
flash operation, and what is left behind is the input of the next boot.  Next to
it are the protocols through which a host reaches that state while it boots:
serial and USB rescue, and bootstrap over SPI.  This directory holds TLA+ models
of these, and of the one multi-threaded program of the simulation environment,
checked by TLC, and theorems about the core of them, checked by TLAPS.

## Inventory

All paths are relative to `src/sw/device/silicon_creator/` unless they start
with another directory.

| Component | State it keeps | Operations | What makes it correct |
|---|---|---|---|
| Boot data log (`lib/boot_data.c`) | two flash info pages used as append-only logs of records: digest, valid mark, counter, payload | `boot_data_read`, `boot_data_write` | a record survives resets; a write is atomic; the search finds the newest record and never traps |
| Ownership (`lib/ownership/`) | info pages OwnerSlot0, OwnerSlot1, OwnerSecret; ownership fields of the boot data; RAM copies and their status | `ownership_init`, unlock and activate requests, sealing, lockdown | a page is sealed only with the owner's consent; a locked chip keeps a sealed page; no request is replayed; configurations do not roll back |
| Owner block (`lib/ownership/owner_block.c`) | none (a parser) | check-only parse, parse and apply | both parses agree; bounds of the TLV walk |
| ROM_EXT boot flow (`rom_ext/`) | retention RAM (boot log, request slot), RAM boot data | order of the boot, slot selection, minimum security versions | always something to boot; no rollback below the minimum version; a one-time choice of slot stays one-time |
| Boot services (`rom_ext/rom_ext_boot_services.c`, `lib/boot_svc/`) | the message in retention RAM | one request per boot, answered in place | every request is answered once; no boot loop |
| Rescue (`lib/rescue/`) | transfer state, inactivity deadline, the "skip" request in retention RAM | XMODEM, USB-DFU, SPI transports; firmware and owner block upload | what is written is what was sent, in order; a stuck trigger does not lock the owner out |
| Bootstrap (`lib/bootstrap.c`) | phase of the flash programming session | SPI flash commands | program only after a verified erase |
| ROM (`rom/`) | epmp state, boot policy | verify and enter ROM_EXT | rollback protection, fallback to the other slot |
| Flash driver (`lib/drivers/flash_ctrl.c`) | controller registers | read, program, erase, permissions | an operation's error is reported |
| DICE chain (`lib/cert/dice_chain.c`, `rom_ext/imm_section/`) | a one-page write-back cache of certificate pages; what one boot stage leaves for the next in `.static_dice` | check, load, push, skip, flush | the owner finds a sealed chain for what has booted; a corrupted page is rebuilt, not booted into for ever |
| Shutdown, alerts, `sec_mmio`, watchdog, key manager, KMAC, ACC, HMAC, OTP, life cycle drivers | hardware registers | register access | out of reach of a model without a model of the hardware |
| Signature verification (`lib/sigverify/`), `sw/acc` programs | none | arithmetic | a Boolean in the models |
| Manufacturing (`manuf/`) | initial contents of flash and OTP | runs once | gives the models their initial states |
| TCP server of the simulation (`hw/dv/dpi/common/tcp_server/`, `hw/dv/dpi/jtagdpi/`) | two byte rings between two threads, the client's descriptor | accept, read, write, close, join | bytes neither lost nor doubled; the simulation can always end |
| Device libraries, test framework, other host tools and DPI models, RTL, generators | — | — | not modelled; see the last section |

How they interact: the ROM reads the boot data and enters ROM_EXT
(`rom_ext_main`).  ROM_EXT reads the boot data into RAM, runs `ownership_init`
on the owner pages (which may write pages and the boot data), handles the one
request in retention RAM (which may write pages, change the RAM boot data and
ask for "write boot data, then reboot"), then enters rescue or boots the owner's
code.  The owner's code, and rescue, write owner page 1 and leave requests in
retention RAM for the next boot.  Between two boots the owner's code or a host
may replace an image; on the way the immutable section, ROM_EXT and the owner's
key are certified in the DICE pages.  The processor runs one thread, so that the
hard behaviours of the boot are crashes between and inside flash operations,
errors returned by them, retries of requests that survive a reset in retention
RAM, RAM copies that disagree with flash, and long sequences of legal requests
interleaved with all of these.  In rescue and bootstrap the host and the
controller (USB, SPI, UART) do run concurrently with it: packets and commands
arrive between any two register accesses.  The TCP server has two threads that
share its rings without a lock.

## Modules

| Module | Content |
|---|---|
| `BootRecord` | Abstract specification: one record, written atomically, that survives resets. |
| `BootData`, `MCBootData`, `BootDataProofs` | The log in two flash pages, one action per flash operation; its refinement to `BootRecord`. |
| `BootFlow`, `MCBootFlow`, `BootFlowProofs` | ROM, ROM_EXT, owner's code or rescue, boot after boot: slots, minimum security versions, boot services, boot log, rescue trigger. |
| `Ownership`, `MCOwnership`, `OwnershipProofs` | The boot from `ownership_init` to the owner's code, with the unlock and activate requests and every flash operation on the owner pages. |
| `OwnershipHistory`, `MCOwnershipHistory` | `Ownership` with history variables: the owners the chip has been locked to, the number of faults.  `OwnershipProofs` extends it. |
| `RescueDevice` | The device side of serial rescue. |
| `Rescue`, `MCRescue`, `RescueProofs` | `RescueDevice` composed with the host of `opentitanlib` and the line between them. |
| `Dfu`, `MCDfu`, `DfuProofs` | USB-DFU rescue: the state table, the control transfers of `usb.c` packet by packet, the host of `opentitanlib`. |
| `DiceChain`, `MCDiceChain`, `DiceChainProofs` | The certificate pages through the stages of a boot, and over boots. |
| `SpiNor` | Abstract specification: a serial NOR flash that must be erased before it is programmed. |
| `Bootstrap`, `MCBootstrap`, `BootstrapProofs` | Bootstrap, register access by register access, with the SPI device and the flash programmer of `opentitanlib`; its refinement to `SpiNor`. |
| `TcpServer`, `MCTcpServer`, `TcpServerProofs` | The two threads of the simulation's TCP server, its clients and the JTAG reader above it. |

The `MC` modules hold values for TLC, the `Proofs` modules the theorems.
`Ownership` uses the boot data as one variable, `stored`, written in one step
(`Commit`, `CommitRecovery`): that this is what `boot_data_write` does, also
when it is interrupted, is the theorem `LogImplementsRecord`.  `BootFlow` does the
same with the record's other fields.  The requests to unlock and activate are in
`Ownership` with all their flash operations; `BootFlow` keeps of these, and of
`ownership_init`, what they do to the boot slot and the minimum security version, in
flash and in the RAM copy.

### BootData

`flash` holds two pages of entries.  An entry keeps apart what `boot_data.c`
writes apart: the digest, the `is_valid` mark, the rest.  `Erase`,
`WriteDigest`, `WriteBody`, `ReadBack` and `Invalidate` are the flash operations
of `boot_data_entry_write_impl` and `boot_data_entry_invalidate`; `Start` is
`boot_data_write` up to the first of them, with its three cases (append, switch
page, first record).  `IsFirstEmpty`, `IsLastValid` and `Active` are the
forward search, the backward search and the choice between pages.

Flash cells: erasing sets bits, programming clears them.  `Torn` gives what an
interrupted operation may leave: a field erased, partly or fully programmed; a
half-erased page in which entries are untouched, erased or scrambled, one by
one, or have only their mark back at all ones, which revives an invalidated
entry.  The boot data pages have neither ECC nor scrambling in the SKUs of the
repository (`CREATOR_SW_CFG_FLASH_INFO_BOOT_DATA_CFG` is 0 in
`hw/top_egret/data/otp/sival_skus/BUILD`), so a torn word can be read.
`WriteBodyWrong` is a program operation that reports success and leaves a bit
wrong.  A partly programmed field never equals the complete one, that is, the
digest has no collisions.

### Ownership

`pc` is the place in the boot: `off`, `locked` / `repair` / `nv` / `fix0` /
`fix1` (`locked_owner_init`), `unlocked`, `svc` (`boot_svc_handler`), `act1` /
`act0` / `secret` (activation), `recover`, `commit` (writes of the boot data),
`app` (the owner's code or rescue).  Each page update is two steps, the erase
and the write, and `PowerLoss`, `Reset` and `FlashError` can strike at each:
`PowerLoss` also clears retention RAM, `Reset` leaves the request there,
`FlashError` follows the error path of the code at that point.  A torn owner
page is unreadable (ECC), or has everything but its seal, which is its last
field, or is still the old page.

Data that the properties do not tell apart is abstracted: an owner stands for
its owner, unlock and activate keys; a block is its owner, update mode, version,
minimum security version and whether it parses; a seal is a Boolean (KMAC under
a key only ROM_EXT has); the 64-bit random nonce is a counter (only that a new
one differs from all before matters).  Left out: detached signatures, device
identification, the boot slot in an activation, `sku_creator_owner_init`
(weak, does nothing unless an SKU overrides it), wake-ups from low power (which
skip the requests), `ROM_EXT_KLOBBER_ALLOWED` builds, flash writes that
silently fail (the TODO in `ownership_activate`).

### BootFlow

`pc` follows a boot: `rom`, `bootstrapCheck`, `tryBoot` (`rom.c`), `romExt`,
`ownership`, `bootSvc`, `sync`, `tryNext` (`rom_ext_start`), then `owner`, `rescue` or
`shutdown`.  `romExt` and `bl0` are the images of the two halves, `stored` the boot
data record and `bootData` the copy of it that ROM_EXT passes on and partly
overrides, `msg`, `bootLog` and `reasons` the retention RAM.  `block` is the owner block in
page 1, if it is not in force: the minimum that it demands of owner images.
`ownership_init` leaves it, replaces it by a copy of page 0, or takes it as a newer
version of the owner's configuration (`TakeNewVersion`), which changes the minimum in
`bootData` and stores nothing; with a failed operation on page 1
(`TakeNewVersionFails`, `ActivateFails`) the copy is changed and the old block stays.  The
conditions under which a block is taken are in `Ownership`; here any may be.  Each boot
service is
an action and so is its failure when its `boot_data_write` fails, which keeps the
request in retention RAM.  The writes of an image (`WriteRomExt`, `WriteBl0`)
respect only what hardware enforces: `Protected` is the running ROM_EXT's half, as
`rom_ext_flash_protect_self` locks it.  The trigger is a pin that may be stuck.
An image is its security version, its major and minor version (ROM_EXT), whether
its signature is good and whether it asks to advance the minimum; an erased slot
reads as the greatest version and is not good.  `once`, `wrote`, `unstored`, `ran` and
`kept` are history.

### Dfu

`dev` is the driver (`usb_ep_info_t` of endpoint 0 in each direction, `configin`, the
pool of packet buffers) and the `dfu_ctx_t` above it; `rx` the receive FIFO.  `Poll`
is one call of `usb_poll`: it takes one packet (`HandleSetupPacket`, `HandleOut`) or
one completed IN packet (`HandleIn`) and calls `dfu_protocol_handler`
(`HandleSetup`, `Done`), whose state machine is `NextState` and `Answered`, the table
of `dfu_state_table.c`.  The bus is `DataIn`, `DataOut`, `StatusIn`, `StatusOut`,
`SeesStall`, `BusReset`; the host makes any request of `Requests` in any order and
keeps to what `usbdfu.rs` does where a constant says so: `HostChecks`, it asks for
the status after an upload, `HostAbandons` FALSE, it ends a request before the
next.  A block is told apart by its number, so that a status can be compared with
what became of that very block.  `StagingFails` is a SET_INTERFACE whose owner page cannot
be read, which the driver acknowledges all the same; `misread` tells that such a buffer
was uploaded, after which the host of the model makes no further request (Findings,
below).  The bus is not faster than the poll loop where the
code relies on it (a status stage ends before the handler of the next SETUP packet
runs).

### DiceChain

A page is the list of its certificates and whether its digest matches; a
certificate is its kind, the key it certifies, the issuer it names and the key
that signed it.  `chain` is the static variable `dice_chain`, `static` is
`static_dice_cdi_0` with the attestation key that is saved for endorsing the next
certificate.  `ImmSection`, `RomExtCheck`, `Update` and `AttestOwner` are the calls
the boot stages make in order; the calls `dice_chain_*` inside them are operators
on `chain` of the same names.  `Erase` and `Write` are the two flash operations of
`dice_chain_flush_flash`, with a fault possible in either; `Corrupts` damages a page
at rest.  Between boots another ROM_EXT or owner image may be installed, which
changes the keys.  `static_dice_cdi_0` lies in RAM that nothing clears: when a boot does
not rebuild CDI_0, `ImmSection` may find a certificate left there (`LeftCerts`), of an
earlier boot or with no key at all, and later stages take it for one that was
rebuilt (`Misled`); one that is too long for the page ends the boot (`TooLong`).

### Bootstrap and SpiNor

`spi` is the SPI device: busy and write enable latch, the interrupt, the FIFOs of
opcodes and addresses, the payload buffer.  `"Other"` is any opcode the loop does not know.
`dev` is the loop of
`enter_bootstrap` and where it is in it (`Poll`, `ClearIntr`, `Fetch`, `Payload` are
the register accesses of `spi_device_cmd_get`; `Work` one flash transaction each
time it is taken).  `flash` gives for every address the set of bits programmed in
this session, with `OldBit` for what was there before: programming the same
address twice is the union.  The host waits for the busy bit or not (`Patience`).
`SpiNor` has one action for what the comments of `lib/bootstrap.h` and the NOR flash
commands promise: `Accept` a command, `Finish` it with its whole `Effect`.
`ImplementsNor` maps `flash` to its `mem`, except that while the busy bit is set
`mem` is the flash before the command.

### TcpServer

The server thread is `Srv*`, one action per call that blocks or touches shared
state, the simulation thread is `Sim*`.  A write of a ring is split into the stores
the compiler emits (`PutSteps`): nothing in the ring is `volatile` or atomic, so the
order is the compiler's.  The orders for `Build` `"O2"` and `"O0"` were read from the
output of gcc 12.2 for x86-64 at these levels.  Descriptors are numbers that are reused, the
lowest first, as `accept` does; `FdLimit` of them can be open, and without a free one
`accept` fails and the client waits.  Clients speak `remote_bitbang`: writes without an
answer, reads with one, and a quit.  The command after a write may be taken in the same
tick (`lookahead` of `jtagdpi.c`) and, unless it is a read, waits for the next; that shows
only in a quit that the end of the simulation overtakes (`TakenAhead`).

### Rescue

`script` is what the host wants: a sequence of requests, each a mode command and
a file of some blocks (a block is one XMODEM-1K frame, half a flash page).
`toDevice` and `toHost` are what is on the line.  `dev` is `rescue_state_t`:
`frame`, the write offset, the begin of the region, the `staged` blocks of the
page buffer (the code's `data[0 .. offset]`), whether the deadline runs, and
whether `protocol()` still does (`open`, `exit`).

One action of the device is one turn of the loop of `protocol()`: what
`xmodem_recv_frame` makes of the next thing on the line, and the handler that
follows (`Handle`: `FirmwareBlock`, `OwnerBlock`, `BootSvcReq`), with its answer.
`ReceiveFrame`, `ReceiveOverrun`, `ReceiveWrongNumber`, `ReceiveBadCrc`,
`ReceiveShort` and `ReceiveEof` are its results; `ReceiveStartless` is what it
makes of a frame whose first byte is lost, where the frame number is read as the
first byte; `ReceiveNoise` takes what is left of such a frame, which may contain
any code.  `StartTimeout` is a second of silence, `Inactivity` the deadline with
the request to skip rescue that `rom_ext.c` then leaves, `Output` what the device
prints after rescue has ended.  The host's actions are the reads and writes of
`set_mode` (`SendMode`, `AwaitMode`, `ModeTimeout`), `send_start` (`AwaitStart`),
`send_data` (`AwaitReply`) and `send_finish` (`AwaitFinish`).  A read of the host
waits for ever, as it does in the code.

The line keeps the order and does one of these to the next thing on it
(`Faults`): damage a payload, damage a frame number, cut a frame short, lose the
first byte of a frame, lose or change an end-of-file character, a command, or a
reply.  A frame is delivered whole otherwise, and a CRC that matches is taken as
proof that the payload is intact.  `PromptHost` says whether the host reacts
within the device's timeout of a second; where it is FALSE the device may time
out while answers and frames are on their way.

Flash is erased and programmed by pages; a page programmed twice is `Mixed`.  An
operation that fails has done nothing or, for the erase of a region, everything.
Left out: modes in which the device sends, 128-byte frames, `BAUD` and `KLBR`,
SPI; entering rescue is in `BootFlow`, USB-DFU in `Dfu`.

Behaviours the model brings out, none of them against a text: a host that
takes longer than a second to begin finds two start characters, takes the second
for a reply to block 1, sends it again and has its transfer cancelled (no harm
to flash); when the end-of-file character is lost, the device ends the session
by timeout and prints an error, the first character of which the host takes as
the answer, so it reports success although the last half page was not written
(`AckedFileStored` therefore speaks of an `ACK` that was really sent).

## Runs

| Run | Shows | Bounds |
|---|---|---|
| `boot_data` | order of counters, search, refinement of `BootRecord` | 2 entries per page, 2 payloads and a version 1 payload, counters 5..9: four writes, two page switches |
| `ownership` | history of owners, authority of seals, redundancy, limits of the unlock key, no replay | 2 owners; blocks in Open mode of both, in Self mode of one; requests until nonce 4 is stored: a transfer to the other owner and back, or to the other and to itself; a request is at most one nonce old (`MaxStale`); one reset, power loss or flash error anywhere |
| `ownership_versions` | no rollback, every request answered, redundancy restored; the inductive invariant, and types with it | one owner, blocks in SelfVersion (version 1), NewVersion (2) and Open mode (3), and one of version 2 that does not parse; nonce 2; all faults, any number of times, for the liveness until some moment |
| `ownership_history_power` | violation, see Findings | one power loss |
| `boot_flow` | what a request, an update, a failed write or a power cut may do to the next boots; rescue and requests end | ROM_EXT of two versions, one that advances the minimum, or erased; owner images of two versions or erased; owner blocks that demand the lowest minimum, one that not all images reach, or none (`UINT32_MAX`); 9 requests; one image or owner block written, one fault and one request after any start |
| `dfu` | what is uploaded and downloaded, the status told, buffers, no transfer hangs | packets of 2 units, a block of 4 (two packets), 5 buffers, FIFO of 3; 15 requests; two blocks; owner pages that cannot be read, until one is uploaded |
| `dice_chain` | the chain the owner finds, who signed it, no boot loop | 2 ROM_EXT images, 2 owners, 4 faults, a boot misled by what RAM held counted as one |
| `bootstrap` | refinement of `SpiNor`, no mixed images, the busy bit clears | two banks of 16 bytes, flash words of 2, windows of 4, program pages of 8; 3 commands in a session, an unknown one among them, 2 sessions; erase and program that fail, erase that leaves bits, power cuts |
| `tcp_server` | order of commands and answers, assertions, both threads can end | 2 clients, ring of 4 (3 bytes), sockets of 1 byte; 2 descriptors; 3 answers outstanding; clients quit or vanish |
| `rescue` | images, acknowledgements and flash agree under line faults | banks of 4 pages, region of 2, ROM_EXT in slot A; images of 1, 3, 4, 5 and 6 blocks, with and without ROM_EXT, that fit or do not; two requests; 3 faults of 5 kinds; frame numbers modulo 3 (so that stale frames can match) |
| `rescue_commands` | running code with every fault, permissions, the deadline; the inductive invariant, and types with it | 6 scripts, default mode NoOp, ROM_EXT in slot B; 3 faults of all 7 kinds; frame numbers in a byte, so that 1, 2 and 4 are the codes they are |
| `rescue_live` | delivery by a prompt host | 4 damaged payloads, 5 errors allowed |

The configurations `MC<module>More.cfg` check, in the instances of these runs, what
the runs do not list.  First of all the inductive invariants of the proofs: `IInv` of
`BootFlow`, `Dfu`, `Rescue` and `TcpServer`, `OrderInv` and `StoredInv` of `Rescue`,
`OwnershipInv` and `HistoryInv`, `ChainInv`, `LoopInv`, `CommandInv` and `AnswerInv`
(`MCOwnershipMore.cfg` is for `MCOwnershipHistory`; each has `TypeOK` as a conjunct, or stands beside `IInv`, which has; `BootData` has
no such file).  Then `DownloadsOnly` (a block is handed to the receive
handler once), `PermsClosed` (flash permissions are taken back when one of two
erasures fails), `IssuerSigned`, `ErasesOnlyWrong` and `FactoryKept` (certificate
pages), which are also theorems, and `Accepted` (a second client is refused, not left
waiting), which is not.

`AckedFileStored` is not claimed in `rescue_commands`: when the first byte of a
frame is lost, item 5 under Findings breaks it.

Why the bounds are enough: two entries per page already give a full page, an empty page, a
switch in each direction and stale entries on both.  Counters count writes, and the four
writes wrap around both pages.  `boot_data` takes a development life cycle state, in which
an empty log reads as the default record; the production state, in which it is an error,
differs only there and is covered by the theorems.  In `Ownership` the number of boots is
not bounded at all, only the number of accepted requests (each raises the nonce); in
`ownership_versions`, and in the theorems, neither is the number of resets and errors.
The run `ownership` takes one fault and requests that are at most one nonce too old, so
that the transfer there and back fits, with which TLC finds it out if the hash chain of
the first transfer is not read in the second (`EraseSecretNew`); an older nonce is refused
like the one before the current one.  A block that does not parse is among those of
`ownership_versions`.  Both owners can be the initial one.  The properties with a theorem
hold for every value of the constants its hypotheses allow.

The counter of the boot data log is a 32-bit number in the code
(`boot_data.c:620`).  It wraps after 2^32 writes, far beyond what a flash page
endures, so the wrap is outside the model (`MaxCounter`).

`boot_flow` starts in every combination of images, with the minima at zero; the
one update, fault and request can fall anywhere in the boots that follow, without
a bound on these.  The hazards of the boot flow are about two boots and the write
between them, so a second request repeats what the first has shown.  In `dfu` two
blocks are what it takes to answer for the wrong one, and a block of two packets
has a first and a last.  In `bootstrap` the
program commands start inside a page and wrap, start inside a word, and are
longer than a page.  In `tcp_server` three bytes fill a ring and every index
wraps.

Deadlock is checked in the runs of boot data, ownership and DICE, whose models
never stop.  Rescue does stop: when the host has failed or finished and the device
waits in a mode in which it does not ask for frames.  `boot_flow` stops when the
owner's code runs, all bounds are used up and nothing resets the chip; `dfu` when
the firmware has rebooted; `bootstrap` when the sessions are used up; `tcp_server`
when both threads have ended, or an assertion has.

### Fairness

`LiveSpec` of `Ownership` assumes `WF_vars(Firmware)`: the processor executes
the next instruction of the boot as long as it can, which is all the code needs,
since it runs alone, without interrupts and without waiting for anything in the
modelled part.  It also assumes `<>[][~Fault]_vars`: from some moment on no reset
or flash error interrupts a boot.  Without it a reset in every boot at the same
place is a behaviour, and no firmware makes progress under it.  Nothing is
assumed of the owner's software or of reboots; `RedundancyRestored` has "the chip
is rebooted again and again" as its premise.

`FairSpec` of `Rescue` assumes `WF_vars(Device)` and `WF_vars(HostNext)`: the
processor runs, and the host's program is scheduled.  The line owes nothing, but
its faults are bounded.

`FairSpec` of the others:

* `BootFlow`: `WF(Boot)`, the processor runs, and `WF(RescueInactive)`, the timer of
  the inactivity deadline runs and the host does not keep rescue busy for ever.
  Nothing is assumed of requests, updates and resets.  `OwnerRuns` has as its
  premise that something bootable stays in flash, `RequestsDrain` that boots
  keep reaching the boot services.
* `Dfu`: `WF(Device)`, the poll loop runs, and `WF(Bus)`, a host controller completes
  the transfer it has begun.  That a new request comes is not assumed.
* `DiceChain`: `WF(Boot)`, the processor runs, and `WF(OwnerResets)`, the chip boots
  again and again.  Faults are bounded, and with them the boots that RAM misleads:
  `Recovers` is about the boots after the last.
* `Bootstrap`: `WF(Device)` and `WF(ReadStatus)`: a host that waits for the busy bit
  polls it.
* `TcpServer`: both threads and each client's socket calls are scheduled.  Nothing
  is assumed of clients that connect, quit or vanish.

## Findings

Item 1 is the run `ownership_history_power`.  The others have no run of their own but a
configuration beside the modules, which TLC finds violated, for example
`tlc -config MCOwnershipRecovery.cfg MCOwnership`; the counterexample is what the
code does.

1. `OwnershipHistoryPower.cfg` (`MCOwnershipHistory`): a transfer interrupted after the owner pages are
   written completes without the prior owner entering the OwnerSecret chain, so
   the new owner keeps the prior owner's secret or history.
2. `MCOwnershipRecovery.cfg` (`MCOwnership`): with page 0 unreadable the recovery key, which exists
   for exactly that situation, is refused, because the signature algorithm is
   taken from page 0 (`ownership_key.c:59`).
3. `MCOwnershipMinSec.cfg` (`MCOwnership`): a configuration update by version number resets the
   minimum security version only in RAM (`ownership.c:76`).  `BootFlow` shows what follows.
   For that boot a slot may be accepted or refused that the next boot judges otherwise, and the
   boot log tells a minimum that was never stored.  A later request of the same boot to
   change the primary slot, or to unlock, writes the whole copy and so stores the
   minimum, also if no image in flash reaches it: nothing compares an owner block's minimum
   with the images, as is done for a request (`rom_ext_boot_services.c:110`).  An
   activation that fails at a flash operation leaves the changed minimum, and at the
   OwnerSecret page the changed slot, in RAM for that boot (`ownership_activate.c:28-40`).
   The properties of `BootFlow` name these cases (`unstored`).
4. `MCOwnershipDuplicate.cfg` (`MCOwnership`): the check before activation (`ownership_activate.c:21`) does not
   see duplicate items, the parse at the next boot does, and the configuration is
   not applied.
5. `MCRescueBadStart.cfg` (`MCRescue`): block 4 without its first byte begins with the byte 4, the
   end-of-file code.  The document says that the transfer is aborted.  The device
   takes the transfer as ended (`xmodem.c:137`), writes what it has and acknowledges, and the host
   takes that for the answer to block 4: a file of four blocks is reported as
   sent and its last block is lost.
6. `MCDiceChainLeftOver.cfg` (`MCDiceChain`): `static_dice_cdi_0.cert_size` is the mark that CDI_0
   was rebuilt in this boot, and the comment at `dice_chain.c:386` says "Save cdi 0 to flash
   if regenerated".  Only line 333 assigns it, when CDI_0 is rebuilt; lines 387 and 428
   read it in every boot.  Its section is not loaded or cleared by ROM_EXT and lies where
   ROM had data.  If something other than zero is left there, a boot saves it as its CDI_0
   certificate, or fails if it is longer than the page (`perso_tlv_data.c:111-113`).
   The passing run and the theorems include such boots: the rest of the chain is right even
   so, and the first boot that is not misled puts the certificate right unless its key
   happens to be the right one.
7. `MCDfuUpload.cfg` (`MCDfu`): the comment at `dfu.c:154` says that a prior SET_INTERFACE
   has staged what an upload returns.  A second upload after a download, or after
   a short one without GET_STATUS, returns what is in the buffer.  `usbdfu.rs` avoids
   it, as it asks for the status and sets the interface each time.

   The comment is contradicted in another way that no host avoids: `dfu.c:77`
   ignores what `rescue_send_handler` returns.  When the owner page cannot be read
   (`rescue.c:264-270`) SET_INTERFACE is acknowledged, the buffer holds what came from the
   flash before the error (`flash_ctrl.c:131-141`), and an upload returns as much of it as was
   staged for an earlier mode.  With nothing staged before, the upload is answered by an empty
   packet without a status stage, as if it were a request without data, and the next
   one starts on a transfer that has not ended: of what follows, the properties of `Dfu`
   say nothing (`misread`).
8. `MCDfuAbandoned.cfg` (`MCDfu`): the comment at `dfu.c:311` says that a completion in
   DnLoadSync means that the buffer has data.  When a host abandons a download and
   makes another request, the completion of that one hands over the old buffer.
9. `MCTcpServerRace.cfg` (`MCTcpServer`): both threads may call
   `tcp_server_client_close`.  When a client quits while another connects, the server
   thread sends to descriptor 0 and the assertion at `tcp_server.c:288` fails.
10. `MCTcpServerFull.cfg` (`MCTcpServer`): `tcp_server.h` says that a write blocks while the
    buffer is full.  The ring's indices are not `volatile`; compiled with `-O2` the wait
    (lines 67-68) reads them once and never ends.
11. `MCTcpServerEarlyIndex.cfg` (`MCTcpServer`): compiled without optimisation the index is stored
    before the byte, and the other thread may read the byte that was there before.

A further observation, modelled (`SecretUnreadable`) but contradicted by no
text: after power loss between the erase and the write of the OwnerSecret page,
every later transfer on silicon fails with an error.

Other disagreements of text and code, without a run of their own:

* `lib/boot_data.c:636` says that only one valid entry is left after a write.  A
  reset before line 638 leaves the previous entry valid for good.  Harmless: the
  search takes the greater counter (`SearchFindsNewest`).
* `lib/ownership/ownership.c:220` says that pages 0 and 1 of a locked chip are made
  identical; `locked_owner_init` (line 91) only looks at the seals.  A transfer
  interrupted between the pages and then aborted leaves two sealed pages of
  different owners, and if page 0 is damaged later the chip is the other owner's.
* `rescue_limit_test.rs:120` expects a cancel for an image that exceeds the rescue
  region.  One that exceeds it by at most 1 KiB is found too big only at the end
  of the file; `send_finish` (`xmodem.rs:170`) ignores the device's CAN CAN.
* `rom_ext/doc/rescue.md:230` says that WAIT is always allowed;
  `rescue_validate_mode` (`rescue.c:156-175`) has no case for it and refuses it.
* `lib/bootstrap.c:229-230` says that any other command than an erase, a reset
  included, is ignored and WIP cleared right away.  One sent without a write enable,
  as a reset usually is, makes `bootstrap_handle_erase` return at lines 214-216,
  before the busy bit is cleared at 231: a host that polls it waits for ever.
  The host of the model enables writes first, as `flash.rs` does.
* `rom/base_rom.c:182` says "let's try the next one" of a ROM patch that fails; the
  `continue` in a `do … while (false)` leaves the loop, so the next patch is
  not tried.
* `tcp_server.c:255` accepts a new connection when the client "went away"; but that is
  the branch for a closed descriptor, and the `read` of 0 by which a departed
  client shows is taken for no data (line 248).  So a client that closes without the quit
  command is noticed only when an answer to it cannot be sent.  With three or
  more answers pending the second closes the client and the third is sent to
  descriptor 0, where the assertion at line 288 ends the program; what is left in the
  ring goes to the next client.

Behaviours the models bring out that contradict no text:

* Boot flow: ROM takes the chip for waking only if a low-power exit is the sole
  reset reason (`rom.c:163`), ROM_EXT if it is among them (`rom_ext.c:561-563`).  With
  another reason beside it, boot services and rescue are skipped for one boot.
  After a failed write of the minimum security version the boot log tells the new
  one, the next boot finds the old one (`LogTells` excepts it, as it does a minimum that
  was changed in RAM only, item 3).  A wake-up after a
  one-time choice of slot resumes in the stored primary slot.
* DFU: GETSTATE in dfuIDLE moves to dfuUPLOAD-IDLE and its completion drops what is
  staged.  The error of one block is covered by the success of the next if the
  host does not ask for the status between them.  An IN transfer that the host
  abandons keeps its packet buffer (the TODO at `usb.c:393`).
* Bootstrap: only the first erase of a session is verified.  A second command sent while the
  first is busy can lose its interrupt (`spi_device.c:628`) or mix payloads;
  `NoMixture` and `PermsClosed` hold even so.

## Proofs

`BootDataProofs`, for any number of entries per page, any payloads and any life
cycle state, from `ConstantsAssumption` (payload sets are disjoint from the
special values, the page has at least one entry):

* The inductive invariant `IInv`.  `NewestIsLast` is not inductive: an
  interrupted erase can make an invalidated entry valid again.  So `Ordered`
  states the order for *whole* entries (both program operations ended, whatever
  the mark).  `SomeNewest` says that the greatest whole entry is valid and its
  page has no holes, and `Progress` what each point of a write knows of the old
  and the new entry.
* From it `TypeOK`, `NewestIsLast`, `SearchFindsNewest`, `NeverForgotten`.
* `LogImplementsRecord`: every step but one keeps the newest entry, and that one
  (`WriteBody`) is the commit of `BootRecord`.

`OwnershipProofs`, for any owners, any set of blocks and any of the faults:

* The inductive invariant `IInv`: what the boot believes (RAM state, page
  status, page copies) against what flash holds, for each `pc`; in particular
  that an update of a page starts only with the other page sealed or with the
  right, stored in flash, to write it (`UpdatesSafe`), and that RAM's nonce is
  not older than the stored one (`NonceFresh`).
* From it `TypeOK`, `SealAuthorised`, `RedundancyKept`, `NoReplay`.
* `ForceInv` on top of it: which block is in force while page 0 is being repaired or
  updated, and that RAM's page 0 is that block up to the commit.  One state was in the
  way: a boot that failed to store the Recovery state runs as Recovery on a locked
  chip.  It accepts no request, because its nonce is newer than any request's
  (`RequestsStale`).  From it `UnlockKeyLimited` and `NeverRollsBack`.
* `HistoryInv`, of the specification with history: on a chip that no fault has
  interrupted, the OwnerSecret page (or the chain that is about to replace it) has every
  owner before the one that is served.  From it `HistoryUninterrupted`; that the
  hypothesis is needed is item 1 under Findings.

`BootFlowProofs`, for any images, requests and minima, any reset reasons and any
number of updates and faults:

* `IInv`: the running ROM_EXT is the one that ran last and the boot log names it
  (`SelfKept`), how far the RAM copy of the record may be from flash at each point
  (`CopyFresh`), which part of the boot log is already right (`LogFresh`), and the two
  properties about what still boots, which are inductive only together with these.  An owner
  block may put any minimum in the copy and any later write store it; so `CopyFresh` keeps
  apart the minimum, which is then marked `unstored`, from slot and ROM_EXT minimum, and
  says that what has run and is still counted reaches the copy's minimum too.
* From it `TypeOK`, `RomExtSurvives`, `RanStillBoots`, `LogTells` and the action
  properties `OwnerSlotExplained` and `RecordOnlyByRequest`.

`DiceChainProofs`, for any sets of ROM_EXT and owner images and any number of faults:

* `IInv`: one page is ever dirty, nothing unsaved is in the buffer when another page is
  loaded, and the key in the ACC is the one named as the issuer (`BufferOK`).  From it
  `TypeOK`, `IssuerSigned`, `FactoryKept`.
* `ChainInv`: a sealed page is a chain of some boot, with a certificate left in RAM in the
  first place at most (`SealedIsChain`), the flag tells whose CDI_0 is in flash unless the
  boot is misled (`Cdi0Known`), and what buffer and flash hold at each point (`Rebuilt`).
  From it `OwnerSeesChain` and `ErasesOnlyWrong`.  Nothing is assumed of what RAM holds
  when a boot starts; that `OwnerSeesChain` cannot say "the chain of this boot", without
  the exception for a left-over, is item 6 under Findings.

`BootstrapProofs`, for flash, pages, words and windows of any size that
`GeometryAssumption` allows, any commands and any of the faults:

* `IInv`, for any host: an opcode is taken only when there is one, the erase stage
  programs nothing and is left only after a verify that found no old bit
  (`EraseComesFirst`), permissions are open only at work.  From it `TypeOK`,
  `NoMixture`, `PermsClosed`.
* `LoopInv` adds `PatientInv`: a host that waits for the busy bit has one command on
  its way at most, which is in the FIFOs or in the loop but never in both
  (`OneCommand`), and each transaction turns the bytes of its window, and no others,
  into what the command makes of them (`WholeCommand`).
* From it `NorImplemented`: every step of bootstrap is a step of `SpiNor` or leaves its
  variables alone.  Most of the proof is arithmetic of addresses: a page program that
  wraps, split by flash words and windows, covers each byte once.

`DfuProofs`, for any sizes that `SizesAssumption` allows and any requests, with the
hypothesis `Polite`, a host that ends each request and asks for the status after an
upload, as `usbdfu.rs` does.  Without it two of the properties are false, which are
items 7 and 8 under Findings.

* `IInv`: host, bus, FIFO, endpoint registers and driver are together in one of the
  stages of a control transfer (`Stages`, eight of them, from `Settled` to `AckSent`).
  That is the difficult part: the properties compare what the host has seen with what
  the handler did, while both ends of the transfer and the next SETUP packet can be
  under way.  `SetupWaits` is about a SETUP packet not yet handled, `BlocksInOrder`
  about the block last handed over, `StatusTold` about the answer of a GETSTATUS in
  progress, `Asked`, `Staged` and `Uploading` about what an upload will return.
* All of this is `Regular`, which holds until an upload of an owner page that could not be
  read (`misread`).  From then on `Misread` says that no further request is under way, and the
  properties have it as an exception.  `Staged` says that the buffer holds what the mode
  offers, or what a failed read left in it.
* From it `TypeOK`, `BuffersConserved`, `PoolBounded`, `StatusTruth`, `UploadIsStaged`
  and the action property `DownloadsOnly`.

`RescueProofs`, for any scripts, geometry of the banks, permissions, prompt or
slow hosts, and any number and kind of line faults, from `RescueAssumption`
and `HostAssumption` (the geometry is ordered, scripts are sequences of requests):

* The inductive invariant `IInv`.  `RunningCodeUntouched` is not inductive: which
  pages a transfer may write was decided at its first page (`RegionChosen`), and
  only `TypeOK`'s range of the offset keeps it out of what lies behind.
  `DeadlineOff` says that what an inactivity reset would destroy is only there
  once a packet has switched the deadline off; `RetriesLeft` bounds the host.
* From it `TypeOK`, `RunningCodeUntouched`, `SkipKeepsRequest`.
* The handlers are proved once (`HandleKeeps`) for any state `Continue` may be
  given, and used for a frame, an end of file and a misread frame.
* `OrderInv`, with the hypothesis `FramesComplete` (the line never loses the first byte
  of a frame, and numbers wrap after more than one frame).  `PrefixOfOneImage` relates
  flash to the script, but a step changes flash by what is on the line.  So the invariant
  says where a transfer is (`TransferStage`: the host is at the frame the device expects
  or has yet to read the ACK for it), what can be on the way (`FramesInOrder`: only that
  frame and the one before, in order, and nothing else before the end of the file;
  `LineInOrder`: a mode command is the last thing), that no answer is left over
  from a request before (`RepliesInOrder`, `StartStage`), and how far the image
  has come (`ImageInOrder`: frame number, staged blocks, write offset and flash agree, and
  the rest of the region is erased).  From it `PrefixOfOneImage` and `AckedIsKept`,
  for images of any length and any number of faults.
* `StoredInv` on top of it adds the owner block and the boot service request
  (`BlocksStored`) and the answer to the end of the file (`FileStored`: in
  `eof` an ACK on the line is that answer).  From it `AckedFileStored`, with the
  hypothesis `FileSizes`: an owner block of one or two blocks, a request of one.
  The device acknowledges an empty owner block, or the second block of a longer one,
  which overwrites the first.
* Why `FramesComplete`: a frame without its first byte leaves noise that may hold any
  code, and the handler answers some of it with an ACK; the host would take that for the
  ACK of a block (item 5 under Findings is one such case).  The run `rescue` leaves this
  fault out for the same reason, `rescue_commands` takes it and claims the running
  code and the request only, which are proved for every fault.

`TcpServerProofs`, for rings and sockets of any size, any commands of any clients and any
number of outstanding answers, from `SizeAssumption` and `ClientAssumption`:

* `IInv`, in both builds and whoever connects: an index is one past the ring only
  between the two stores of the thread that owns it (`StepsOK`).  From it `TypeOK`.
* `CommandInv`, with the hypothesis `Build = "O2"`.  What the reader will take is a
  function of the ring (`Contents`) that only complete steps change: a byte that is
  stored before its index is not yet in it (`StoredIn`), and the room that the writer
  has seen cannot go away, since the other thread only makes room (`SpaceIn`).  A
  command is then in the socket, with the server thread, in the ring, with the simulation,
  or handled, and the first of these follows the second, and so on (`StreamOK`).  From it
  `CommandsInOrder`, also for clients that vanish or overlap.
* `AnswerInv`, with `~Overlap` in addition: the same for the ring of answers
  (`AnswerSpace`), and, until a client goes away without its quit command, who is served
  (`Orderly`).  A client that has quit has read all its answers, so when the simulation
  comes to the quit command both rings are empty of other bytes, and
  nobody waits in the backlog: the descriptor that the simulation closes is that of
  this client, and the server thread finds it closed at most in `select` or in a read,
  never in a send (`OneClient`, `OwnBytes`, `Closing`).  From it `AnswersInOrder` and
  `AbortsOnlyEarly`.
* Why the hypotheses: `"O0"` stores the index first, and `CommandsInOrder` is false of it
  (item 11 under Findings); with `Overlap` the assertion fails (item 9).  The run
  `tcp_server` has the same two.
* `CommandsInOrder` and `AnswersInOrder` speak of the numbers of a client's bytes
  in a sequence (`Carries`: which ones, and that they increase), not of a filtered
  sequence: what `SelectSeq` yields for every sequence is a fact by induction over data.

Only model-checked:

* `HistoryComplete`, which is violated;
* liveness (`RequestAnswered`, `RedundancyRestored`, `Delivered`, `OwnerRuns`,
  `RequestsDrain`, `TransferEnds`, `Recovers`, `Finishes`, `Answered`, `Joins`, and
  `Accepted`): the prover has no rule for ENABLED under fairness.

## Plan

1. Done: `BootRecord`, `BootData`, proofs.
2. Done: `Ownership`, `OwnershipHistory`, proofs.
3. Done: `RescueDevice`, `Rescue`, proofs.
4. Done: `BootFlow`.  Left: composed with `Rescue` for the shared message slot, and
   what `rom_ext_boot` locks before it jumps.
5. Done: `Dfu`, `DiceChain`, `Bootstrap` with `SpiNor`, `TcpServer`.
6. Proofs.  Done: `BootFlow`, `DiceChain`, `Bootstrap` with its refinement of `SpiNor`,
   `Dfu`, of `Ownership` `NeverRollsBack`, `UnlockKeyLimited` and
   `HistoryUninterrupted`, and of `Rescue` the images and files under line faults.
   `TcpServer` for the optimised build.  Left: which of its properties a client that
   goes away without quitting leaves intact.
7. `OwnerBlock`: the TLV walk of `owner_block_parse` and its two modes over bounded
   byte sequences, against a reference definition; then the modes of rescue in which
   the device sends, with `xmodem_send`, and the SPI transport.

## Not modelled

Hardware behind the drivers (RTL, key manager, KMAC, ACC), signature arithmetic,
fault injection and the countermeasures against it (`sec_mmio`, `HARDENED_CHECK`
other than those a legal run could reach), ePMP and what the stages lock before
they jump, the SPI transport of rescue, USB enumeration, manufacturing firmware,
device libraries and test framework, host tools other than the clients of rescue
and bootstrap, DPI models other than the TCP server and its JTAG client (one
thread, they drive pins), generators: pure
input/output, arithmetic, generated code, or not part of the product.
