----------------------------- MODULE Bootstrap ------------------------------
(***************************************************************************)
(* The ROM's bootstrap (lib/bootstrap.c, rom/bootstrap.c) between a host   *)
(* on the SPI bus and the flash: every register access that the host can   *)
(* interfere with and every flash transaction is a step of its own.  The   *)
(* spi_device and flash hardware are modelled from how the drivers use     *)
(* them.  A bus word is one byte here, a flash word Word bytes.            *)
(***************************************************************************)
EXTENDS Integers, Sequences, FiniteSets

CONSTANTS
  Bytes, Sector, ProgPage, Commands,
  Word,       (* Flash word: addresses are aligned and data padded to it.  *)
  Window,     (* A program transaction stays within such a window.         *)
  Page,       (* Flash page; a sector is two, a bank is Bytes \div 2.      *)
  MaxCommands, MaxSessions,   (* Bounds.                                   *)
  Patience,   (* May the host wait until a command is done?                *)
  Faults      (* "fails", "weak", "power".                                 *)

(* "Other" is any other opcode, like the 0x0 that a glitch can leave.       *)
Opcodes == {"ChipErase", "SectorErase", "Program", "Reset", "Other"}

ASSUME GeometryAssumption ==
  /\ {Sector, ProgPage, Word, Window, Page} \subseteq Nat \ {0}
  /\ Bytes \in Nat /\ Bytes % 2 = 0
  /\ Sector = 2 * Page /\ ProgPage % Word = 0

(* The commands that spi_device_init has uploaded to the firmware.         *)
ASSUME HostAssumption ==
  /\ Commands \subseteq [op : Opcodes, addr : Nat, len : Nat]
  /\ Patience \subseteq BOOLEAN

VARIABLES
  flash,     (* Address -> set of programmed bits, -1 an old one.          *)
  spi,       (* Registers of the SPI device.                               *)
  dev,       (* The bootstrap loop.                                        *)
  host,      (* What the host knows.                                       *)
  before,    (* History: flash when the command was uploaded.              *)
  sessions   (* Bound.                                                     *)

vars == <<flash, spi, dev, host, before, sessions>>

Address == 0 .. Bytes - 1
Bank == Bytes \div 2
Span(a, n) == a .. a + n - 1
Least(a, b) == IF a < b THEN a ELSE b
OldBit == -1
NoCmd == [op |-> "none", addr |-> 0, len |-> 0]

FreshSpi == [busy |-> FALSE, wel |-> FALSE, intr |-> FALSE, over |-> FALSE,
             cmds |-> <<>>, addrs |-> <<>>, depth |-> 0]
FreshDev == [pc |-> "Poll", stage |-> "Erase", over |-> FALSE, cmd |-> NoCmd, work |-> <<>>,
             perms |-> "none", err |-> FALSE, to |-> "Erase"]
FreshHost(p) == [patient |-> p, ready |-> TRUE, sent |-> 0, last |-> NoCmd, started |-> FALSE]

Init == /\ flash \in {[a \in Address |-> {}], [a \in Address |-> {OldBit}]}
        /\ spi = FreshSpi /\ dev = FreshDev
        /\ host \in {FreshHost(p) : p \in Patience}
        /\ before = flash
        /\ sessions = 1
-----------------------------------------------------------------------------
(* The host: opcodes 06h, 04h and 05h are answered by the SPI device, the  *)
(* others are uploaded and set the busy bit.  A patient host write-enables *)
(* each erase and program and then polls the busy bit; it resets the chip  *)
(* only after it erased it (opentitanlib: spiflash/flash.rs,               *)
(* bootstrap/eeprom.rs).                                                   *)
Running == dev.pc # "Ended"
MayAct == Running /\ (host.patient => host.ready)

WriteEnable ==
  /\ MayAct
  /\ spi' = [spi EXCEPT !.wel = TRUE]
  /\ UNCHANGED <<flash, dev, host, before, sessions>>
WriteDisable ==
  /\ MayAct
  /\ spi' = [spi EXCEPT !.wel = FALSE]
  /\ UNCHANGED <<flash, dev, host, before, sessions>>

Upload(c) ==
  /\ MayAct /\ host.sent < MaxCommands
  /\ host.patient => IF c.op = "Reset" THEN host.started ELSE spi.wel
  /\ spi' = [spi EXCEPT !.busy = TRUE, !.intr = TRUE,
                        !.cmds = Append(@, c.op),
                        !.addrs = IF c.op \in {"SectorErase", "Program"} THEN Append(@, c.addr) ELSE @,
                        !.depth = Least(c.len, ProgPage),
                        !.over = @ \/ c.len > ProgPage]
  /\ before' = flash
  /\ host' = [host EXCEPT !.ready = FALSE, !.sent = @ + 1, !.last = c]
  /\ UNCHANGED <<flash, dev, sessions>>

ReadStatus ==
  /\ Running /\ ~host.ready /\ ~spi.busy
  /\ host' = [host EXCEPT !.ready = TRUE,
                          !.started = @ \/ host.last.op \in {"ChipErase", "SectorErase"}]
  /\ UNCHANGED <<flash, spi, dev, before, sessions>>
-----------------------------------------------------------------------------
(* spi_device_cmd_get: read the interrupts, clear all of them, then take   *)
(* opcode and address from their FIFOs and the payload from its buffer.    *)
Go(pc) == dev' = [dev EXCEPT !.pc = pc]

PollIntr ==
  /\ dev.pc = "Poll" /\ spi.intr
  /\ dev' = [dev EXCEPT !.pc = "ClearIntr", !.over = spi.over]
  /\ UNCHANGED <<flash, spi, host, before, sessions>>
ClearIntr ==
  /\ dev.pc = "ClearIntr"
  /\ spi' = [spi EXCEPT !.intr = FALSE, !.over = FALSE]
  /\ Go(IF dev.over THEN "Ended" ELSE "Fetch")
  /\ UNCHANGED <<flash, host, before, sessions>>

Fetch ==
  /\ dev.pc = "Fetch"
  /\ LET addressed == spi.addrs # <<>>
     IN  /\ spi' = [spi EXCEPT !.cmds = Tail(@), !.addrs = IF addressed THEN Tail(@) ELSE @]
         /\ dev' = [dev EXCEPT !.pc = "Payload",
                               !.cmd = [op |-> Head(spi.cmds), len |-> 0,
                                        addr |-> IF addressed THEN Head(spi.addrs) ELSE Bytes]]
  /\ UNCHANGED <<flash, host, before, sessions>>
Payload ==
  /\ dev.pc = "Payload"
  /\ dev' = [dev EXCEPT !.pc = "Check", !.cmd.len = spi.depth]
  /\ UNCHANGED <<flash, spi, host, before, sessions>>
-----------------------------------------------------------------------------
(* A command is a sequence of flash transactions, in up to two parts: an   *)
(* error skips the rest of its part, and is returned after both.  Data     *)
(* bytes of a program transaction start at offset skip of the payload.     *)
Erasure(part, a, n) == [part |-> part, erase |-> TRUE, at |-> a, n |-> n, skip |-> 0]

(* bootstrap_chip_erase, bootstrap_sector_erase.                           *)
ChipErase == << Erasure(1, 0, Bank), Erasure(2, Bank, Bank) >>
SectorErase(addr) ==
  LET base == addr - (addr % Sector)
  IN  << Erasure(1, base, Page), Erasure(2, base + Page, Page) >>

(* flash_ctrl_data_write: one transaction per window.                      *)
Write(part, a, n, skip) ==
  LET count == IF n = 0 THEN 0 ELSE (a + n - 1) \div Window - a \div Window + 1
      From(i) == IF i = 1 THEN a ELSE (a \div Window + i - 1) * Window
      To(i) == Least(a + n, (a \div Window + i) * Window)
  IN  [i \in 1 .. count |-> [part |-> part, erase |-> FALSE, at |-> From(i),
                             n |-> To(i) - From(i), skip |-> skip + From(i) - a]]

(* Mutant: no wrap at the end of the page.                                 *)
PageProgramOn(addr, len) == Write(1, addr, ((len + Word - 1) \div Word) * Word, 0)

(* bootstrap_page_program: up to the end of the page, then from its start. *)
PageProgram(addr, len) ==
  LET padded == ((len + Word - 1) \div Word) * Word
      misaligned == addr % ProgPage
      first == IF misaligned > 0 THEN Least(ProgPage - misaligned, padded) ELSE 0
  IN  Write(1, addr, first, 0) \o Write(2, addr - misaligned, padded - first, first)

Work(c) ==
  CASE c.op = "ChipErase" -> ChipErase
    [] c.op = "SectorErase" -> SectorErase(c.addr)
    [] c.op = "Program" -> PageProgram(c.addr, c.len)

BadAddress(c) ==
  \/ c.op \in {"SectorErase", "Program"} /\ c.addr >= Bytes
  \/ c.op = "Program" /\ c.addr % Word # 0

(* flash_ctrl_data_default_perms_set, flash_ctrl_bank_erase_perms_set.     *)
PermsFor(c) ==
  CASE c.op = "ChipErase" -> "bank" [] c.op = "SectorErase" -> "erase" [] OTHER -> "write"

Begin(c) == dev' = [dev EXCEPT !.pc = "Work", !.work = Work(c), !.perms = PermsFor(c),
                               !.err = FALSE]

(* Mutant: an ignored command leaves the busy bit.                         *)
StartEraseSilent ==
  /\ dev.pc = "Check" /\ dev.stage = "Erase"
  /\ IF spi.wel /\ dev.cmd.op \in {"ChipErase", "SectorErase"}
     THEN Begin([dev.cmd EXCEPT !.op = "ChipErase"])
     ELSE Go("Poll")
  /\ UNCHANGED <<flash, spi, host, before, sessions>>

(* bootstrap_handle_erase: any erase command erases both banks.            *)
StartErase ==
  /\ dev.pc = "Check" /\ dev.stage = "Erase"
  /\ CASE ~spi.wel -> Go("Poll")
       [] spi.wel /\ dev.cmd.op \in {"ChipErase", "SectorErase"} ->
            Begin([dev.cmd EXCEPT !.op = "ChipErase"])
       [] OTHER -> Go("Status")
  /\ UNCHANGED <<flash, spi, host, before, sessions>>

(* bootstrap_handle_program.                                               *)
StartProgram ==
  /\ dev.pc = "Check" /\ dev.stage = "Program"
  /\ CASE dev.cmd.op = "Reset" -> Go("Ended")
       [] dev.cmd.op # "Reset" /\ ~spi.wel -> Go("Poll")
       [] dev.cmd.op = "Other" /\ spi.wel -> Go("Status")
       [] OTHER -> IF BadAddress(dev.cmd) THEN Go("Ended") ELSE Begin(dev.cmd)
  /\ UNCHANGED <<flash, spi, host, before, sessions>>

(* One flash transaction.  Padding leaves bytes as they are; half of one   *)
(* is done when it is interrupted, fails or, an erase, is too weak.        *)
Data(w, a) == LET i == w.skip + a - w.at IN IF i < dev.cmd.len THEN {i} ELSE {}
Worked(w, n) ==
  [a \in Address |-> CASE a \notin Span(w.at, n) -> flash[a]
                       [] w.erase /\ a \in Span(w.at, n) -> {}
                       [] OTHER -> flash[a] \cup Data(w, a)]
Half(w) == Worked(w, w.n \div 2)

Transact ==
  /\ dev.pc = "Work" /\ dev.work # <<>>
  /\ LET w == Head(dev.work)
     IN  \/ /\ flash' = Worked(w, w.n)
            /\ dev' = [dev EXCEPT !.work = Tail(@)]
         \/ /\ "weak" \in Faults /\ w.erase /\ dev.stage = "Erase"
            /\ flash' = Half(w)
            /\ dev' = [dev EXCEPT !.work = Tail(@)]
         \/ /\ "fails" \in Faults
            /\ flash' = Half(w)
            /\ \E k \in 2 .. Len(dev.work) + 1 :
                 /\ \A i \in 2 .. k - 1 : dev.work[i].part = w.part
                 /\ k \in DOMAIN dev.work => dev.work[k].part # w.part
                 /\ dev' = [dev EXCEPT !.err = TRUE, !.work = SubSeq(@, k, Len(@))]
  /\ UNCHANGED <<spi, host, before, sessions>>

ClosePerms ==
  /\ dev.pc = "Work" /\ dev.work = <<>>
  /\ dev' = [dev EXCEPT !.perms = "none",
                        !.pc = CASE dev.err -> "Ended"
                                 [] ~dev.err /\ dev.stage = "Erase" -> "Verify"
                                 [] OTHER -> "Status"]
  /\ UNCHANGED <<flash, spi, host, before, sessions>>

(* Mutant: the banks are not read back.                                    *)
EraseVerifyUnread ==
  /\ dev.pc = "Verify"
  /\ dev' = [dev EXCEPT !.pc = "Status", !.to = "Program"]
  /\ UNCHANGED <<flash, spi, host, before, sessions>>

(* bootstrap_handle_erase_verify reads both banks.                         *)
EraseVerify ==
  /\ dev.pc = "Verify"
  /\ dev' = IF \A a \in Address : flash[a] = {}
            THEN [dev EXCEPT !.pc = "Status", !.to = "Program"]
            ELSE [dev EXCEPT !.pc = "Ended"]
  /\ UNCHANGED <<flash, spi, host, before, sessions>>

(* spi_device_flash_status_clear: busy bit and write enable latch.         *)
StatusClear ==
  /\ dev.pc = "Status"
  /\ spi' = [spi EXCEPT !.busy = FALSE, !.wel = FALSE]
  /\ dev' = [dev EXCEPT !.pc = "Poll", !.cmd = NoCmd, !.stage = dev.to]
  /\ UNCHANGED <<flash, host, before, sessions>>

Device == \/ PollIntr \/ ClearIntr \/ Fetch \/ Payload \/ StartErase \/ StartProgram
          \/ Transact \/ ClosePerms \/ EraseVerify \/ StatusClear

(* The chip starts again, the straps still set: after bootstrap ended, or  *)
(* at any time, in the middle of a flash transaction too.                  *)
Restart ==
  /\ sessions < MaxSessions
  /\ dev.pc # "Ended" => "power" \in Faults
  /\ \E f \in {flash} \cup (IF dev.pc = "Work" /\ dev.work # <<>> THEN {Half(Head(dev.work))} ELSE {}) :
       flash' = [a \in Address |-> IF f[a] = {} THEN {} ELSE {OldBit}]
  /\ before' = flash'
  /\ spi' = FreshSpi /\ dev' = FreshDev /\ host' = FreshHost(host.patient)
  /\ sessions' = sessions + 1

Host == WriteEnable \/ WriteDisable \/ ReadStatus \/ \E c \in Commands : Upload(c)
Next == Device \/ Host \/ Restart

Spec == Init /\ [][Next]_vars
FairSpec == Spec /\ WF_vars(Device) /\ WF_vars(ReadStatus)
-----------------------------------------------------------------------------
(* PROPERTIES.                                                             *)

(* The states of the loop and of the registers; opcodes that are fetched   *)
(* were uploaded.                                                          *)
Bits == 0 .. ProgPage - 1 \cup {OldBit}
Transactions == [part : {1, 2}, erase : BOOLEAN, at : Nat, n : Nat, skip : Nat]
Registers == [busy : BOOLEAN, wel : BOOLEAN, intr : BOOLEAN, over : BOOLEAN,
              cmds : Seq(Opcodes), addrs : Seq(Nat), depth : 0 .. ProgPage]
LoopStates ==
  [pc : {"Poll", "ClearIntr", "Fetch", "Payload", "Check", "Work", "Verify", "Status", "Ended"},
   stage : {"Erase", "Program"}, to : {"Erase", "Program"},
   cmd : [op : Opcodes \cup {"none"}, addr : Nat, len : 0 .. ProgPage],
   work : Seq(Transactions), perms : {"none", "bank", "erase", "write"},
   err : BOOLEAN, over : BOOLEAN]
HostStates == [patient : BOOLEAN, ready : BOOLEAN, sent : Nat, last : Commands \cup {NoCmd},
               started : BOOLEAN]
TypeOK ==
  /\ flash \in [Address -> SUBSET Bits] /\ before \in [Address -> SUBSET Bits]
  /\ spi \in Registers /\ dev \in LoopStates /\ host \in HostStates
  /\ dev.pc = "Fetch" => spi.cmds # <<>>
  /\ Len(spi.cmds) <= host.sent /\ Len(spi.addrs) <= Len(spi.cmds)

(* Data programmed in this run of bootstrap never stands beside data from  *)
(* before it: whatever a host sends and when, and though an erase may be   *)
(* incomplete and say nothing, programming follows an erase of both banks  *)
(* that was read back (bootstrap_state_t, bootstrap_handle_erase_verify).  *)
NoMixture ==
  (\E a \in Address : flash[a] \ {OldBit} # {}) => \A a \in Address : OldBit \notin flash[a]

(* Neither default permissions nor bank erase are left enabled while       *)
(* bootstrap waits for the host or after it ended, also when one of two    *)
(* operations of a command fails.                                          *)
PermsClosed == dev.pc \in {"Poll", "Verify", "Status", "Ended"} => dev.perms = "none"

(* To a host that waits for the busy bit, bootstrap is the NOR flash of    *)
(* SpiNor: when the busy bit clears, the command has been done as a whole  *)
(* and has touched nothing else, wrapping within a page, padding to flash  *)
(* words and splitting at windows included.                                *)
Nor == INSTANCE SpiNor WITH
         mem <- IF spi.busy THEN before ELSE flash, wel <- spi.wel, busy <- spi.busy,
         op <- IF spi.busy THEN host.last ELSE NoCmd,
         open <- dev.stage = "Program", alive <- Running
ImplementsNor == [][host.patient => Nor!Next]_(Nor!vars)

(* A patient host's command is always finished or bootstrap ends: the busy *)
(* bit that the host polls does not stay set.                              *)
Finishes == (host.patient /\ spi.busy) ~> (~spi.busy \/ ~Running)
-----------------------------------------------------------------------------
(* THE INDUCTIVE INVARIANT.                                                *)

(* An interrupt comes with an opcode: clearing all interrupts before one   *)
(* opcode is taken loses commands, and never takes one too many.           *)
OpcodeWaits ==
  /\ spi.intr \/ dev.pc \in {"ClearIntr", "Fetch"} => spi.cmds # <<>>
  /\ spi.intr /\ dev.pc = "Fetch" => Len(spi.cmds) > 1
  /\ dev.pc \in {"Payload", "Check"} => dev.cmd.op \in Opcodes

(* Until both banks were read back as erased, there is nothing but old     *)
(* data and only erases are under way; from then on there is none.         *)
EraseComesFirst ==
  /\ dev.stage = "Erase" =>
       /\ \A a \in Address : flash[a] \subseteq {OldBit}
       /\ dev.pc = "Work" => \A i \in DOMAIN dev.work : dev.work[i].erase
       /\ dev.to = "Program" => dev.pc = "Status"
  /\ dev.stage = "Program" => dev.to = "Program" /\ dev.pc # "Verify"
  /\ dev.to = "Program" => \A a \in Address : OldBit \notin flash[a]

(* Permissions are enabled while flash is worked on.                       *)
PermsAtWork == dev.pc # "Work" => dev.perms = "none"

IInv == TypeOK /\ OpcodeWaits /\ EraseComesFirst /\ PermsAtWork

(* With a patient host there is one command at most on its way.            *)
Addressed(c) == c.op \in {"SectorErase", "Program"}
InFifos(c) ==
  /\ spi.cmds = <<c.op>> /\ spi.addrs = (IF Addressed(c) THEN <<c.addr>> ELSE <<>>)
  /\ spi.depth = Least(c.len, ProgPage)
NoneInFifos == spi.cmds = <<>> /\ spi.addrs = <<>> /\ ~spi.intr /\ ~spi.over
Fetched(c) ==
  /\ c.len <= ProgPage
  /\ dev.cmd.op = c.op /\ dev.cmd.addr = (IF Addressed(c) THEN c.addr ELSE Bytes)

Quiet ==
  /\ dev.pc = "Poll" /\ NoneInFifos
  /\ host.started \/ (~host.ready /\ Nor!IsErase(host.last)) => dev.stage = "Program"

OneCommand ==
  LET c == host.last
  IN  /\ ~host.ready /\ c \in Commands
      /\ IF c.op = "Reset" THEN dev.stage = "Program" ELSE spi.wel
      /\ host.started => dev.stage = "Program"
      /\ dev.pc \in {"Poll", "ClearIntr"} =>
           InFifos(c) /\ (spi.over <=> c.len > ProgPage) /\ spi.intr
      /\ dev.pc = "ClearIntr" => (dev.over <=> c.len > ProgPage)
      /\ dev.pc = "Fetch" => InFifos(c) /\ c.len <= ProgPage /\ ~spi.intr /\ ~spi.over
      /\ dev.pc \in {"Payload", "Check", "Work", "Verify", "Status"} => NoneInFifos /\ Fetched(c)
      /\ dev.pc = "Payload" => spi.depth = c.len
      /\ dev.pc \in {"Check", "Work"} => dev.cmd.len = c.len
      /\ dev.pc \in {"Poll", "ClearIntr", "Fetch", "Payload", "Check"} => flash = before
      /\ dev.pc \in {"Work", "Verify", "Status"} => c.op # "Reset"
      /\ dev.pc \in {"Work", "Verify"} => c.op # "Other"
      /\ dev.stage = "Erase" /\ (dev.pc \in {"Work", "Verify"} \/ dev.to = "Program") =>
           Nor!IsErase(c)

(* Each transaction turns its bytes, and no other does, into what the      *)
(* command makes of them.                                                  *)
Target == Nor!Effect(before, host.last, TRUE)
Touches(w, a) == a \in Span(w.at, w.n)
Result(w, a) == IF w.erase THEN {} ELSE before[a] \cup Data(w, a)
PartDone ==
  /\ \A i \in DOMAIN dev.work : \A a \in Address :
       Touches(dev.work[i], a) =>
         /\ flash[a] = before[a] /\ Result(dev.work[i], a) = Target[a]
         /\ \A j \in DOMAIN dev.work : Touches(dev.work[j], a) => i = j
  /\ \A a \in Address :
       (\A i \in DOMAIN dev.work : ~Touches(dev.work[i], a)) => flash[a] = Target[a]

WholeCommand ==
  /\ dev.pc = "Work" /\ dev.stage = "Program" /\ ~dev.err => PartDone
  /\ dev.pc = "Status" =>
       /\ flash = Nor!Effect(before, host.last, dev.stage = "Program")
       /\ Nor!IsErase(host.last) => dev.to = "Program"

(* All of it.                                                              *)
PatientInv ==
  host.patient => IF spi.busy THEN OneCommand /\ WholeCommand ELSE Quiet

LoopInv == IInv /\ PatientInv
=============================================================================
