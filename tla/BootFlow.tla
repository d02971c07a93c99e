------------------------------ MODULE BootFlow ------------------------------
(***************************************************************************)
(* One boot after another: the ROM picks a ROM_EXT, the ROM_EXT answers a  *)
(* boot services request, and either the owner's code (BL0) or the rescue  *)
(* protocol runs until the next reset.  What a boot leaves for the next is *)
(* the boot data record, the images in flash and the retention RAM.        *)
(* A boot data write is a single step here: BootData.tla shows that a      *)
(* reset leaves the old record or the new one.                             *)
(***************************************************************************)
EXTENDS Integers, FiniteSets

CONSTANTS
  RomExtImages,   (* [sec, major, minor, good, secver] a ROM_EXT slot can hold. *)
  Bl0Images,      (* [sec, good] an owner slot can hold.                        *)
  Requests,       (* Messages the owner or the rescue host leave.               *)
  Bl0Minima,      (* Minima an owner block may demand.                          *)
  UINT32_MAX,     (* The minimum of a block that demands none.                  *)
  RamResetReasons,(* Reset reasons that clear the retention RAM, by OTP.        *)
  RescueOnFail,   (* The owner asks for rescue when nothing boots.              *)
  MaxUpdates,     (* Bound: images and owner blocks written after the start.    *)
  MaxFaults,      (* Bound: failed flash operations and power cuts.             *)
  MaxRequests     (* Bound: requests left in the retention RAM.                 *)

ASSUME ConstantsAssumption ==
  /\ RomExtImages \subseteq
       [sec : Nat, major : Nat, minor : Nat, good : BOOLEAN, secver : BOOLEAN]
  /\ Bl0Images \subseteq [sec : Nat, good : BOOLEAN]
  /\ Bl0Minima \subseteq Nat /\ UINT32_MAX \in Nat
  /\ \A m \in Requests : m.type = "MinBl0SecVer" => m.min \in Nat

Slots == {"A", "B"}
Other(s) == IF s = "A" THEN "B" ELSE "A"
NoMsg == [type |-> "None"]
IsRequest(m) ==
  m.type \in {"NextBl0Slot", "MinBl0SecVer", "EnterRescue", "Unlock", "Activate"}

VARIABLES
  romExt,      (* The ROM_EXT image in each half of the flash.             *)
  bl0,         (* The owner image in each half.                            *)
  stored,      (* The boot data record.                                    *)
  block,       (* Owner page 1: {m}, a block not in force that demands the *)
               (* minimum m of the owner's images, or {}.                  *)
  msg,         (* Retention RAM: the boot services message.                *)
  bootLog,     (* Retention RAM: what this boot decided.                   *)
  reasons,     (* Why the chip was reset.                                  *)
  pc,          (* What runs.                                               *)
  self,        (* The slot of the running ROM_EXT.                         *)
  bootData,    (* The ROM_EXT's copy of the boot data.                     *)
  rescueRequested,
  bootAttempted,
  trigger,     (* The rescue pin.                                          *)
  once,        (* History: the slot set in the copy for this boot only.    *)
  wrote,       (* History: how this boot's writes of the boot data ended.  *)
  unstored,    (* History: an owner block changed the minimum of the copy, *)
               (* and nothing has stored it.                               *)
  ran,         (* History: owner slots that booted and are unchanged.      *)
  kept,        (* History: the last ROM_EXT that ran, unless bootstrapped. *)
  updates, faults, requests

images == <<romExt, bl0>>
flash == <<images, block>>
ram == <<self, bootData, rescueRequested, bootAttempted>>
history == <<once, wrote, unstored, ran, kept>>
bounds == <<updates, faults, requests>>
vars == <<flash, stored, msg, bootLog, reasons, pc, ram, trigger, history, bounds>>

BlankLog == [romExtSlot |-> "none", bl0Slot |-> "none", primary |-> "none",
             minBl0 |-> 0, minRomExt |-> 0]
NoData == [primary |-> "A", minRomExt |-> 0, minBl0 |-> 0]

Records == [primary : Slots, minRomExt : Nat, minBl0 : Nat]

(* rom_verify: the signature, and the anti-rollback check.                 *)
RomBootable(s) == romExt[s].good /\ romExt[s].sec >= stored.minRomExt

(* boot_policy_manifests_get: security version, then major, then minor,    *)
(* then slot A.                                                            *)
Newer(x, y) ==
  \/ x.sec > y.sec
  \/ x.sec = y.sec /\ x.major > y.major
  \/ x.sec = y.sec /\ x.major = y.major /\ x.minor > y.minor
RomFirst == IF Newer(romExt["B"], romExt["A"]) THEN "B" ELSE "A"

(* rom_ext_verify, under the minimum of a copy of the boot data.           *)
Verified(s, min) == bl0[s].good /\ bl0[s].sec >= min
Waking == "LowPowerExit" \in reasons

Init ==
  /\ romExt \in [Slots -> RomExtImages]
  /\ bl0 \in [Slots -> Bl0Images]
  /\ stored = [primary |-> "A", minRomExt |-> 0, minBl0 |-> 0]
  /\ block = {}
  /\ msg = NoMsg
  /\ bootLog = BlankLog
  /\ reasons = {"PowerOn"}
  /\ pc = "rom"
  /\ self = "none" /\ bootData = NoData
  /\ rescueRequested = "none" /\ bootAttempted = FALSE
  /\ trigger = FALSE
  /\ once = "none" /\ wrote = "none" /\ unstored = FALSE /\ ran = {} /\ kept = "none"
  /\ updates = 0 /\ faults = 0 /\ requests = 0

(* Every reset starts the ROM and forgets the RAM.                         *)
Restart(why) ==
  /\ pc' = "rom"
  /\ reasons' = why
  /\ self' = "none" /\ bootData' = NoData
  /\ rescueRequested' = "none" /\ bootAttempted' = FALSE
  /\ once' = "none" /\ wrote' = "none" /\ unstored' = FALSE

(* Also while owner page 1 is erased and written again.                    *)
PowerCut ==
  /\ faults < MaxFaults
  /\ Restart({"PowerOn"})
  /\ faults' = faults + 1
  /\ block' \in IF pc \in {"ownership", "bootSvc"} THEN {block, {}} ELSE {block}
  /\ UNCHANGED <<images, stored, msg, bootLog, trigger, ran, kept, updates, requests>>

(* shutdown_finalize resets the chip.                                      *)
ShutdownReset ==
  /\ pc = "shutdown"
  /\ Restart({"Software"})
  /\ UNCHANGED <<flash, stored, msg, bootLog, trigger, ran, kept, bounds>>

(* rom_init: a boot log of its own for every boot, and a fresh retention   *)
(* RAM when the reset reason asks for it.                                  *)
RomInit ==
  /\ pc = "rom"
  /\ msg' = IF reasons \cap ({"PowerOn"} \cup RamResetReasons) # {} THEN NoMsg ELSE msg
  /\ bootLog' = BlankLog
  /\ pc' = "bootstrapCheck"
  /\ UNCHANGED <<flash, stored, reasons, ram, trigger, history, bounds>>

(* rom_state_bootstrap_check: the straps are not looked at when waking.    *)
RomSkipBootstrap ==
  /\ pc = "bootstrapCheck"
  /\ pc' = "tryBoot"
  /\ UNCHANGED <<flash, stored, msg, bootLog, reasons, ram, trigger, history, bounds>>

RomBootstrap ==
  /\ pc = "bootstrapCheck"
  /\ reasons # {"LowPowerExit"}
  /\ updates < MaxUpdates
  /\ \E r \in [Slots -> RomExtImages], b \in [Slots -> Bl0Images] :
       romExt' = r /\ bl0' = b
  /\ updates' = updates + 1
  /\ ran' = {} /\ kept' = "none"
  /\ Restart({"Software"})
  /\ UNCHANGED <<stored, block, msg, bootLog, trigger, faults, requests>>

(* rom_try_boot: the second image only when the first fails to verify.     *)
RomTryBoot ==
  /\ pc = "tryBoot"
  /\ \E s \in Slots :
       /\ RomBootable(s)
       /\ s = RomFirst \/ ~RomBootable(RomFirst)
       /\ self' = s /\ kept' = s
       /\ bootLog' = [bootLog EXCEPT !.romExtSlot = s]
  /\ pc' = "romExt"
  /\ UNCHANGED <<flash, stored, msg, reasons, bootData, rescueRequested, bootAttempted,
                 trigger, once, wrote, unstored, ran, bounds>>

RomNothingBoots ==
  /\ pc = "tryBoot"
  /\ \A s \in Slots : ~RomBootable(s)
  /\ pc' = "shutdown"
  /\ UNCHANGED <<flash, stored, msg, bootLog, reasons, ram, trigger, history, bounds>>

WriteDropped(d) == stored' = stored /\ wrote' = "ok" /\ unstored' = FALSE /\ UNCHANGED faults
(* boot_data_write(d): reports success only for what it stored; a write    *)
(* that reports an error may have stored it all the same.                  *)
WriteOk(d) == stored' = d /\ wrote' = "ok" /\ unstored' = FALSE /\ UNCHANGED faults
WriteError(d) ==
  /\ faults < MaxFaults
  /\ faults' = faults + 1
  /\ stored' \in {stored, d}
  /\ wrote' = "error"
  /\ UNCHANGED unstored
NoWrite == UNCHANGED <<stored, wrote, unstored, faults>>

(* rom_ext_init and rom_ext_advance_secver; then the boot log.             *)
Advanced == [stored EXCEPT !.minRomExt = romExt[self].sec]
Advances == romExt[self].secver /\ romExt[self].sec > stored.minRomExt

RomExtStartStale ==
  /\ pc = "romExt"
  /\ IF Advances THEN WriteOk(Advanced) ELSE NoWrite
  /\ bootData' = stored
  /\ bootLog' = [bootLog EXCEPT !.primary = stored.primary]
  /\ pc' = "ownership"
  /\ UNCHANGED <<flash, msg, reasons, self, rescueRequested, bootAttempted, trigger,
                 once, ran, kept, updates, requests>>

RomExtStart ==
  /\ pc = "romExt"
  /\ IF Advances THEN WriteOk(Advanced) /\ bootData' = Advanced
                 ELSE NoWrite /\ bootData' = stored
  /\ bootLog' = [bootLog EXCEPT !.primary = stored.primary]
  /\ pc' = "ownership"
  /\ UNCHANGED <<flash, msg, reasons, self, rescueRequested, bootAttempted, trigger,
                 once, ran, kept, updates, requests>>

RomExtStartFails ==
  /\ pc = "romExt"
  /\ Advances
  /\ WriteError(Advanced)
  /\ pc' = "shutdown"
  /\ UNCHANGED <<flash, msg, bootLog, reasons, ram, trigger, once, ran, kept, updates,
                 requests>>
(* ownership_init (Ownership.tla has its conditions and its flash          *)
(* operations): a block in page 1 that is not in force is left there, or   *)
(* replaced by a copy of page 0.                                           *)
Initialised ==
  /\ pc = "ownership"
  /\ pc' = IF Waking THEN "sync" ELSE "bootSvc"
  /\ UNCHANGED <<images, stored, msg, bootLog, reasons, self, rescueRequested, bootAttempted,
                 trigger, once, wrote, kept, updates, requests>>

LeaveOldBlock ==
  /\ Initialised
  /\ block' \in {block, {}}
  /\ UNCHANGED <<bootData, unstored, ran, faults>>

(* ownership_activate: the minimum is changed in the copy of the boot data *)
(* before the first flash operation.                                       *)
Demanded(m) == IF m = UINT32_MAX THEN bootData ELSE [bootData EXCEPT !.minBl0 = m]
StillVerify(min) == {s \in ran : Verified(s, min)}

(* locked_owner_init takes a newer version of the owner's block and writes *)
(* no boot data; what it returns is discarded.                             *)
TakeNewVersion ==
  /\ Initialised
  /\ \E m \in block : bootData' = Demanded(m)
  /\ block' = {} /\ ran' = {}
  /\ unstored' = (bootData' # bootData)
  /\ UNCHANGED faults

(* An operation on page 1 fails: page 0 stays in force, and is copied over *)
(* page 1 if that does not fail too; the changed minimum stays in the copy. *)
TakeNewVersionFails ==
  /\ Initialised
  /\ faults < MaxFaults /\ faults' = faults + 1
  /\ \E m \in block : bootData' = Demanded(m)
  /\ block' \in {block, {}} /\ ran' = StillVerify(bootData'.minBl0)
  /\ unstored' = (bootData' # bootData)

OwnershipInit == LeaveOldBlock \/ TakeNewVersion \/ TakeNewVersionFails
-----------------------------------------------------------------------------
(* Boot services.                                                          *)
Handled == pc' = "sync" /\ UNCHANGED <<flash, reasons, self, bootAttempted, trigger,
                                       ran, kept, updates, requests>>

NothingToDo ==
  /\ pc = "bootSvc" /\ ~IsRequest(msg)
  /\ Handled /\ NoWrite
  /\ UNCHANGED <<msg, bootLog, bootData, rescueRequested, once>>

(* boot_svc_next_boot_bl0_slot_handler: `primary` is written to flash,     *)
(* `next` only to this boot's copy.                                        *)
NewPrimary == [bootData EXCEPT !.primary = msg.primary]
ChangesPrimary == msg.primary \in Slots /\ msg.primary # bootData.primary
Overridden(d) == IF msg.next \in Slots THEN [d EXCEPT !.primary = msg.next] ELSE d

NextBl0Slot ==
  LET d == IF ChangesPrimary THEN NewPrimary ELSE bootData
      ok == (msg.primary \in Slots \cup {"Unspecified"} \/ msg.primary = bootData.primary)
            /\ msg.next \in Slots \cup {"Unspecified"}
  IN  /\ pc = "bootSvc" /\ msg.type = "NextBl0Slot"
      /\ IF ChangesPrimary THEN WriteOk(d) ELSE NoWrite
      /\ bootLog' = [bootLog EXCEPT !.primary = d.primary]
      /\ bootData' = Overridden(d)
      /\ once' = IF msg.next \in Slots THEN msg.next ELSE once
      /\ msg' = [type |-> "NextBl0SlotRes", ok |-> ok, primary |-> d.primary]
      /\ Handled
      /\ UNCHANGED rescueRequested

(* A failed write leaves the request in place, for the next boot.          *)
NextBl0SlotFails ==
  /\ pc = "bootSvc" /\ msg.type = "NextBl0Slot"
  /\ ChangesPrimary
  /\ WriteError(NewPrimary)
  /\ bootData' = NewPrimary
  /\ Handled
  /\ UNCHANGED <<msg, bootLog, rescueRequested, once>>

(* boot_svc_min_sec_ver_handler: never above the version of an image that  *)
(* verifies now.                                                           *)
RaisableOne(n) ==
  n > bootData.minBl0 /\ \E s \in Slots : Verified(s, bootData.minBl0) /\ n <= bl0[s].sec
Raisable(n) ==
  LET valid == {s \in Slots : Verified(s, bootData.minBl0)}
  IN  /\ n > bootData.minBl0
      /\ valid # {}
      /\ \A s \in valid : n <= bl0[s].sec
NewMinimum == [bootData EXCEPT !.minBl0 = msg.min]

MinBl0SecVerSilent ==
  /\ pc = "bootSvc" /\ msg.type = "MinBl0SecVer"
  /\ IF Raisable(msg.min)
       THEN /\ WriteOk(NewMinimum) /\ bootData' = NewMinimum
            /\ msg' = [type |-> "MinBl0SecVerRes", ok |-> TRUE, min |-> msg.min]
       ELSE NoWrite /\ UNCHANGED <<msg, bootData>>
  /\ Handled
  /\ UNCHANGED <<bootLog, rescueRequested, once>>

MinBl0SecVer ==
  LET ok == Raisable(msg.min)
      d == IF ok THEN NewMinimum ELSE bootData
  IN  /\ pc = "bootSvc" /\ msg.type = "MinBl0SecVer"
      /\ IF ok THEN WriteOk(d) ELSE NoWrite
      /\ bootData' = d
      /\ msg' = [type |-> "MinBl0SecVerRes", ok |-> ok, min |-> d.minBl0]
      /\ Handled
      /\ UNCHANGED <<bootLog, rescueRequested, once>>

MinBl0SecVerFails ==
  /\ pc = "bootSvc" /\ msg.type = "MinBl0SecVer"
  /\ Raisable(msg.min)
  /\ WriteError(NewMinimum)
  /\ bootData' = NewMinimum
  /\ Handled
  /\ UNCHANGED <<msg, bootLog, rescueRequested, once>>

EnterRescue ==
  /\ pc = "bootSvc" /\ msg.type = "EnterRescue"
  /\ rescueRequested' = IF msg.skip THEN "Skip" ELSE "Enter"
  /\ msg' = [type |-> "EnterRescueRes", ok |-> TRUE]
  /\ Handled /\ NoWrite
  /\ UNCHANGED <<bootLog, bootData, once>>

(* ownership_unlock_handler and ownership_activate_handler (Ownership.tla  *)
(* has their conditions): refused before anything is changed, or answered, *)
(* and the whole copy of the boot data written, and the chip reboots.      *)
Reply == [Unlock |-> "UnlockRes", Activate |-> "ActivateRes"]

OwnershipRefused ==
  /\ pc = "bootSvc" /\ msg.type \in {"Unlock", "Activate"}
  /\ msg' = [type |-> Reply[msg.type], ok |-> FALSE]
  /\ Handled /\ NoWrite
  /\ UNCHANGED <<bootLog, bootData, rescueRequested, once>>

WriteBootdataThenReboot(d) ==
  /\ pc = "bootSvc"
  /\ WriteOk(d) \/ WriteError(d)
  /\ msg' = [type |-> Reply[msg.type], ok |-> TRUE]
  /\ pc' = "shutdown"
  /\ UNCHANGED <<images, bootLog, reasons, ram, trigger, once, kept, updates, requests>>

Unlock ==
  /\ msg.type = "Unlock"
  /\ WriteBootdataThenReboot(bootData)
  /\ UNCHANGED <<block, ran>>

WithPrimary(d) == IF msg.primary \in Slots THEN [d EXCEPT !.primary = msg.primary] ELSE d

Activate ==
  /\ msg.type = "Activate"
  /\ \E m \in block : WriteBootdataThenReboot(WithPrimary(Demanded(m)))
  /\ block' = {} /\ ran' = {}

(* A flash operation fails after the minimum was changed in the copy; when *)
(* it is one on the OwnerSecret page, the slot was changed too.            *)
ActivateFails ==
  /\ pc = "bootSvc" /\ msg.type = "Activate"
  /\ faults < MaxFaults /\ faults' = faults + 1
  /\ \E m \in block : bootData' \in {Demanded(m), WithPrimary(Demanded(m))}
  /\ block' \in {block, {}} /\ ran' = StillVerify(bootData'.minBl0)
  /\ once' = IF bootData'.primary # bootData.primary THEN bootData'.primary ELSE once
  /\ unstored' = (unstored \/ bootData'.minBl0 # bootData.minBl0)
  /\ msg' = [type |-> "ActivateRes", ok |-> FALSE]
  /\ pc' = "sync"
  /\ UNCHANGED <<images, stored, bootLog, reasons, self, rescueRequested, bootAttempted,
                 trigger, wrote, kept, updates, requests>>

BootSvc == NextBl0Slot \/ NextBl0SlotFails \/ MinBl0SecVer \/ MinBl0SecVerFails
           \/ EnterRescue \/ OwnershipRefused \/ Unlock \/ Activate \/ ActivateFails
           \/ NothingToDo
-----------------------------------------------------------------------------
(* rom_ext_start, second half: the boot log, rescue_detect_entry.          *)
WantRescue ==
  ~Waking /\ (rescueRequested = "Enter" \/ (rescueRequested = "none" /\ trigger))

SynchronizePrimary ==
  /\ pc = "sync"
  /\ bootLog' = [bootLog EXCEPT !.primary = bootData.primary, !.minBl0 = bootData.minBl0,
                               !.minRomExt = bootData.minRomExt]
  /\ pc' = IF WantRescue THEN "rescue" ELSE "tryNext"
  /\ UNCHANGED <<flash, stored, msg, reasons, ram, trigger, history, bounds>>

Synchronize ==
  /\ pc = "sync"
  /\ bootLog' = [bootLog EXCEPT !.minBl0 = bootData.minBl0, !.minRomExt = bootData.minRomExt]
  /\ pc' = IF WantRescue THEN "rescue" ELSE "tryNext"
  /\ UNCHANGED <<flash, stored, msg, reasons, ram, trigger, history, bounds>>

(* rom_ext_try_next_stage, in the order of rom_ext_boot_policy_manifests_get. *)
TryNextStage ==
  /\ pc = "tryNext"
  /\ \E s \in Slots :
       /\ Verified(s, bootData.minBl0)
       /\ s = bootData.primary \/ ~Verified(bootData.primary, bootData.minBl0)
       /\ bootLog' = [bootLog EXCEPT !.bl0Slot = s]
       /\ ran' = IF Verified(s, stored.minBl0) THEN ran \cup {s} ELSE ran
  /\ bootAttempted' = TRUE
  /\ pc' = "owner"
  /\ UNCHANGED <<flash, stored, msg, reasons, self, bootData, rescueRequested, trigger,
                 once, wrote, unstored, kept, bounds>>

NoNextStage ==
  /\ pc = "tryNext"
  /\ \A s \in Slots : ~Verified(s, bootData.minBl0)
  /\ bootAttempted' = TRUE
  /\ pc' = IF RescueOnFail THEN "rescue" ELSE "shutdown"
  /\ UNCHANGED <<flash, stored, msg, bootLog, reasons, self, bootData, rescueRequested,
                 trigger, history, bounds>>

(* rescue_inactivity: after a trigger and no boot, the next boot is told   *)
(* to skip rescue.                                                         *)
RescueInactiveForgetful ==
  /\ pc = "rescue"
  /\ Restart({"Software"})
  /\ UNCHANGED <<flash, stored, msg, bootLog, trigger, ran, kept, bounds>>

RescueInactive ==
  /\ pc = "rescue"
  /\ IF bootAttempted
       THEN pc' = "shutdown"
            /\ UNCHANGED <<msg, reasons, ram, once, wrote, unstored>>
       ELSE msg' = [type |-> "EnterRescue", skip |-> TRUE] /\ Restart({"Software"})
  /\ UNCHANGED <<flash, stored, bootLog, trigger, ran, kept, bounds>>

(* A rescue host (Rescue.tla) or the owner rewrites an image, wholly or    *)
(* not, and leaves a request.  The running ROM_EXT's pages are locked      *)
(* (rom_ext_flash_protect_self); the owner spares its own.                 *)
ProtectedNext == bootLog.bl0Slot
Protected == bootLog.romExtSlot

WriteRomExt ==
  /\ pc \in {"rescue", "owner"}
  /\ updates < MaxUpdates
  /\ updates' = updates + 1
  /\ \E s \in Slots \ {Protected}, i \in RomExtImages : romExt' = [romExt EXCEPT ![s] = i]
  /\ UNCHANGED <<bl0, block, stored, msg, bootLog, reasons, pc, ram, trigger, history,
                 faults, requests>>

WriteBl0 ==
  /\ pc \in {"rescue", "owner"}
  /\ updates < MaxUpdates
  /\ updates' = updates + 1
  /\ \E s \in Slots, i \in Bl0Images :
       /\ pc = "owner" => s # bootLog.bl0Slot
       /\ bl0' = [bl0 EXCEPT ![s] = i]
       /\ ran' = ran \ {s}
  /\ UNCHANGED <<romExt, block, stored, msg, bootLog, reasons, pc, ram, trigger, once,
                 wrote, unstored, kept, faults, requests>>

(* An owner block for page 1, from the rescue host or the owner.           *)
WriteOwnerBlock ==
  /\ pc \in {"rescue", "owner"}
  /\ updates < MaxUpdates
  /\ updates' = updates + 1
  /\ \E m \in Bl0Minima : block' = {m}
  /\ UNCHANGED <<images, stored, msg, bootLog, reasons, pc, ram, trigger, history, faults,
                 requests>>

LeaveRequest ==
  /\ pc \in {"rescue", "owner"}
  /\ requests < MaxRequests
  /\ requests' = requests + 1
  /\ msg' \in Requests
  /\ UNCHANGED <<flash, stored, bootLog, reasons, pc, ram, trigger, history, updates, faults>>

(* A reset the owner or the rescue host asks for, or a wake-up, which an   *)
(* ordinary reset may join.                                                *)
Reboot ==
  /\ pc \in {"rescue", "owner"}
  /\ \E why \in {{"Software"}, {"LowPowerExit"}, {"LowPowerExit", "Software"}} :
       /\ Restart(why)
       /\ \/ pc = "owner" /\ UNCHANGED requests
          \/ /\ pc = "rescue" /\ why = {"Software"}
             /\ requests < MaxRequests /\ requests' = requests + 1
  /\ UNCHANGED <<flash, stored, msg, bootLog, trigger, ran, kept, updates, faults>>

Trigger ==
  /\ ~trigger
  /\ trigger' = TRUE
  /\ UNCHANGED <<flash, stored, msg, bootLog, reasons, pc, ram, history, bounds>>

Boot == RomInit \/ RomSkipBootstrap \/ RomTryBoot \/ RomNothingBoots \/ RomExtStart
        \/ RomExtStartFails \/ OwnershipInit \/ BootSvc \/ Synchronize \/ TryNextStage \/ NoNextStage
        \/ ShutdownReset
Environment == PowerCut \/ RomBootstrap \/ WriteRomExt \/ WriteBl0 \/ WriteOwnerBlock
               \/ LeaveRequest \/ Reboot \/ Trigger

Next == Boot \/ RescueInactive \/ Environment

Spec == Init /\ [][Next]_vars

(* The chip runs, and a host that leaves it alone lets rescue time out.    *)
Fairness == WF_vars(Boot) /\ WF_vars(RescueInactive)
FairSpec == Spec /\ Fairness
-----------------------------------------------------------------------------
LogType == [romExtSlot : Slots \cup {"none"}, bl0Slot : Slots \cup {"none"},
            primary : Slots \cup {"none"}, minBl0 : Nat, minRomExt : Nat]

TypeOK ==
  /\ romExt \in [Slots -> RomExtImages] /\ bl0 \in [Slots -> Bl0Images]
  /\ stored \in Records /\ bootData \in Records /\ bootLog \in LogType
  /\ block \subseteq Bl0Minima
  /\ msg.type = "MinBl0SecVer" => msg.min \in Nat
  /\ pc \in {"rom", "bootstrapCheck", "tryBoot", "romExt", "ownership", "bootSvc", "sync",
             "tryNext", "owner", "rescue", "shutdown"}
  /\ self \in Slots \cup {"none"} /\ kept \in Slots \cup {"none"} /\ ran \subseteq Slots
  /\ once \in Slots \cup {"none"} /\ wrote \in {"none", "ok", "error"}
  /\ unstored \in BOOLEAN
  /\ rescueRequested \in {"none", "Enter", "Skip"}
  /\ trigger \in BOOLEAN /\ bootAttempted \in BOOLEAN

(* The ROM_EXT that ran last still boots, through updates of the other     *)
(* half, advances of the minimum, failed writes and power cuts: its pages  *)
(* are locked and the minimum never passes the version of the image that   *)
(* raises it (rom_ext_advance_secver, rom_ext_flash_protect_self).         *)
RomExtSurvives == kept # "none" => RomBootable(kept)

(* Owner code that has booted and is unchanged is still accepted: requests *)
(* of a minimum, retried over resets and updates of either slot, never     *)
(* strand it ("prevents a malicious MinBl0SecVer request from making the   *)
(* chip un-bootable").  Only an owner block that is put in force, or whose *)
(* minimum reached the copy of the boot data, may: it is not compared with *)
(* the images, and any later write of that boot stores it.                 *)
RanStillBoots == \A s \in ran : Verified(s, stored.minBl0)

(* The owner's code runs from the stored primary slot, unless that slot    *)
(* does not verify, this very boot was asked for another, the write of the *)
(* record failed in this boot, or an owner block changed the minimum for   *)
(* this boot alone and the slot does not reach that.                       *)
OwnerSlotExplained ==
  [][pc' = "owner" /\ pc # "owner" =>
       \/ bootLog'.bl0Slot \in {stored.primary, once}
       \/ ~Verified(stored.primary, stored.minBl0)
       \/ wrote = "error"
       \/ unstored /\ ~Verified(stored.primary, bootData.minBl0)]_vars

(* The boot log handed over tells the running ROM_EXT, and the primary     *)
(* slot and the minima a next boot will find, also when the slot in the    *)
(* copy was overridden for this boot; a failed write is the exception, and *)
(* for the minimum of the owner's code an owner block that changed it and  *)
(* did not store it.                                                       *)
LogTells ==
  pc \in {"owner", "rescue"} =>
    /\ bootLog.romExtSlot = self
    /\ wrote # "error" => /\ bootLog.primary = stored.primary
                          /\ bootLog.minRomExt = stored.minRomExt
                          /\ bootLog.minBl0 = stored.minBl0 \/ unstored

(* The stored primary slot changes only to the one a request names as      *)
(* primary, so the override for one boot never reaches the flash; and no   *)
(* write brings back an older copy: the minimum of the ROM_EXT never       *)
(* falls, that of the owner's code changes to what a request or an owner   *)
(* block demands, and falls only with an owner block: the one activated,   *)
(* or one that changed the copy before the request was handled.            *)
RecordOnlyByRequest ==
  [][/\ stored'.primary # stored.primary =>
          msg.type \in {"NextBl0Slot", "Activate"} /\ msg.primary = stored'.primary
     /\ stored'.minRomExt >= stored.minRomExt
     /\ stored'.minBl0 # stored.minBl0 =>
          \/ unstored /\ stored'.minBl0 = bootData.minBl0
          \/ /\ msg.type = "MinBl0SecVer" /\ stored'.minBl0 = msg.min
             /\ stored'.minBl0 > stored.minBl0 \/ unstored
          \/ msg.type = "Activate" /\ stored'.minBl0 \in block]_vars

(* When something can boot, the owner's code runs again and again, also    *)
(* with a rescue trigger that is stuck: the rescue that times out asks the *)
(* next boot to skip it (rom_ext.c: "This will permit booting owner code   *)
(* if the rescue trigger is stuck").                                       *)
OwnerRuns ==
  <>[](/\ \E s \in Slots : RomBootable(s)
       /\ \E s \in Slots : Verified(s, stored.minBl0)) => []<>(pc = "owner")

(* A request does not stay through boots that look at it.                  *)
RequestsDrain == []<>(pc = "bootSvc") => []<>~IsRequest(msg)
-----------------------------------------------------------------------------
(* THE INDUCTIVE INVARIANT.                                                *)

(* The ROM_EXT that runs is the one last kept, and the boot log names it.  *)
SelfKept ==
  pc \in {"romExt", "ownership", "bootSvc", "sync", "tryNext", "owner", "rescue"} =>
    self \in Slots /\ self = kept /\ bootLog.romExtSlot = self

(* The ROM_EXT starts from what is stored.  An owner block may change the  *)
(* minimum in the copy; behind boot services the copy may also have the    *)
(* override in it, or what a failed write did not store.                   *)
CopyFresh ==
  /\ pc \in {"rom", "bootstrapCheck", "tryBoot", "romExt", "ownership"} => ~unstored
  /\ pc = "ownership" => bootData = stored
  /\ pc = "bootSvc" =>
       /\ bootData.primary = stored.primary /\ bootData.minRomExt = stored.minRomExt
       /\ bootData.minBl0 = stored.minBl0 \/ unstored
       /\ \A s \in ran : Verified(s, bootData.minBl0)
  /\ pc \in {"sync", "tryNext"} /\ wrote # "error" =>
       /\ bootData.primary \in {stored.primary, once}
       /\ bootData.minRomExt = stored.minRomExt
       /\ bootData.minBl0 = stored.minBl0 \/ unstored

(* Each part of the boot log is right from the step on that writes it.     *)
LogFresh ==
  /\ pc \in {"ownership", "bootSvc"} => bootLog.primary = stored.primary
  /\ pc \in {"sync", "tryNext", "owner", "rescue"} /\ wrote # "error" =>
       bootLog.primary = stored.primary
  /\ pc \in {"tryNext", "owner", "rescue"} /\ wrote # "error" =>
       /\ bootLog.minRomExt = stored.minRomExt
       /\ bootLog.minBl0 = stored.minBl0 \/ unstored

IInv == TypeOK /\ SelfKept /\ CopyFresh /\ LogFresh /\ RomExtSurvives /\ RanStillBoots
=============================================================================
