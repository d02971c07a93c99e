----------------------------- MODULE Ownership -----------------------------
(***************************************************************************)
(* Ownership of the chip: ownership_init(), the unlock and activate boot   *)
(* services and the sealing of owner pages (lib/ownership/*.c), as         *)
(* rom_ext_start() and rom_ext_main() call them on every boot.             *)
(*                                                                         *)
(* The boot data is the atomic record that BootRecord specifies and        *)
(* BootData implements.  The two owner pages and the OwnerSecret page are  *)
(* written by an erase and a program operation each, and power can fail or *)
(* the chip can be reset at every one of them.                             *)
(***************************************************************************)
EXTENDS Integers

CONSTANTS
  Owners,     (* Owner keys, with their unlock and activate keys.          *)
  Recovery,   (* The silicon creator's kNoOwnerRecoveryKey.                *)
  NoOwner,    (* An all-zero next_owner field.                             *)
  Blocks,     (* Owner blocks that carry a good signature of their owner.  *)
  Bad,        (* Page contents with neither seal nor signature.            *)
  Keep,       (* min_security_version_bl0 of UINT32_MAX: leave it alone.   *)
  Faults,     (* The faults that may happen: "power", "reset", "flash".    *)
  MaxNonce,   (* Bound: no request is posted once this nonce is stored.    *)
  MaxStale    (* Bound: how much older a request's nonce can be.           *)

UnlockedStates == {"UnlockedSelf", "UnlockedAny", "UnlockedEndorsed"}
States == {"LockedOwner", "Recovery"} \cup UnlockedStates

Modes == {"Open", "Self", "NewVersion", "SelfVersion"}

(* parse: "good"; "dup", a configuration item occurs twice, which only the *)
(* real parse of owner_block_parse() detects; "bad", both parses fail.     *)
BlockType == [owner : Owners, mode : Modes, version : Nat,
              minsec : Nat \cup {Keep}, parse : {"good", "dup", "bad"}]

ASSUME ConstantsAssumption ==
  /\ Blocks \subseteq BlockType
  /\ NoOwner \notin Owners
  /\ Recovery \notin Owners
  /\ Bad \notin Blocks
  /\ Bad \notin [block : Blocks, seal : BOOLEAN]
  /\ \A s \in SUBSET Owners : s # Bad
  /\ Keep \notin Nat
  /\ Faults \subseteq {"power", "reset", "flash"}
  /\ MaxNonce \in Nat /\ MaxStale \in Nat

VARIABLES
  slot,       (* The info pages OwnerSlot0 and OwnerSlot1.                 *)
  secret,     (* OwnerSecret: the owners in its hash chain, or Bad.        *)
  stored,     (* The boot data record in flash.                            *)
  msg,        (* boot_svc_msg in retention RAM: it survives a reset.       *)
  bootdata,   (* RAM: rom_ext_main()'s copy of the boot data.              *)
  page,       (* RAM: owner_page[2].                                       *)
  pageValid,  (* RAM: owner_page_valid[2].                                 *)
  chain,      (* RAM: the hash chain ownership_secret_new() will store.    *)
  pc,         (* Where the boot is.                                        *)
  erased      (* In a page update: the erase is done, the write is not.    *)

ram == <<bootdata, page, pageValid, chain>>
flash == <<slot, secret, stored>>
vars == <<slot, secret, stored, msg, bootdata, page, pageValid, chain, pc, erased>>

BootDataType == [state : States, nonce : Nat, nextOwner : Owners \cup {NoOwner},
                 transfers : Nat, minsec : Nat]

(* A message: the kind of a request includes its unlock mode.              *)
RequestKinds == {"Any", "Endorsed", "Update", "Abort", "Activate"}

Messages == [kind : RequestKinds \cup {"none", "ok", "error"}, nonce : Nat,
             signer : Owners \cup {Recovery}, nextOwner : Owners \cup {NoOwner}]

Reply(k) == [kind |-> k, nonce |-> 0, signer |-> Recovery, nextOwner |-> NoOwner]

IsRequest == msg.kind \in RequestKinds

Sealed(b) == [block |-> b, seal |-> TRUE]
Signed(b) == [block |-> b, seal |-> FALSE]
Contents == [block : Blocks, seal : BOOLEAN] \cup {Bad}

IsSealed(c) == c # Bad /\ c.seal

(* owner_page_validity_check(): the status of a page and its RAM copy,     *)
(* which is destroyed when the page is invalid.                            *)
StatusOf(c) == IF c = Bad THEN "Invalid" ELSE IF c.seal THEN "Sealed" ELSE "Signed"
CopyOf(c) == IF c = Bad THEN Bad ELSE c.block

NewNonce(bd) == [bd EXCEPT !.nonce = @ + 1]

SameOwner == page[0] # Bad /\ page[1] # Bad /\ page[0].owner = page[1].owner

NewVersionMode ==
  pageValid[0] = "Sealed" /\ page[0].mode \in {"NewVersion", "SelfVersion"}

(* owner_block_page1_valid_for_transfer(), in the unlocked states.         *)
Page1ValidForTransfer ==
  /\ pageValid[1] = "Signed"
  /\ \/ bootdata.state = "UnlockedAny"
     \/ bootdata.state = "UnlockedSelf" /\ SameOwner
     \/ bootdata.state = "UnlockedEndorsed" /\ bootdata.nextOwner = page[1].owner

(* ownership_key_validate(): the keys of a destroyed page have no          *)
(* algorithm, and then not even the recovery key is tried.                 *)
KeyValid(p, others) == page[p] # Bad /\ msg.signer \in {page[p].owner} \cup others

-----------------------------------------------------------------------------
(* Where boot goes on.                                                     *)
Goto(l) == pc' = l /\ erased' = FALSE

RamLost ==
  /\ bootdata' = [state |-> "Recovery", nonce |-> 0, nextOwner |-> NoOwner,
                  transfers |-> 0, minsec |-> 0]
  /\ page' = [i \in {0, 1} |-> Bad]
  /\ pageValid' = [i \in {0, 1} |-> "Invalid"]
  /\ chain' = {}

(* A provisioned device.                                                   *)
Init ==
  /\ \E b \in Blocks :
       /\ b.parse = "good"
       /\ slot = [i \in {0, 1} |-> Sealed(b)]
       /\ stored = [state |-> "LockedOwner", nonce |-> 0, nextOwner |-> NoOwner, transfers |-> 0,
                    minsec |-> IF b.minsec = Keep THEN 0 ELSE b.minsec]
  /\ secret = {}
  /\ msg = Reply("none")
  /\ bootdata = [state |-> "Recovery", nonce |-> 0, nextOwner |-> NoOwner,
                 transfers |-> 0, minsec |-> 0]
  /\ page = [i \in {0, 1} |-> Bad]
  /\ pageValid = [i \in {0, 1} |-> "Invalid"]
  /\ chain = {}
  /\ pc = "off"
  /\ erased = FALSE

(* rom_ext_start() up to the switch of ownership_init().                   *)
Boot ==
  /\ pc = "off"
  /\ bootdata' = stored
  /\ page' = [i \in {0, 1} |-> CopyOf(slot[i])]
  /\ pageValid' = [i \in {0, 1} |-> StatusOf(slot[i])]
  /\ Goto(CASE stored.state = "LockedOwner" -> "locked"
            [] stored.state \in UnlockedStates -> "unlocked"
            [] OTHER -> "svc")
  /\ UNCHANGED <<flash, msg, chain>>

(* The first part of ownership_activate(), in RAM.                         *)
ResetMinSec(bd) ==
  IF page[1].minsec = Keep THEN bd ELSE [bd EXCEPT !.minsec = page[1].minsec]

(* locked_owner_init(): a newer configuration of the same owner.           *)
NewVersionOfferedAnyVersion ==    \* mutant: the version is not compared
  NewVersionMode /\ pageValid[1] = "Signed" /\ SameOwner /\ page[1].parse # "bad"

NewVersionOffered ==
  /\ NewVersionMode
  /\ pageValid[1] = "Signed"
  /\ page[1].version > page[0].version
  /\ SameOwner
  /\ page[1].parse # "bad"

LockedOwnerInit ==
  /\ pc = "locked"
  /\ IF NewVersionOffered
     THEN bootdata' = ResetMinSec(bootdata) /\ Goto("nv")
     ELSE bootdata' = bootdata /\ Goto("repair")
  /\ UNCHANGED <<flash, msg, page, pageValid, chain>>

GoToRecovery ==
  /\ bootdata' = NewNonce([bootdata EXCEPT !.state = "Recovery"])
  /\ Goto("recover")
  /\ UNCHANGED <<flash, msg, page, pageValid, chain>>

(* The redundancy checks of locked_owner_init().                           *)
BothSealed ==
  /\ pc = "repair"
  /\ pageValid[0] = "Sealed" /\ pageValid[1] = "Sealed"
  /\ Goto("svc")
  /\ UNCHANGED <<flash, msg, ram>>

RepairPage0Only(bad) ==           \* mutant: only page 0 is repaired
  /\ pc = "repair"
  /\ pageValid[bad] # "Sealed" /\ pageValid[1 - bad] = "Sealed"
  /\ page' = [page EXCEPT ![bad] = page[1 - bad]]
  /\ Goto(IF bad = 0 THEN "fix0" ELSE "svc")
  /\ UNCHANGED <<flash, msg, bootdata, pageValid, chain>>

RepairPage(bad) ==
  /\ pc = "repair"
  /\ pageValid[bad] # "Sealed" /\ pageValid[1 - bad] = "Sealed"
  /\ page' = [page EXCEPT ![bad] = page[1 - bad]]
  /\ Goto(IF bad = 0 THEN "fix0" ELSE "fix1")
  /\ UNCHANGED <<flash, msg, bootdata, pageValid, chain>>

NeitherSealed ==
  /\ pc = "repair"
  /\ pageValid[0] # "Sealed" /\ pageValid[1] # "Sealed"
  /\ GoToRecovery

(* unlocked_init().                                                        *)
UnlockedInit ==
  /\ pc = "unlocked"
  /\ IF bootdata.state = "UnlockedSelf" /\ pageValid[0] # "Sealed"
     THEN GoToRecovery
     ELSE Goto("svc") /\ UNCHANGED <<flash, msg, ram>>

-----------------------------------------------------------------------------
(* The erase and the write of an owner page; each update has its page.     *)
PageOf == [nv |-> 1, fix0 |-> 0, fix1 |-> 1, act1 |-> 1, act0 |-> 0]

ErasePage0First ==                \* mutant: every update starts with page 0
  /\ pc \in DOMAIN PageOf
  /\ ~erased
  /\ slot' = [slot EXCEPT ![0] = Bad]
  /\ erased' = TRUE
  /\ UNCHANGED <<secret, stored, msg, ram, pc>>

ErasePage ==
  /\ pc \in DOMAIN PageOf
  /\ ~erased
  /\ slot' = [slot EXCEPT ![PageOf[pc]] = Bad]
  /\ erased' = TRUE
  /\ UNCHANGED <<secret, stored, msg, ram, pc>>

(* What every update writes is in owner_page[1], which fix0 has copied to  *)
(* owner_page[0].                                                          *)
WritePage(op, next) ==
  /\ pc = op
  /\ erased
  /\ slot' = [slot EXCEPT ![PageOf[op]] = Sealed(page[1])]
  /\ Goto(next)

WriteNewVersion ==
  /\ WritePage("nv", "repair")
  /\ pageValid' = [pageValid EXCEPT ![0] = "Invalid", ![1] = "Sealed"]
  /\ UNCHANGED <<secret, stored, msg, bootdata, page, chain>>

WriteRepair0 ==
  /\ WritePage("fix0", "svc")
  /\ pageValid' = [pageValid EXCEPT ![0] = "Sealed"]
  /\ UNCHANGED <<secret, stored, msg, bootdata, page, chain>>

WriteRepair1 ==
  /\ WritePage("fix1", "svc")
  /\ pageValid' = [pageValid EXCEPT ![1] = "Sealed"]
  /\ UNCHANGED <<secret, stored, msg, bootdata, page, chain>>

WriteActivated1 ==
  /\ WritePage("act1", "act0")
  /\ UNCHANGED <<secret, stored, msg, ram>>

-----------------------------------------------------------------------------
(* boot_svc_handler().                                                     *)
NoRequest ==
  /\ pc = "svc"
  /\ ~IsRequest
  /\ Goto("app")
  /\ UNCHANGED <<flash, msg, ram>>

UnlockTo == [Any |-> "UnlockedAny", Endorsed |-> "UnlockedEndorsed",
             Update |-> "UnlockedSelf", Abort |-> "LockedOwner"]

(* unlock(), unlock_update() and unlock_abort().                           *)
MayUnlockAnyMode ==               \* mutant: the update mode is not looked at
  CASE msg.kind \in {"Any", "Endorsed"} ->
         bootdata.state \in {"LockedOwner", "Recovery"} /\ KeyValid(0, {Recovery})
    [] msg.kind = "Update" -> bootdata.state = "LockedOwner" /\ KeyValid(0, {})
    [] msg.kind = "Abort" -> bootdata.state \in UnlockedStates /\ KeyValid(0, {})
    [] OTHER -> FALSE

MayUnlock ==
  CASE msg.kind \in {"Any", "Endorsed"} ->
         /\ \/ bootdata.state = "LockedOwner" /\ page[0] # Bad /\ page[0].mode = "Open"
            \/ bootdata.state = "Recovery"
         /\ KeyValid(0, {Recovery})
    [] msg.kind = "Update" ->
         /\ bootdata.state = "LockedOwner"
         /\ KeyValid(0, {})
         /\ page[0].mode # "NewVersion"
    [] msg.kind = "Abort" -> bootdata.state \in UnlockedStates /\ KeyValid(0, {})
    [] OTHER -> FALSE

Unlock ==
  /\ pc = "svc"
  /\ IsRequest
  /\ MayUnlock
  /\ msg.nonce = bootdata.nonce
  /\ bootdata' = NewNonce([bootdata EXCEPT
       !.state = UnlockTo[msg.kind],
       !.nextOwner = IF msg.kind = "Endorsed" THEN msg.nextOwner ELSE @])
  /\ msg' = Reply("ok")
  /\ Goto("commit")
  /\ UNCHANGED <<flash, page, pageValid, chain>>

(* activate_handler(), up to the first flash operation.                    *)
MayActivateUnchecked ==           \* mutant: any signed page 1 is activated
  /\ msg.kind = "Activate"
  /\ bootdata.state \in UnlockedStates
  /\ pageValid[1] = "Signed"
  /\ KeyValid(1, {})
  /\ page[1].parse # "bad"

MayActivate ==
  /\ msg.kind = "Activate"
  /\ bootdata.state \in UnlockedStates
  /\ Page1ValidForTransfer
  /\ KeyValid(1, {})
  /\ page[1].parse # "bad"

StartActivate ==
  /\ pc = "svc"
  /\ IsRequest
  /\ MayActivate
  /\ msg.nonce = bootdata.nonce
  /\ bootdata' = ResetMinSec(bootdata)
  /\ chain' = IF page[0] = Bad THEN {} ELSE {page[0].owner}
  /\ Goto("act1")
  /\ UNCHANGED <<flash, msg, page, pageValid>>

RefuseSilent ==                   \* mutant: a refused request gets no answer
  /\ pc = "svc"
  /\ IsRequest
  /\ ~(msg.nonce = bootdata.nonce /\ (MayUnlock \/ MayActivate))
  /\ Goto("app")
  /\ UNCHANGED <<flash, msg, ram>>

Refuse ==
  /\ pc = "svc"
  /\ IsRequest
  /\ ~(msg.nonce = bootdata.nonce /\ (MayUnlock \/ MayActivate))
  /\ msg' = Reply("error")
  /\ Goto("app")
  /\ UNCHANGED <<flash, ram>>

(* The end of activate_handler(): the answer is in retention RAM before    *)
(* the boot data is written.                                               *)
ActivatedSameNonce(transfers) ==  \* mutant: nonce_new() is not called
  /\ bootdata' = [bootdata EXCEPT !.state = "LockedOwner", !.nextOwner = NoOwner,
                                  !.transfers = @ + transfers]
  /\ msg' = Reply("ok")

Activated(transfers) ==
  /\ bootdata' = NewNonce([bootdata EXCEPT !.state = "LockedOwner", !.nextOwner = NoOwner,
                                           !.transfers = @ + transfers])
  /\ msg' = Reply("ok")

WriteActivated0 ==
  /\ IF bootdata.state = "UnlockedSelf"
     THEN WritePage("act0", "commit") /\ Activated(0)
     ELSE WritePage("act0", "secret") /\ UNCHANGED <<bootdata, msg>>
  /\ UNCHANGED <<secret, stored, page, pageValid, chain>>

(* ownership_secret_new(): reads, erases and writes the OwnerSecret page.  *)
(* A damaged page reads as something else or, on FPGAs, as erased.         *)
EraseSecretNew ==                 \* mutant: the old hash chain is not read
  /\ pc = "secret"
  /\ ~erased
  /\ chain' = chain
  /\ secret' = Bad
  /\ erased' = TRUE
  /\ UNCHANGED <<slot, stored, msg, bootdata, page, pageValid, pc>>

EraseSecret ==
  /\ pc = "secret"
  /\ ~erased
  /\ chain' = IF secret = Bad THEN chain ELSE chain \cup secret
  /\ secret' = Bad
  /\ erased' = TRUE
  /\ UNCHANGED <<slot, stored, msg, bootdata, page, pageValid, pc>>

(* On silicon a page that cannot be read ends the activation.              *)
SecretUnreadable ==
  /\ pc = "secret"
  /\ ~erased
  /\ secret = Bad
  /\ msg' = Reply("error")
  /\ Goto("app")
  /\ UNCHANGED <<flash, ram>>

WriteSecret ==
  /\ pc = "secret"
  /\ erased
  /\ secret' = chain
  /\ Activated(1)
  /\ Goto("commit")
  /\ UNCHANGED <<slot, stored, page, pageValid, chain>>

(* boot_data_write(): in rom_ext_main(), which then resets the chip, and   *)
(* in ownership_init(), which goes on.                                     *)
Commit ==
  /\ pc = "commit"
  /\ stored' = bootdata
  /\ RamLost
  /\ Goto("off")
  /\ UNCHANGED <<slot, secret, msg>>

CommitRecovery ==
  /\ pc = "recover"
  /\ stored' = bootdata
  /\ Goto("svc")
  /\ UNCHANGED <<slot, secret, msg, ram>>

-----------------------------------------------------------------------------
(* The owner's software, and the rescue protocol, after the boot.          *)

(* ownership_pages_lockdown() has left page 1 writable, or                 *)
(* flash_owner_block() accepts a block: page 1 is erased and then written, *)
(* with blocks that have not been sealed.                                  *)
WriteOwnerPage1 ==
  /\ pc = "app"
  /\ \/ bootdata.state \in UnlockedStates
     \/ bootdata.state = "LockedOwner" /\ NewVersionMode
  /\ \E c \in {Bad} \cup {Signed(b) : b \in Blocks} : slot' = [slot EXCEPT ![1] = c]
  /\ UNCHANGED <<secret, stored, msg, ram, pc, erased>>

PostRequest ==
  /\ pc = "app"
  /\ stored.nonce < MaxNonce
  /\ \E r \in [kind : RequestKinds, nonce : 0 .. stored.nonce,
               signer : Owners \cup {Recovery}, nextOwner : Owners \cup {NoOwner}] :
       /\ r.nonce + MaxStale >= stored.nonce
       /\ r.kind = "Endorsed" <=> r.nextOwner # NoOwner
       /\ msg' = r
  /\ UNCHANGED <<flash, ram, pc, erased>>

Reboot ==
  /\ pc = "app"
  /\ RamLost
  /\ Goto("off")
  /\ UNCHANGED <<flash, msg>>

-----------------------------------------------------------------------------
(* An interrupted erase leaves anything between the old page and an erased *)
(* one, an interrupted write anything between an erased page and the new   *)
(* one.  The seal is the last field of a page: a page can be there up to   *)
(* its signature without being sealed.                                     *)
TornPage ==
  \E c \in IF erased THEN {Bad, Signed(page[1])}
           ELSE {slot[PageOf[pc]], Bad}
                \cup (IF slot[PageOf[pc]] = Bad THEN {} ELSE {Signed(slot[PageOf[pc]].block)}) :
    slot' = [slot EXCEPT ![PageOf[pc]] = c]

Torn ==
  /\ IF pc \in DOMAIN PageOf THEN TornPage ELSE slot' = slot
  /\ IF pc = "secret" THEN secret' \in {secret, Bad} ELSE secret' = secret

PowerLoss ==
  /\ "power" \in Faults
  /\ pc = "app" => msg # Reply("none")
  /\ Torn
  /\ msg' = Reply("none")
  /\ RamLost
  /\ Goto("off")
  /\ UNCHANGED stored

(* A reset in the middle of the boot (watchdog, alert): retention RAM,     *)
(* with the request in it, stays.                                          *)
Reset ==
  /\ "reset" \in Faults
  /\ pc \notin {"off", "app"}
  /\ Torn
  /\ RamLost
  /\ Goto("off")
  /\ UNCHANGED <<stored, msg>>

(* A flash operation returns an error (when boot_data_write() does so      *)
(* after it has stored the record, it does as Commit).                     *)
(* locked_owner_init() goes on with its other page when the new version    *)
(* fails, the boot goes on without the owner's configuration when          *)
(* ownership_init() fails, and an activation that fails is answered.       *)
FlashError ==
  /\ "flash" \in Faults
  /\ Torn
  /\ \/ pc = "nv" /\ Goto("repair") /\ UNCHANGED <<stored, msg, ram>>
     \/ pc \in {"fix0", "fix1"} /\ Goto("svc") /\ UNCHANGED <<stored, msg, ram>>
     \/ /\ pc \in {"act1", "act0", "secret"}
        /\ pc = "secret" => erased \/ secret # Bad
        /\ msg' = Reply("error")
        /\ Goto("app")
        /\ UNCHANGED <<stored, ram>>
     \/ pc = "recover" /\ Goto("svc") /\ UNCHANGED <<stored, msg, ram>>
     \/ pc = "commit" /\ RamLost /\ Goto("off") /\ UNCHANGED <<stored, msg>>

Firmware ==
  \/ Boot \/ LockedOwnerInit \/ BothSealed \/ RepairPage(0) \/ RepairPage(1)
  \/ NeitherSealed \/ UnlockedInit
  \/ ErasePage \/ WriteNewVersion \/ WriteRepair0 \/ WriteRepair1
  \/ NoRequest \/ Unlock \/ StartActivate \/ Refuse
  \/ WriteActivated1 \/ WriteActivated0 \/ EraseSecret \/ SecretUnreadable \/ WriteSecret
  \/ Commit \/ CommitRecovery

Fault == PowerLoss \/ Reset \/ FlashError

Next == Firmware \/ WriteOwnerPage1 \/ PostRequest \/ Reboot \/ Fault

Spec == Init /\ [][Next]_vars

(* The processor keeps executing the boot code, and from some moment on no *)
(* fault interrupts it.                                                    *)
LiveSpec == Spec /\ WF_vars(Firmware) /\ <>[][~Fault]_vars

-----------------------------------------------------------------------------
(* Every variable has its type.                                            *)
TypeOK ==
  /\ slot \in [{0, 1} -> Contents]
  /\ secret \in (SUBSET Owners) \cup {Bad}
  /\ stored \in BootDataType
  /\ msg \in Messages
  /\ bootdata \in BootDataType
  /\ page \in [{0, 1} -> Blocks \cup {Bad}]
  /\ pageValid \in [{0, 1} -> {"Sealed", "Signed", "Invalid"}]
  /\ chain \in SUBSET Owners
  /\ pc \in {"off", "locked", "repair", "unlocked", "recover", "svc", "secret", "commit", "app"}
              \cup DOMAIN PageOf
  /\ erased \in BOOLEAN

-----------------------------------------------------------------------------
AnySealed == \E i \in {0, 1} : IsSealed(slot[i])

(* The inductive invariant.  The boot acts on the state that is stored,    *)
(* unless it has just failed to store the Recovery state.                  *)
StateKnown ==
  /\ pc \in {"locked", "nv", "repair", "fix0", "fix1"} => bootdata.state = "LockedOwner"
  /\ pc \in {"unlocked", "act1", "act0", "secret"} => bootdata.state \in UnlockedStates
  /\ pc \notin {"off", "commit", "recover"} /\ bootdata.state # "Recovery" =>
       bootdata.state = stored.state /\ bootdata.nextOwner = stored.nextOwner
  /\ pc = "commit" => bootdata.state # "Recovery"
  /\ pc = "recover" => bootdata.state = "Recovery" /\ ~(stored.state = "LockedOwner" /\ AnySealed)

(* What RAM says of the pages is what flash holds.                         *)
InSync(i) == pageValid[i] = StatusOf(slot[i]) /\ page[i] = CopyOf(slot[i])

PagesKnown ==
  /\ pc \in {"locked", "unlocked"} => InSync(0) /\ InSync(1)
  /\ pc = "svc" /\ bootdata.state \in UnlockedStates => InSync(0) /\ InSync(1)
  /\ pc = "svc" /\ bootdata.state = "UnlockedSelf" => pageValid[0] = "Sealed"
  /\ pc \in {"svc", "app"} /\ bootdata.state = "LockedOwner" /\ pageValid[0] = "Sealed" =>
       IsSealed(slot[0])
  /\ pc = "repair" => /\ \A i \in {0, 1} : pageValid[i] = "Sealed" =>
                           page[i] \in Blocks /\ slot[i] = Sealed(page[i])
                      /\ (\A i \in {0, 1} : pageValid[i] # "Sealed") => ~AnySealed

(* Every page update has a page to fall back on or the right to go ahead.  *)
UpdatesSafe ==
  /\ pc \in DOMAIN PageOf => page[1] \in Blocks
  /\ pc = "nv" => /\ slot[0] = Sealed(page[0])
                  /\ NewVersionMode /\ SameOwner /\ page[1].version > page[0].version
                  /\ pageValid[1] # "Sealed"
  /\ pc = "fix0" => slot[1] = Sealed(page[1]) /\ pageValid[0] # "Sealed"
  /\ pc = "fix1" => slot[0] = Sealed(page[1])
  /\ pc = "act1" => \/ bootdata.state = "UnlockedAny"
                    \/ bootdata.state = "UnlockedEndorsed" /\ bootdata.nextOwner = page[1].owner
                    \/ /\ bootdata.state = "UnlockedSelf"
                       /\ IsSealed(slot[0]) /\ slot[0].block.owner = page[1].owner
  /\ pc = "act0" => slot[1] = Sealed(page[1])

NonceFresh ==
  /\ pc # "off" => bootdata.nonce >= stored.nonce
  /\ pc \in {"commit", "recover"} => bootdata.nonce > stored.nonce

IInv == TypeOK /\ StateKnown /\ PagesKnown /\ UpdatesSafe /\ NonceFresh

(* The block a locked chip boots with, page[0], is the one in force, or    *)
(* the newer version of it that could not be copied to page 0.             *)
Renews(new, old) == new.owner = old.owner /\ old.version < new.version

Followed(b) ==
  \/ slot[0] = Sealed(b)
  \/ slot[1] = Sealed(b) /\ (IsSealed(slot[0]) => Renews(b, slot[0].block))

BootsInForce ==
  /\ pc = "repair" /\ pageValid[0] # "Sealed" /\ IsSealed(slot[0]) =>
       pageValid[1] = "Sealed" /\ Renews(page[1], slot[0].block)
  /\ pc \in {"fix0", "fix1"} => page[0] = page[1]
  /\ pc = "fix0" /\ IsSealed(slot[0]) => Renews(page[1], slot[0].block)
  /\ pc = "svc" /\ bootdata.state = "LockedOwner" => page[0] \in Blocks /\ Followed(page[0])

(* No request is newer than the stored boot data, so none is accepted by   *)
(* a boot that has failed to store the Recovery state.                     *)
RequestsStale ==
  /\ IsRequest => msg.nonce <= stored.nonce
  /\ pc # "off" /\ bootdata.state = "Recovery" /\ stored.state # "Recovery" =>
       bootdata.nonce > stored.nonce

(* Boot data that unlocks a locked chip has the block in force behind it.  *)
UnlockAllowed ==
  /\ pc = "commit" /\ stored.state = "LockedOwner" =>
       /\ page[0] \in Blocks /\ Followed(page[0]) /\ page[0].mode # "NewVersion"
       /\ bootdata.state \in {"UnlockedAny", "UnlockedEndorsed"} => page[0].mode = "Open"
  /\ pc = "commit" /\ stored.state = "UnlockedSelf" =>
       bootdata.state \notin {"UnlockedAny", "UnlockedEndorsed"}

ForceInv == BootsInForce /\ RequestsStale /\ UnlockAllowed

OwnershipInv == IInv /\ ForceInv

-----------------------------------------------------------------------------
(* May the block b be sealed to this chip?  When the stored state is       *)
(* unlocked, by that state; when it is locked, as a newer version.         *)
MayBeSealed(b) ==
  \/ \E j \in {0, 1} : slot[j] = Sealed(b)
  \/ stored.state = "UnlockedAny"
  \/ stored.state = "UnlockedEndorsed" /\ stored.nextOwner = b.owner
  \/ /\ IsSealed(slot[0])
     /\ slot[0].block.owner = b.owner
     /\ \/ stored.state = "UnlockedSelf"
        \/ /\ stored.state = "LockedOwner"
           /\ slot[0].block.mode \in {"NewVersion", "SelfVersion"}
           /\ slot[0].block.version < b.version

(* A page is sealed only with the consent of the owner in flash: the state *)
(* that authorises it is the stored one, at the moment of the write,       *)
(* however many resets, retries and torn pages lie between the unlock      *)
(* request and the activation.                                             *)
SealAuthorised ==
  [][\A i \in {0, 1} :
       IsSealed(slot'[i]) /\ slot'[i] # slot[i] => MayBeSealed(slot'[i].block)]_vars

(* A locked chip that has a sealed page always keeps one: no update or     *)
(* repair of a page starts before the other page is sealed, so a reset or  *)
(* an error in the middle of it cannot leave the chip without an owner.    *)
RedundancyKept ==
  [][stored.state = "LockedOwner" /\ AnySealed => (stored.state = "LockedOwner" /\ AnySealed)' \/
        stored'.state \in UnlockedStates]_vars

(* In the modes other than Open the unlock key cannot give the chip away   *)
(* (ownership.md): as long as every sealed page forbids it, the chip does  *)
(* not unlock for another owner and no other owner's block is sealed.      *)
UnlockKeyLimited ==
  [][/\ stored.state \in {"LockedOwner", "UnlockedSelf"}
     /\ AnySealed
     /\ \A i \in {0, 1} : IsSealed(slot[i]) => slot[i].block.mode # "Open"
     => /\ stored'.state \notin {"UnlockedAny", "UnlockedEndorsed"}
        /\ \A i, j \in {0, 1} :
             IsSealed(slot[i]) /\ IsSealed(slot'[j]) => \E k \in {0, 1} :
               IsSealed(slot[k]) /\ slot[k].block.owner = slot'[j].block.owner]_vars

(* The page a locked chip boots with.                                      *)
InForce == IF IsSealed(slot[0]) THEN slot[0] ELSE slot[1]

(* Nothing rolls a chip in NewVersion mode back: once such a block is in   *)
(* force the chip stays locked, with the same owner and a version that     *)
(* never decreases, whatever is interrupted; unless the owner has replaced *)
(* it by a newer block in another mode, which counts from its first seal.  *)
NewVersionInForce ==
  /\ stored.state = "LockedOwner" /\ IsSealed(InForce) /\ InForce.block.mode = "NewVersion"
  /\ \A i \in {0, 1} :
       IsSealed(slot[i]) /\ slot[i].block.mode # "NewVersion"
         => slot[i].block.version <= InForce.block.version

NeverRollsBack ==
  [][NewVersionInForce
     => /\ stored'.state = "LockedOwner"
        /\ IsSealed(InForce')
        /\ InForce'.block.owner = InForce.block.owner
        /\ InForce'.block.version >= InForce.block.version]_vars

(* A signed request takes effect at most once: the stored boot data never  *)
(* changes without a nonce that no accepted request can carry.             *)
NoReplay == [][stored' # stored => stored'.nonce > stored.nonce]_vars

(* Once the chip has been reset with a request in retention RAM, it is     *)
(* answered and the chip finishes booting: no request makes the chip       *)
(* reboot for ever (the TODO "Examine the boot_svc code paths for boot     *)
(* loops" of boot_svc_handler()).                                          *)
RequestAnswered == (IsRequest /\ pc # "app") ~> (pc = "app" /\ ~IsRequest)

(* A locked chip restores its redundant copy: as long as it is booted      *)
(* again, both pages end up sealed, after any resets and errors and        *)
(* whatever the owner's software wrote to page 1.                          *)
RedundancyRestored ==
  []<>(pc = "off") =>
    []<>(stored.state # "LockedOwner" \/ \A i \in {0, 1} : IsSealed(slot[i]))

-----------------------------------------------------------------------------
(* What comments and documents say of the code.                            *)

(* ownership_key.h:15: the recovery key "allows recovery of a device       *)
(* should it get into the Recovery state".                                 *)
RecoveryKeyRecovers ==
  pc = "svc" /\ bootdata.state = "Recovery" /\ msg.kind = "Any"
    /\ msg.signer = Recovery /\ msg.nonce = bootdata.nonce => MayUnlock

(* ownership_activate.c:27: "If requested, reset the mim security version  *)
(* of the application firmware."                                           *)
MinSecApplied ==
  pc = "app" /\ stored.state = "LockedOwner" /\ IsSealed(slot[0]) /\ slot[0].block.minsec # Keep
    => stored.minsec = slot[0].block.minsec

(* ownership_activate.c:20: "Check if page1 parses correctly."             *)
BlockInForceParses ==
  pc = "app" /\ stored.state = "LockedOwner" /\ IsSealed(slot[0])
    => slot[0].block.parse = "good"
=============================================================================
