--------------------------- MODULE BootFlowProofs ---------------------------
(***************************************************************************)
(* Proofs about BootFlow, for any images, requests, owner block minima and *)
(* number of updates, faults and requests.                                 *)
(***************************************************************************)
EXTENDS BootFlow, TLAPS

(* What the images and the requests are.                                   *)
LEMMA ImageTypes ==
  ASSUME TypeOK, NEW s \in Slots
  PROVE  /\ romExt[s].sec \in Nat /\ romExt[s].good \in BOOLEAN /\ romExt[s].secver \in BOOLEAN
         /\ bl0[s].sec \in Nat /\ bl0[s].good \in BOOLEAN
BY ConstantsAssumption DEF TypeOK

LEMMA InitInv == Init => IInv
<1> SUFFICES ASSUME Init PROVE IInv
  OBVIOUS
<1>1. TypeOK
  BY DEF Init, TypeOK, NoMsg, BlankLog, NoData, Records, LogType, Slots
<1>2. SelfKept /\ CopyFresh /\ LogFresh /\ RomExtSurvives /\ RanStillBoots
  BY DEF Init, SelfKept, CopyFresh, LogFresh, RomExtSurvives, RanStillBoots
<1> QED
  BY <1>1, <1>2 DEF IInv

-----------------------------------------------------------------------------
(* The resets, from wherever they come.                                    *)
LEMMA RestartKeeps ==
  ASSUME IInv, NEW why, Restart(why), UNCHANGED <<stored, bootLog, trigger>>,
         msg'.type = "MinBl0SecVer" => msg'.min \in Nat,
         block' \in {block, {}},
         \/ UNCHANGED <<images, ran, kept>>
         \/ /\ romExt' \in [Slots -> RomExtImages] /\ bl0' \in [Slots -> Bl0Images]
            /\ ran' = {} /\ kept' = "none"
  PROVE  IInv'
<1> USE DEF Restart
<1>1. TypeOK'
  BY DEF IInv, TypeOK, Records, NoData, Slots, images
<1>2. SelfKept' /\ CopyFresh' /\ LogFresh'
  BY DEF SelfKept, CopyFresh, LogFresh
<1>3. RomExtSurvives' /\ RanStillBoots'
  BY DEF IInv, RomExtSurvives, RanStillBoots, RomBootable, Verified, images
<1> QED
  BY <1>1, <1>2, <1>3 DEF IInv

(* The ROM, up to the ROM_EXT it starts.                                   *)
LEMMA RomKeeps ==
  ASSUME IInv,
         RomInit \/ RomSkipBootstrap \/ RomBootstrap \/ RomTryBoot \/ RomNothingBoots
  PROVE  IInv'
<1> USE DEF images, flash, ram, history, bounds
<1>1. CASE RomInit \/ RomSkipBootstrap \/ RomNothingBoots
  <2> USE <1>1 DEF RomInit, RomSkipBootstrap, RomNothingBoots
  <2>1. TypeOK'
    BY DEF IInv, TypeOK, NoMsg, BlankLog, LogType
  <2>2. SelfKept' /\ CopyFresh' /\ LogFresh'
    BY DEF IInv, SelfKept, CopyFresh, LogFresh
  <2>3. RomExtSurvives' /\ RanStillBoots'
    BY DEF IInv, RomExtSurvives, RanStillBoots, RomBootable, Verified
  <2> QED
    BY <2>1, <2>2, <2>3 DEF IInv
<1>2. CASE RomBootstrap
  BY <1>2, RestartKeeps DEF RomBootstrap, IInv, TypeOK
<1>3. CASE RomTryBoot
  <2>1. PICK s \in Slots : /\ RomBootable(s)
                           /\ self' = s /\ kept' = s
                           /\ bootLog' = [bootLog EXCEPT !.romExtSlot = s]
    BY <1>3 DEF RomTryBoot
  <2> USE <1>3, <2>1 DEF RomTryBoot
  <2>2. TypeOK'
    BY DEF IInv, TypeOK, LogType
  <2>3. SelfKept'
    BY DEF IInv, TypeOK, LogType, SelfKept
  <2>4. CopyFresh' /\ LogFresh'
    BY DEF IInv, CopyFresh, LogFresh
  <2>5. RomExtSurvives' /\ RanStillBoots'
    BY DEF IInv, RomExtSurvives, RanStillBoots, RomBootable, Verified
  <2> QED
    BY <2>2, <2>3, <2>4, <2>5 DEF IInv
<1> QED
  BY <1>1, <1>2, <1>3

(* A write that names its record, whether it succeeds or not.              *)
LEMMA WriteFacts ==
  ASSUME NEW d, WriteOk(d) \/ WriteError(d)
  PROVE  /\ stored' \in {stored, d} /\ wrote' \in {"ok", "error"}
         /\ unstored' \in {FALSE, unstored}
BY DEF WriteOk, WriteError

(* The ROM_EXT starts, with the minimum it may advance to its own version. *)
LEMMA RomExtStartKeeps ==
  ASSUME IInv, RomExtStart \/ RomExtStartFails
  PROVE  IInv'
<1> USE DEF images, flash, ram, bounds
<1>1. self \in Slots /\ self = kept /\ bootLog.romExtSlot = self /\ romExt[self].sec \in Nat
  BY ImageTypes DEF IInv, SelfKept, RomExtStart, RomExtStartFails
<1>2. Advanced \in Records /\ Advanced.minBl0 = stored.minBl0
      /\ Advanced.minRomExt = romExt[self].sec
  BY <1>1 DEF Advanced, IInv, TypeOK, Records
<1>3. stored' \in {stored, Advanced} /\ bootData' \in {bootData, stored'}
      /\ wrote' \in {"none", "ok", "error"} /\ unstored' \in {FALSE, unstored}
  BY WriteFacts DEF RomExtStart, RomExtStartFails, WriteOk, WriteError, NoWrite, IInv, TypeOK
<1>4. TypeOK'
  BY <1>2, <1>3 DEF RomExtStart, RomExtStartFails, IInv, TypeOK, LogType, Records
<1>5. SelfKept'
  BY <1>1 DEF RomExtStart, RomExtStartFails, SelfKept, IInv, TypeOK, LogType
<1>6. CopyFresh'
  <2>1. ~unstored'
    BY <1>3 DEF RomExtStart, RomExtStartFails, IInv, CopyFresh
  <2> QED
    BY <1>4, <2>1 DEF RomExtStart, RomExtStartFails, CopyFresh, WriteOk, NoWrite, TypeOK, Records
<1>7. LogFresh'
  BY <1>2 DEF RomExtStart, RomExtStartFails, LogFresh, WriteOk, NoWrite, Advanced, IInv, TypeOK,
              LogType, Records
<1>8. RomExtSurvives'
  BY <1>1, <1>2, <1>3 DEF RomExtStart, RomExtStartFails, RomExtSurvives, RomBootable, IInv
<1>9. RanStillBoots'
  BY <1>2, <1>3 DEF RomExtStart, RomExtStartFails, RanStillBoots, Verified, IInv
<1> QED
  BY <1>4, <1>5, <1>6, <1>7, <1>8, <1>9 DEF IInv

(* ownership_init: what ran still verifies under the minimum it leaves in  *)
(* the copy, or no longer counts as having run.                            *)
LEMMA DemandedFacts ==
  ASSUME IInv, NEW m \in block
  PROVE  /\ m \in Nat /\ Demanded(m) \in Records
         /\ Demanded(m).primary = bootData.primary
         /\ Demanded(m).minRomExt = bootData.minRomExt
         /\ Demanded(m).minBl0 \in {m, bootData.minBl0}
         /\ Demanded(m) # bootData => Demanded(m).minBl0 = m
BY ConstantsAssumption DEF Demanded, IInv, TypeOK, Records

LEMMA OwnershipInitKeeps ==
  ASSUME IInv, OwnershipInit
  PROVE  IInv'
<1> USE DEF images, ram, bounds
<1>1. pc = "ownership" /\ pc' \in {"sync", "bootSvc"}
      /\ UNCHANGED <<romExt, bl0, stored, msg, bootLog, self, rescueRequested, bootAttempted,
                     trigger, once, wrote, kept>>
  BY DEF OwnershipInit, LeaveOldBlock, TakeNewVersion, TakeNewVersionFails, Initialised
<1>2. bootData = stored /\ unstored = FALSE /\ stored \in Records
      /\ bootLog.primary = stored.primary
      /\ \A s \in ran : Verified(s, stored.minBl0)
  BY <1>1 DEF IInv, TypeOK, CopyFresh, LogFresh, RanStillBoots
<1>3. /\ bootData' \in Records /\ bootData'.primary = stored.primary
      /\ bootData'.minRomExt = stored.minRomExt
      /\ bootData'.minBl0 = stored.minBl0 \/ unstored'
      /\ unstored' \in BOOLEAN /\ block' \subseteq block
      /\ ran' \subseteq ran /\ \A s \in ran' : Verified(s, bootData'.minBl0)
  <2>1. CASE LeaveOldBlock
    BY <1>2, <2>1 DEF LeaveOldBlock
  <2>2. CASE TakeNewVersion
    BY <1>2, <2>2, DemandedFacts DEF TakeNewVersion
  <2>3. CASE TakeNewVersionFails
    BY <1>2, <2>3, DemandedFacts DEF TakeNewVersionFails, StillVerify
  <2> QED
    BY <2>1, <2>2, <2>3 DEF OwnershipInit
<1>4. TypeOK'
  BY <1>1, <1>3 DEF IInv, TypeOK
<1>5. SelfKept' /\ RomExtSurvives'
  BY <1>1 DEF IInv, SelfKept, RomExtSurvives, RomBootable
<1>6. CopyFresh' /\ LogFresh'
  <2>1. (\A s \in ran : Verified(s, bootData.minBl0))'
    BY <1>1, <1>3 DEF Verified
  <2> QED
    BY <1>1, <1>2, <1>3, <2>1 DEF CopyFresh, LogFresh
<1>7. RanStillBoots'
  BY <1>1, <1>2, <1>3 DEF RanStillBoots, Verified
<1> QED
  BY <1>4, <1>5, <1>6, <1>7 DEF IInv

-----------------------------------------------------------------------------
(* A boot service that does not reboot keeps the invariant when the copy   *)
(* and the record agree afterwards as CopyFresh wants, and the record      *)
(* still boots what ran.                                                   *)
LEMMA ServiceKeeps ==
  ASSUME IInv, pc = "bootSvc", pc' = "sync",
         UNCHANGED <<romExt, bl0, self, bootAttempted, trigger, kept>>,
         block' \subseteq block, ran' \subseteq ran,
         stored' \in Records, bootData' \in Records,
         stored'.minRomExt = stored.minRomExt,
         \A s \in ran' : Verified(s, stored'.minBl0),
         wrote' \in {"none", "ok", "error"}, once' \in Slots \cup {"none"},
         unstored' \in BOOLEAN,
         rescueRequested' \in {"none", "Enter", "Skip"},
         wrote' # "error" => /\ bootData'.primary \in {stored'.primary, once'}
                             /\ bootData'.minBl0 = stored'.minBl0 \/ unstored'
                             /\ bootData'.minRomExt = stored'.minRomExt
                             /\ bootLog'.primary = stored'.primary,
         bootLog' = bootLog \/ \E s \in Slots : bootLog' = [bootLog EXCEPT !.primary = s],
         msg'.type = "MinBl0SecVer" => msg'.min \in Nat
  PROVE  IInv'
<1>1. bootLog' \in LogType /\ bootLog'.romExtSlot = bootLog.romExtSlot
  BY DEF IInv, TypeOK, LogType
<1>2. TypeOK'
  BY <1>1 DEF IInv, TypeOK
<1>3. SelfKept'
  BY <1>1 DEF IInv, SelfKept
<1>4. CopyFresh' /\ LogFresh'
  BY DEF CopyFresh, LogFresh
<1>5. RomExtSurvives'
  BY DEF IInv, RomExtSurvives, RomBootable
<1>6. RanStillBoots'
  BY DEF RanStillBoots, Verified
<1> QED
  BY <1>2, <1>3, <1>4, <1>5, <1>6 DEF IInv

(* What a handler that goes on leaves as it was.                           *)
LEMMA HandledFacts ==
  ASSUME Handled
  PROVE  /\ pc' = "sync" /\ UNCHANGED <<romExt, bl0, self, bootAttempted, trigger, kept>>
         /\ block' \subseteq block /\ ran' = ran
BY DEF Handled, flash, images

(* Boot services see a copy that is what is stored, but for a minimum that *)
(* an owner block changed; what ran verifies under both.                   *)
LEMMA ServiceStart ==
  ASSUME IInv, pc = "bootSvc"
  PROVE  /\ stored \in Records /\ bootData \in Records /\ bootLog \in LogType
         /\ bootData.primary = stored.primary /\ bootData.minRomExt = stored.minRomExt
         /\ bootData.minBl0 = stored.minBl0 \/ unstored
         /\ unstored \in BOOLEAN
         /\ bootLog.primary = stored.primary
         /\ \A s \in ran : Verified(s, stored.minBl0) /\ Verified(s, bootData.minBl0)
         /\ wrote \in {"none", "ok", "error"} /\ once \in Slots \cup {"none"}
BY DEF IInv, TypeOK, CopyFresh, LogFresh, RanStillBoots

(* The slot requests touch no minimum, but store the copy's.               *)
LEMMA NextBl0SlotKeeps ==
  ASSUME IInv, NextBl0Slot \/ NextBl0SlotFails
  PROVE  IInv'
<1>0. pc = "bootSvc" /\ Handled /\ msg.type = "NextBl0Slot"
  BY DEF NextBl0Slot, NextBl0SlotFails
<1> USE <1>0, ServiceStart, HandledFacts
<1>1. ChangesPrimary => /\ NewPrimary \in Records /\ NewPrimary.minBl0 = bootData.minBl0
                        /\ NewPrimary.minRomExt = stored.minRomExt
                        /\ NewPrimary.primary \in Slots
  BY DEF NewPrimary, ChangesPrimary, Records
<1>2. CASE NextBl0SlotFails
  <2>1. stored' \in {stored, NewPrimary} /\ wrote' = "error" /\ bootData' = NewPrimary
        /\ UNCHANGED <<msg, bootLog, rescueRequested, once, unstored>> /\ ChangesPrimary
    BY <1>2 DEF NextBl0SlotFails, WriteError
  <2> QED
    BY <1>1, <2>1, ServiceKeeps DEF IInv, TypeOK, Records
<1>3. CASE NextBl0Slot
  <2> DEFINE d == IF ChangesPrimary THEN NewPrimary ELSE bootData
  <2>1. d \in Records /\ d.minBl0 = bootData.minBl0 /\ d.minRomExt = stored.minRomExt
        /\ d.primary \in Slots
    BY <1>1 DEF Records
  <2>2. /\ stored' \in {stored, d} /\ stored'.primary = d.primary
        /\ stored'.minBl0 = d.minBl0 \/ unstored'
        /\ unstored' \in BOOLEAN /\ wrote' \in {"none", "ok", "error"}
        /\ rescueRequested' = rescueRequested
    BY <1>3 DEF NextBl0Slot, WriteOk, NoWrite
  <2>3. bootLog' = [bootLog EXCEPT !.primary = d.primary] /\ bootLog'.primary = d.primary
    BY <1>3 DEF NextBl0Slot, LogType
  <2>4. once' = (IF msg.next \in Slots THEN msg.next ELSE once)
        /\ msg'.type = "NextBl0SlotRes" /\ bootData' = Overridden(d)
    BY <1>3 DEF NextBl0Slot
  <2> HIDE DEF d
  <2>5. bootData' \in Records /\ bootData'.minBl0 = d.minBl0 /\ bootData'.minRomExt = d.minRomExt
        /\ bootData'.primary \in {d.primary, once'}
    BY <2>1, <2>4 DEF Overridden, Records
  <2>6. \A s \in ran' : Verified(s, stored'.minBl0)
    BY <2>1, <2>2
  <2>7. once' \in Slots \cup {"none"} /\ stored' \in Records
        /\ stored'.minRomExt = stored.minRomExt
    BY <2>1, <2>2, <2>4
  <2>8. \E s \in Slots : bootLog' = [bootLog EXCEPT !.primary = s]
    BY <2>1, <2>3
  <2>9. rescueRequested' \in {"none", "Enter", "Skip"}
    BY <2>2 DEF IInv, TypeOK
  <2> QED
    BY <2>1, <2>2, <2>3, <2>4, <2>5, <2>6, <2>7, <2>8, <2>9, ServiceKeeps
<1> QED
  BY <1>2, <1>3

(* The minimum is raised no further than every slot that verifies.         *)
LEMMA MinBl0SecVerKeeps ==
  ASSUME IInv, MinBl0SecVer \/ MinBl0SecVerFails
  PROVE  IInv'
<1>0. pc = "bootSvc" /\ Handled /\ msg.type = "MinBl0SecVer" /\ msg.min \in Nat
      /\ UNCHANGED <<bootLog, rescueRequested, once>>
  BY DEF MinBl0SecVer, MinBl0SecVerFails, IInv, TypeOK
<1> USE <1>0, ServiceStart, HandledFacts
<1>1. NewMinimum \in Records /\ NewMinimum.minBl0 = msg.min
      /\ NewMinimum.minRomExt = stored.minRomExt /\ NewMinimum.primary = stored.primary
  BY DEF NewMinimum, Records
<1>2. ASSUME Raisable(msg.min)
      PROVE  \A s \in ran : Verified(s, msg.min)
  <2>1. ASSUME NEW s \in ran PROVE Verified(s, msg.min)
    <3>1. s \in Slots /\ Verified(s, bootData.minBl0)
      BY DEF IInv, TypeOK
    <3>2. msg.min <= bl0[s].sec /\ bl0[s].sec \in Nat
      BY <1>2, <3>1, ImageTypes DEF Raisable, IInv
    <3> QED
      BY <3>1, <3>2 DEF Verified
  <2> QED
    BY <2>1
<1>a. rescueRequested' \in {"none", "Enter", "Skip"}
  BY DEF IInv, TypeOK
<1>3. CASE MinBl0SecVerFails
  <2>1. stored' \in {stored, NewMinimum} /\ wrote' = "error" /\ bootData' = NewMinimum
        /\ msg' = msg /\ Raisable(msg.min) /\ unstored' = unstored
    BY <1>3 DEF MinBl0SecVerFails, WriteError
  <2>2. \A s \in ran : Verified(s, stored'.minBl0)
    BY <1>1, <1>2, <2>1
  <2>3. stored'.minRomExt = stored.minRomExt /\ stored' \in Records
    BY <1>1, <2>1
  <2> QED
    BY <1>1, <1>a, <2>1, <2>2, <2>3, ServiceKeeps
<1>4. CASE MinBl0SecVer
  <2> DEFINE d == IF Raisable(msg.min) THEN NewMinimum ELSE bootData
  <2>1. /\ bootData' = d /\ wrote' \in {"none", "ok", "error"}
        /\ msg'.type = "MinBl0SecVerRes" /\ unstored' \in BOOLEAN
        /\ \/ stored' = d
           \/ d = bootData /\ stored' = stored /\ unstored' = unstored
    BY <1>4 DEF MinBl0SecVer, WriteOk, NoWrite
  <2>2. d \in Records /\ d.minRomExt = stored.minRomExt /\ d.primary = stored.primary
        /\ \A s \in ran : Verified(s, d.minBl0)
    BY <1>1, <1>2
  <2> HIDE DEF d
  <2>3. /\ stored' \in Records /\ stored'.minRomExt = stored.minRomExt
        /\ stored'.primary = stored.primary
        /\ bootData'.minBl0 = stored'.minBl0 \/ unstored'
        /\ \A s \in ran : Verified(s, stored'.minBl0)
    BY <2>1, <2>2
  <2> QED
    BY <1>a, <2>1, <2>2, <2>3, ServiceKeeps
<1> QED
  BY <1>3, <1>4

(* The requests on the ownership write the whole copy: a block's minimum   *)
(* with it, whatever the block was.                                        *)
LEMMA WriteThenRebootKeeps ==
  ASSUME IInv, NEW d \in Records, WriteBootdataThenReboot(d),
         d.minRomExt = stored.minRomExt, msg.type \in {"Unlock", "Activate"},
         block' \subseteq block,
         ran' = {} \/ (ran' = ran /\ \A s \in ran : Verified(s, d.minBl0))
  PROVE  IInv'
<1> USE DEF WriteBootdataThenReboot, images, ram
<1>1. stored' \in {stored, d} /\ wrote' \in {"ok", "error"} /\ unstored' \in {FALSE, unstored}
  BY WriteFacts
<1>2. msg'.type # "MinBl0SecVer"
  BY DEF Reply
<1>3. TypeOK'
  BY <1>1, <1>2 DEF IInv, TypeOK
<1>4. SelfKept' /\ CopyFresh' /\ LogFresh'
  BY DEF SelfKept, CopyFresh, LogFresh
<1>5. RomExtSurvives'
  BY <1>1 DEF IInv, RomExtSurvives, RomBootable
<1>6. RanStillBoots'
  BY <1>1 DEF IInv, RanStillBoots, Verified
<1> QED
  BY <1>3, <1>4, <1>5, <1>6 DEF IInv

LEMMA OwnershipRequestsKeep ==
  ASSUME IInv, Unlock \/ Activate \/ ActivateFails
  PROVE  IInv'
<1>0. pc = "bootSvc"
  BY DEF Unlock, Activate, ActivateFails, WriteBootdataThenReboot
<1> USE <1>0, ServiceStart
<1>1. CASE Unlock
  <2>1. msg.type = "Unlock" /\ WriteBootdataThenReboot(bootData)
        /\ block' = block /\ ran' = ran
    BY <1>1 DEF Unlock
  <2> QED
    BY <2>1, WriteThenRebootKeeps
<1>2. CASE Activate
  <2>1. PICK m \in block : WriteBootdataThenReboot(WithPrimary(Demanded(m)))
    BY <1>2 DEF Activate
  <2> DEFINE d == WithPrimary(Demanded(m))
  <2>2. d \in Records /\ d.minRomExt = stored.minRomExt
    BY DemandedFacts DEF WithPrimary, Records
  <2>3. block' = {} /\ ran' = {} /\ msg.type = "Activate"
    BY <1>2 DEF Activate
  <2> HIDE DEF d
  <2> QED
    BY <2>1, <2>2, <2>3, WriteThenRebootKeeps DEF d
<1>3. CASE ActivateFails
  <2>1. PICK m \in block : bootData' \in {Demanded(m), WithPrimary(Demanded(m))}
    BY <1>3 DEF ActivateFails
  <2>2. /\ bootData' \in Records /\ bootData'.minRomExt = stored.minRomExt
        /\ bootData'.minBl0 = Demanded(m).minBl0
    BY <2>1, DemandedFacts DEF WithPrimary, Records
  <2>3. /\ pc' = "sync" /\ block' \in {block, {}} /\ ran' = StillVerify(bootData'.minBl0)
        /\ once' = IF bootData'.primary # bootData.primary THEN bootData'.primary ELSE once
        /\ unstored' = (unstored \/ bootData'.minBl0 # bootData.minBl0)
        /\ msg'.type = "ActivateRes"
        /\ UNCHANGED <<romExt, bl0, stored, bootLog, self, rescueRequested, bootAttempted,
                       trigger, wrote, kept>>
    BY <1>3 DEF ActivateFails, images
  <2>4. ran' \subseteq ran /\ block' \subseteq block
    BY <2>3 DEF StillVerify
  <2>5. once' \in Slots \cup {"none"} /\ bootData'.primary \in {stored.primary, once'}
    BY <2>2, <2>3 DEF Records
  <2>6. unstored' \in BOOLEAN /\ (bootData'.minBl0 = stored.minBl0 \/ unstored')
    BY <2>3
  <2>7. rescueRequested' \in {"none", "Enter", "Skip"}
    BY <2>3 DEF IInv, TypeOK
  <2> QED
    BY <2>2, <2>3, <2>4, <2>5, <2>6, <2>7, ServiceKeeps
<1> QED
  BY <1>1, <1>2, <1>3

LEMMA BootSvcKeeps ==
  ASSUME IInv, BootSvc
  PROVE  IInv'
<1>1. CASE NothingToDo \/ EnterRescue \/ OwnershipRefused
  <2>1. pc = "bootSvc" /\ Handled
        /\ UNCHANGED <<stored, bootData, bootLog, wrote, once, unstored>>
        /\ rescueRequested' \in {"none", "Enter", "Skip"}
        /\ (msg'.type = "MinBl0SecVer" => msg'.min \in Nat)
    BY <1>1 DEF NothingToDo, EnterRescue, OwnershipRefused, Reply, NoWrite, IInv, TypeOK
  <2> QED
    BY <2>1, ServiceStart, HandledFacts, ServiceKeeps
<1> QED
  BY <1>1, NextBl0SlotKeeps, MinBl0SecVerKeeps, OwnershipRequestsKeep DEF BootSvc

-----------------------------------------------------------------------------
(* The second half of rom_ext_start, and the choice of the owner's image.  *)
LEMMA StageKeeps ==
  ASSUME IInv, Synchronize \/ TryNextStage \/ NoNextStage
  PROVE  IInv'
<1> USE DEF images, flash, ram, history, bounds
<1>1. CASE Synchronize
  <2> USE <1>1 DEF Synchronize
  <2>1. TypeOK'
    BY DEF IInv, TypeOK, LogType, Records
  <2>2. SelfKept' /\ CopyFresh'
    BY DEF IInv, SelfKept, CopyFresh, TypeOK, LogType
  <2>3. LogFresh'
    BY DEF IInv, LogFresh, CopyFresh, TypeOK, LogType
  <2>4. RomExtSurvives' /\ RanStillBoots'
    BY DEF IInv, RomExtSurvives, RanStillBoots, RomBootable, Verified
  <2> QED
    BY <2>1, <2>2, <2>3, <2>4 DEF IInv
<1>2. CASE TryNextStage
  <2>1. PICK s \in Slots : /\ Verified(s, bootData.minBl0)
                           /\ bootLog' = [bootLog EXCEPT !.bl0Slot = s]
                           /\ ran' = IF Verified(s, stored.minBl0) THEN ran \cup {s} ELSE ran
    BY <1>2 DEF TryNextStage
  <2> USE <1>2, <2>1 DEF TryNextStage
  <2>2. TypeOK'
    BY DEF IInv, TypeOK, LogType
  <2>3. SelfKept' /\ CopyFresh'
    BY DEF IInv, SelfKept, CopyFresh, TypeOK, LogType
  <2>4. LogFresh'
    BY DEF IInv, LogFresh, TypeOK, LogType
  <2>5. RomExtSurvives'
    BY DEF IInv, RomExtSurvives, RomBootable
  <2>6. RanStillBoots'
    BY DEF IInv, RanStillBoots, Verified
  <2> QED
    BY <2>2, <2>3, <2>4, <2>5, <2>6 DEF IInv
<1>3. CASE NoNextStage
  <2> USE <1>3 DEF NoNextStage
  <2>1. TypeOK'
    BY DEF IInv, TypeOK
  <2>2. SelfKept' /\ CopyFresh' /\ LogFresh'
    BY DEF IInv, SelfKept, CopyFresh, LogFresh
  <2>3. RomExtSurvives' /\ RanStillBoots'
    BY DEF IInv, RomExtSurvives, RanStillBoots, RomBootable, Verified
  <2> QED
    BY <2>1, <2>2, <2>3 DEF IInv
<1> QED
  BY <1>1, <1>2, <1>3

(* The owner, the rescue host and the pin.                                 *)
LEMMA EnvironmentKeeps ==
  ASSUME IInv, WriteRomExt \/ WriteBl0 \/ WriteOwnerBlock \/ LeaveRequest \/ Trigger
  PROVE  IInv'
<1> USE DEF images, flash, ram, history, bounds
<1>1. CASE WriteRomExt
  <2>1. PICK s \in Slots \ {Protected}, i \in RomExtImages : romExt' = [romExt EXCEPT ![s] = i]
    BY <1>1 DEF WriteRomExt
  <2> USE <1>1, <2>1 DEF WriteRomExt
  <2>2. TypeOK'
    BY DEF IInv, TypeOK
  <2>3. SelfKept' /\ CopyFresh' /\ LogFresh'
    BY DEF IInv, SelfKept, CopyFresh, LogFresh
  <2>4. kept = self /\ kept # s
    BY DEF IInv, SelfKept, Protected
  <2>5. RomExtSurvives' /\ RanStillBoots'
    BY <2>4 DEF IInv, TypeOK, RomExtSurvives, RanStillBoots, RomBootable, Verified
  <2> QED
    BY <2>2, <2>3, <2>5 DEF IInv
<1>2. CASE WriteBl0
  <2>1. PICK s \in Slots, i \in Bl0Images :
          bl0' = [bl0 EXCEPT ![s] = i] /\ ran' = ran \ {s}
    BY <1>2 DEF WriteBl0
  <2> USE <1>2, <2>1 DEF WriteBl0
  <2>2. TypeOK'
    BY DEF IInv, TypeOK
  <2>3. SelfKept' /\ CopyFresh' /\ LogFresh'
    BY DEF IInv, SelfKept, CopyFresh, LogFresh
  <2>4. RomExtSurvives' /\ RanStillBoots'
    BY DEF IInv, TypeOK, RomExtSurvives, RanStillBoots, RomBootable, Verified
  <2> QED
    BY <2>2, <2>3, <2>4 DEF IInv
<1>3. CASE WriteOwnerBlock \/ LeaveRequest \/ Trigger
  <2> USE <1>3 DEF WriteOwnerBlock, LeaveRequest, Trigger
  <2>1. block' \subseteq Bl0Minima /\ (msg'.type = "MinBl0SecVer" => msg'.min \in Nat)
    BY ConstantsAssumption DEF IInv, TypeOK
  <2>2. TypeOK'
    BY <2>1 DEF IInv, TypeOK
  <2>3. SelfKept' /\ CopyFresh' /\ LogFresh'
    BY DEF IInv, SelfKept, CopyFresh, LogFresh, Verified
  <2>4. RomExtSurvives' /\ RanStillBoots'
    BY DEF IInv, RomExtSurvives, RanStillBoots, RomBootable, Verified
  <2> QED
    BY <2>2, <2>3, <2>4 DEF IInv
<1> QED
  BY <1>1, <1>2, <1>3

(* The steps that end a boot.                                              *)
LEMMA ResetKeeps ==
  ASSUME IInv, PowerCut \/ ShutdownReset \/ Reboot \/ RescueInactive
  PROVE  IInv'
<1>1. CASE PowerCut
  <2>1. block' \in {block, {}} /\ Restart({"PowerOn"})
        /\ UNCHANGED <<images, stored, msg, bootLog, trigger, ran, kept>>
    BY <1>1 DEF PowerCut
  <2> QED
    BY <2>1, RestartKeeps DEF IInv, TypeOK
<1>2. CASE ShutdownReset
  BY <1>2, RestartKeeps DEF ShutdownReset, flash, IInv, TypeOK
<1>3. CASE Reboot
  <2>1. PICK why : Restart(why)
    BY <1>3 DEF Reboot
  <2> QED
    BY <1>3, <2>1, RestartKeeps DEF Reboot, flash, IInv, TypeOK
<1>4. CASE RescueInactive /\ ~bootAttempted
  BY <1>4, RestartKeeps DEF RescueInactive, flash
<1>5. CASE RescueInactive /\ bootAttempted
  <2> USE <1>5 DEF RescueInactive, images, flash, ram, bounds
  <2>1. TypeOK' /\ SelfKept' /\ CopyFresh' /\ LogFresh'
    BY DEF IInv, TypeOK, SelfKept, CopyFresh, LogFresh
  <2>2. RomExtSurvives' /\ RanStillBoots'
    BY DEF IInv, RomExtSurvives, RanStillBoots, RomBootable, Verified
  <2> QED
    BY <2>1, <2>2 DEF IInv
<1> QED
  BY <1>1, <1>2, <1>3, <1>4, <1>5

-----------------------------------------------------------------------------
(* The inductive invariant: what the running ROM_EXT believes of the       *)
(* record, at each point of a boot, whatever was cut short before.         *)
THEOREM InductiveInvariant == Spec => []IInv
<1>1. ASSUME IInv, [Next]_vars PROVE IInv'
  <2>1. CASE Boot
    BY <1>1, <2>1, RomKeeps, RomExtStartKeeps, OwnershipInitKeeps, BootSvcKeeps, StageKeeps,
       ResetKeeps DEF Boot
  <2>2. CASE RescueInactive
    BY <1>1, <2>2, ResetKeeps
  <2>3. CASE Environment
    BY <1>1, <2>3, ResetKeeps, RomKeeps, EnvironmentKeeps DEF Environment
  <2>4. CASE UNCHANGED vars
    <3> USE <2>4 DEF vars, images, flash, ram, history, bounds
    <3>1. TypeOK'
      BY <1>1 DEF IInv, TypeOK
    <3>2. SelfKept' /\ LogFresh'
      BY <1>1 DEF IInv, SelfKept, LogFresh
    <3>3. CopyFresh'
      BY <1>1 DEF IInv, CopyFresh, Verified
    <3>4. RomExtSurvives' /\ RanStillBoots'
      BY <1>1 DEF IInv, RomExtSurvives, RanStillBoots, RomBootable, Verified
    <3> QED
      BY <3>1, <3>2, <3>3, <3>4 DEF IInv
  <2> QED
    BY <1>1, <2>1, <2>2, <2>3, <2>4 DEF Next
<1> QED
  BY InitInv, <1>1, PTL DEF Spec

(* Every variable keeps its type: the records, the boot log and the slots. *)
THEOREM TypeCorrect == Spec => []TypeOK
<1>1. IInv => TypeOK
  BY DEF IInv
<1> QED
  BY <1>1, InductiveInvariant, PTL

(* The ROM_EXT that ran last still boots, through any updates of the other *)
(* half, advances of the minimum, failed writes and power cuts.            *)
THEOREM RomExtAlwaysBoots == Spec => []RomExtSurvives
<1>1. IInv => RomExtSurvives
  BY DEF IInv
<1> QED
  BY <1>1, InductiveInvariant, PTL

(* Owner code that has booted and is unchanged is still accepted, also     *)
(* when a write stores the minimum that an owner block left in the copy.   *)
THEOREM OwnerNeverStranded == Spec => []RanStillBoots
<1>1. IInv => RanStillBoots
  BY DEF IInv
<1> QED
  BY <1>1, InductiveInvariant, PTL

(* The boot log handed over tells what the next boot will find.            *)
THEOREM LogIsRight == Spec => []LogTells
<1>1. IInv => LogTells
  BY DEF IInv, SelfKept, LogFresh, LogTells
<1> QED
  BY <1>1, InductiveInvariant, PTL

(* The owner's code runs from the primary slot, or there is a reason.      *)
THEOREM SlotIsExplained == Spec => OwnerSlotExplained
<1> DEFINE Explained == \/ bootLog'.bl0Slot \in {stored.primary, once}
                        \/ ~Verified(stored.primary, stored.minBl0)
                        \/ wrote = "error"
                        \/ unstored /\ ~Verified(stored.primary, bootData.minBl0)
<1>1. ASSUME IInv, Next, pc' = "owner", pc # "owner"
      PROVE  Explained
  <2>1. TryNextStage
    BY <1>1 DEF Next, Boot, Environment, BootSvc, Handled, Restart, PowerCut, RomBootstrap,
                WriteRomExt, WriteBl0, WriteOwnerBlock, LeaveRequest, Reboot, Trigger,
                RescueInactive, RomInit, RomSkipBootstrap, RomTryBoot, RomNothingBoots,
                RomExtStart, RomExtStartFails, OwnershipInit, LeaveOldBlock, TakeNewVersion,
                TakeNewVersionFails, Initialised, NextBl0Slot, NextBl0SlotFails, MinBl0SecVer,
                MinBl0SecVerFails, EnterRescue, OwnershipRefused, Unlock, Activate,
                ActivateFails, WriteBootdataThenReboot, NothingToDo, Synchronize, NoNextStage,
                ShutdownReset
  <2>2. PICK s \in Slots : /\ Verified(s, bootData.minBl0)
                           /\ s = bootData.primary \/ ~Verified(bootData.primary, bootData.minBl0)
                           /\ bootLog' = [bootLog EXCEPT !.bl0Slot = s]
    BY <2>1 DEF TryNextStage
  <2>3. bootLog'.bl0Slot = s
    BY <1>1, <2>2 DEF IInv, TypeOK, LogType
  <2>4. wrote # "error" => /\ bootData.primary \in {stored.primary, once}
                           /\ bootData.minBl0 = stored.minBl0 \/ unstored
    BY <1>1, <2>1 DEF IInv, CopyFresh, TryNextStage
  <2>5. stored.primary \in Slots /\ bootData.primary \in Slots
    BY <1>1 DEF IInv, TypeOK, Records
  <2> QED
    BY <2>2, <2>3, <2>4, <2>5 DEF Slots
<1>2. IInv /\ [Next]_vars => [pc' = "owner" /\ pc # "owner" => Explained]_vars
  BY <1>1
<1> QED
  BY <1>2, InductiveInvariant, PTL DEF Spec, OwnerSlotExplained

(* The record changes as a request or an owner block says, and no write    *)
(* brings back an older copy of it.                                        *)
THEOREM RecordIsRequested == Spec => RecordOnlyByRequest
<1> DEFINE Allowed ==
      /\ stored'.primary # stored.primary =>
           msg.type \in {"NextBl0Slot", "Activate"} /\ msg.primary = stored'.primary
      /\ stored'.minRomExt >= stored.minRomExt
      /\ stored'.minBl0 # stored.minBl0 =>
           \/ unstored /\ stored'.minBl0 = bootData.minBl0
           \/ /\ msg.type = "MinBl0SecVer" /\ stored'.minBl0 = msg.min
              /\ stored'.minBl0 > stored.minBl0 \/ unstored
           \/ msg.type = "Activate" /\ stored'.minBl0 \in block
<1>1. ASSUME IInv, Next PROVE Allowed
  <2>0. stored \in Records
    BY <1>1 DEF IInv, TypeOK
  <2>1. CASE stored' = stored
    BY <2>0, <2>1 DEF Records
  <2>2. CASE RomExtStart \/ RomExtStartFails
    <3>1. stored' \in {stored, Advanced} /\ (stored' # stored => Advances)
      BY <2>2 DEF RomExtStart, RomExtStartFails, WriteOk, WriteError, NoWrite
    <3>2. romExt[self].sec \in Nat
      BY <1>1, <2>2, ImageTypes DEF IInv, SelfKept, RomExtStart, RomExtStartFails
    <3> QED
      BY <2>0, <2>1, <3>1, <3>2 DEF Advances, Advanced, Records
  <2>3. CASE NextBl0Slot \/ NextBl0SlotFails
    <3>1. pc = "bootSvc" /\ msg.type = "NextBl0Slot"
          /\ (stored' # stored => ChangesPrimary /\ stored' = NewPrimary)
      BY <2>3 DEF NextBl0Slot, NextBl0SlotFails, WriteOk, WriteError, NoWrite
    <3>2. ChangesPrimary => /\ NewPrimary.primary = msg.primary
                            /\ NewPrimary.minBl0 = bootData.minBl0
                            /\ NewPrimary.minRomExt = stored.minRomExt
      BY <1>1, <3>1, ServiceStart DEF NewPrimary, Records
    <3>3. bootData.minBl0 = stored.minBl0 \/ unstored
      BY <1>1, <3>1, ServiceStart
    <3> QED
      BY <2>0, <2>1, <3>1, <3>2, <3>3 DEF Records
  <2>4. CASE MinBl0SecVer \/ MinBl0SecVerFails
    <3>1. /\ pc = "bootSvc" /\ msg.type = "MinBl0SecVer" /\ msg.min \in Nat
          /\ stored' # stored => Raisable(msg.min) /\ stored' = NewMinimum
      BY <1>1, <2>4 DEF MinBl0SecVer, MinBl0SecVerFails, WriteOk, WriteError, NoWrite, IInv, TypeOK
    <3>2. /\ NewMinimum.minBl0 = msg.min /\ NewMinimum.primary = stored.primary
          /\ NewMinimum.minRomExt = stored.minRomExt
          /\ bootData.minBl0 = stored.minBl0 \/ unstored
      BY <1>1, <3>1, ServiceStart DEF NewMinimum, Records
    <3> QED
      BY <2>0, <2>1, <3>1, <3>2 DEF Raisable, Records
  <2>5. CASE Unlock
    <3>1. pc = "bootSvc" /\ stored' \in {stored, bootData}
      BY <2>5 DEF Unlock, WriteBootdataThenReboot, WriteOk, WriteError
    <3> QED
      BY <1>1, <2>0, <3>1, ServiceStart DEF Records
  <2>6. CASE Activate
    <3>1. PICK m \in block : WriteBootdataThenReboot(WithPrimary(Demanded(m)))
      BY <2>6 DEF Activate
    <3>2. pc = "bootSvc" /\ msg.type = "Activate"
      BY <2>6, <3>1 DEF Activate, WriteBootdataThenReboot
    <3> DEFINE d == WithPrimary(Demanded(m))
    <3>3. /\ d.minRomExt = stored.minRomExt
          /\ d.primary = IF msg.primary \in Slots THEN msg.primary ELSE stored.primary
          /\ d.minBl0 \in {m, bootData.minBl0}
      BY <1>1, <3>2, DemandedFacts, ServiceStart DEF WithPrimary, Records
    <3>4. stored' \in {stored, d}
      BY <3>1, WriteFacts DEF WriteBootdataThenReboot
    <3>5. bootData.minBl0 = stored.minBl0 \/ unstored
      BY <1>1, <3>2, ServiceStart
    <3> HIDE DEF d
    <3> QED
      BY <2>0, <3>2, <3>3, <3>4, <3>5 DEF Records
  <2> QED
    BY <1>1, <2>1, <2>2, <2>3, <2>4, <2>5, <2>6
    DEF Next, Boot, Environment, BootSvc, NoWrite, PowerCut, RomBootstrap, WriteRomExt, WriteBl0,
        WriteOwnerBlock, LeaveRequest, Reboot, Trigger, RescueInactive, RomInit,
        RomSkipBootstrap, RomTryBoot, RomNothingBoots, OwnershipInit, LeaveOldBlock,
        TakeNewVersion, TakeNewVersionFails, Initialised, EnterRescue, OwnershipRefused,
        ActivateFails, NothingToDo, Synchronize, TryNextStage, NoNextStage, ShutdownReset
<1>2. IInv /\ [Next]_vars => [Allowed]_vars
  BY <1>1
<1> QED
  BY <1>2, InductiveInvariant, PTL DEF Spec, RecordOnlyByRequest
=============================================================================
