-------------------------- MODULE OwnershipProofs --------------------------
(***************************************************************************)
(* Proofs about Ownership and OwnershipHistory for all owners, owner       *)
(* blocks, faults and bounds.                                              *)
(* The inductive invariant IInv is proved part by part, one step of each   *)
(* proof per action; the theorems about steps follow from it.              *)
(***************************************************************************)
EXTENDS OwnershipHistory, TLAPS

(* The page of each update.                                                *)
LEMMA PageOfValues ==
  /\ DOMAIN PageOf = {"nv", "fix0", "fix1", "act1", "act0"}
  /\ PageOf["nv"] = 1 /\ PageOf["fix0"] = 0 /\ PageOf["fix1"] = 1
  /\ PageOf["act1"] = 1 /\ PageOf["act0"] = 0
BY DEF PageOf

(* Garbage is page contents, unsealed and invalid.                         *)
LEMMA ContentsFacts ==
  /\ Bad \in Contents /\ ~IsSealed(Bad)
  /\ CopyOf(Bad) = Bad /\ StatusOf(Bad) = "Invalid"
BY DEF Contents, IsSealed, CopyOf, StatusOf

(* What sealing and signing a block gives.                                 *)
LEMMA SealedFacts ==
  ASSUME NEW b \in Blocks
  PROVE  /\ Sealed(b) \in Contents /\ IsSealed(Sealed(b)) /\ Sealed(b).block = b
         /\ Signed(b) \in Contents /\ ~IsSealed(Signed(b)) /\ Signed(b) # Bad
<1>1. Sealed(b) \in [block : Blocks, seal : BOOLEAN] /\ Signed(b) \in [block : Blocks, seal : BOOLEAN]
  BY DEF Sealed, Signed
<1>2. Sealed(b) # Bad /\ Signed(b) # Bad
  BY <1>1, ConstantsAssumption
<1> QED
  BY <1>1, <1>2 DEF Contents, IsSealed, Sealed, Signed

(* owner_page_validity_check() says what the page holds.                   *)
LEMMA CopyFacts ==
  ASSUME NEW c \in Contents
  PROVE  /\ CopyOf(c) \in Blocks \cup {Bad}
         /\ StatusOf(c) \in {"Sealed", "Signed", "Invalid"}
         /\ StatusOf(c) = "Sealed" <=> IsSealed(c)
         /\ StatusOf(c) # "Invalid" => CopyOf(c) \in Blocks
         /\ c # Bad => c.block \in Blocks
         /\ IsSealed(c) => /\ CopyOf(c) \in Blocks
                            /\ c.block = CopyOf(c)
                            /\ c = Sealed(CopyOf(c))
<1>1. CASE c = Bad
  BY <1>1, ContentsFacts, ConstantsAssumption
<1>2. CASE c # Bad
  <2>1. c \in [block : Blocks, seal : BOOLEAN]
    BY <1>2 DEF Contents
  <2>2. c.block \in Blocks /\ c.seal \in BOOLEAN /\ c = [block |-> c.block, seal |-> c.seal]
    BY <2>1
  <2> QED
    BY <1>2, <2>2 DEF CopyOf, StatusOf, IsSealed, Sealed
<1> QED
  BY <1>1, <1>2

(* nonce_new() keeps the state and gives a nonce never seen before.        *)
LEMMA NewNonceFacts ==
  ASSUME NEW bd \in BootDataType
  PROVE  /\ NewNonce(bd) \in BootDataType
         /\ NewNonce(bd).state = bd.state
         /\ NewNonce(bd).nextOwner = bd.nextOwner
         /\ NewNonce(bd).nonce > bd.nonce
BY DEF NewNonce, BootDataType

(* The answers are messages.                                               *)
LEMMA ReplyFacts ==
  /\ Reply("none") \in Messages /\ Reply("ok") \in Messages /\ Reply("error") \in Messages
BY DEF Reply, Messages

(* RAM is well typed after a reset.                                        *)
LEMMA RamLostTypes ==
  ASSUME RamLost
  PROVE  /\ bootdata' \in BootDataType
         /\ page' \in [{0, 1} -> Blocks \cup {Bad}]
         /\ pageValid' \in [{0, 1} -> {"Sealed", "Signed", "Invalid"}]
         /\ chain' \in SUBSET Owners
BY DEF RamLost, BootDataType, States

(* Resetting the minimum security version leaves the ownership state and   *)
(* the nonce alone.                                                        *)
LEMMA ResetMinSecFacts ==
  ASSUME NEW bd \in BootDataType, page[1] \in Blocks
  PROVE  /\ ResetMinSec(bd) \in BootDataType
         /\ ResetMinSec(bd).state = bd.state
         /\ ResetMinSec(bd).nextOwner = bd.nextOwner
         /\ ResetMinSec(bd).nonce = bd.nonce
<1>1. page[1].minsec \in Nat \cup {Keep}
  BY ConstantsAssumption DEF BlockType
<1>2. CASE page[1].minsec = Keep
  BY <1>2 DEF ResetMinSec
<1>3. CASE page[1].minsec # Keep
  BY <1>1, <1>3 DEF ResetMinSec, BootDataType
<1> QED
  BY <1>2, <1>3

(* An interrupted flash operation touches only its own page and seals      *)
(* nothing.                                                                *)
LEMMA TornTypes ==
  ASSUME TypeOK, Torn, pc \in DOMAIN PageOf => page[1] \in Blocks
  PROVE  /\ slot' \in [{0, 1} -> Contents] /\ secret' \in (SUBSET Owners) \cup {Bad}
         /\ \A i \in {0, 1} : (pc \in DOMAIN PageOf => PageOf[pc] # i) => slot'[i] = slot[i]
         /\ \A i \in {0, 1} : IsSealed(slot'[i]) => slot'[i] = slot[i]
<1>1. secret' \in (SUBSET Owners) \cup {Bad}
  BY DEF Torn, TypeOK
<1>2. CASE pc \in DOMAIN PageOf
  <2>1. PageOf[pc] \in {0, 1}
    BY <1>2, PageOfValues
  <2>2. PICK c : /\ c \in IF erased THEN {Bad, Signed(page[1])}
                          ELSE {slot[PageOf[pc]], Bad}
                               \cup (IF slot[PageOf[pc]] = Bad THEN {}
                                     ELSE {Signed(slot[PageOf[pc]].block)})
                 /\ slot' = [slot EXCEPT ![PageOf[pc]] = c]
    BY <1>2 DEF Torn, TornPage
  <2>3. slot[PageOf[pc]] \in Contents
    BY <2>1 DEF TypeOK
  <2>4. slot[PageOf[pc]] # Bad => slot[PageOf[pc]].block \in Blocks
    BY <2>3, CopyFacts
  <2>5. c \in Contents
    BY <1>2, <2>2, <2>3, <2>4, SealedFacts, ContentsFacts
  <2>6. IsSealed(c) => c = slot[PageOf[pc]]
    BY <1>2, <2>2, <2>3, <2>4, SealedFacts, ContentsFacts
  <2> QED
    BY <1>1, <1>2, <2>1, <2>2, <2>5, <2>6 DEF TypeOK
<1>3. CASE pc \notin DOMAIN PageOf
  BY <1>1, <1>3 DEF Torn, TypeOK
<1> QED
  BY <1>2, <1>3

(* Every step preserves the types.                                         *)
LEMMA TypeStep ==
  ASSUME IInv, [Next]_vars
  PROVE  TypeOK'
<1> USE PageOfValues DEF Goto, flash, ram
<1>0. TypeOK /\ UpdatesSafe /\ PagesKnown
  BY DEF IInv
<1>1. CASE Boot
  <2>1. \A i \in {0, 1} : /\ CopyOf(slot[i]) \in Blocks \cup {Bad}
                          /\ StatusOf(slot[i]) \in {"Sealed", "Signed", "Invalid"}
    BY <1>0, CopyFacts DEF TypeOK
  <2> QED
    BY <1>0, <1>1, <2>1 DEF Boot, TypeOK
<1>2. CASE LockedOwnerInit
  <2>1. CASE NewVersionOffered
    <3>1. page[1] \in Blocks
      BY <1>0, <2>1 DEF NewVersionOffered, SameOwner, TypeOK
    <3>2. bootdata' \in BootDataType
      BY <1>0, <1>2, <2>1, <3>1, ResetMinSecFacts DEF LockedOwnerInit, TypeOK
    <3> QED
      BY <1>0, <1>2, <2>1, <3>2 DEF LockedOwnerInit, TypeOK
  <2>2. CASE ~NewVersionOffered
    BY <1>0, <1>2, <2>2 DEF LockedOwnerInit, TypeOK
  <2> QED
    BY <2>1, <2>2
<1>3. CASE BothSealed
  BY <1>0, <1>3 DEF BothSealed, TypeOK
<1>4. CASE RepairPage(0) \/ RepairPage(1)
  <2>1. CASE RepairPage(0)
    <3>1. /\ page' = [page EXCEPT ![0] = page[1]] /\ pc' = "fix0" /\ erased' = FALSE
          /\ UNCHANGED <<slot, secret, stored, msg, bootdata, pageValid, chain>>
      BY <2>1 DEF RepairPage
    <3> QED
      BY <1>0, <3>1 DEF TypeOK
  <2>2. CASE RepairPage(1)
    <3>1. /\ page' = [page EXCEPT ![1] = page[0]] /\ pc' = "fix1" /\ erased' = FALSE
          /\ UNCHANGED <<slot, secret, stored, msg, bootdata, pageValid, chain>>
      BY <2>2 DEF RepairPage
    <3> QED
      BY <1>0, <3>1 DEF TypeOK
  <2> QED
    BY <1>4, <2>1, <2>2
<1>5. CASE NeitherSealed \/ UnlockedInit
  <2>1. CASE GoToRecovery
    <3>1. bootdata' \in BootDataType
      BY <1>0, <2>1, NewNonceFacts DEF GoToRecovery, TypeOK, BootDataType, States
    <3> QED
      BY <1>0, <2>1, <3>1 DEF GoToRecovery, TypeOK
  <2>2. CASE ~GoToRecovery
    BY <1>0, <1>5, <2>2 DEF NeitherSealed, UnlockedInit, TypeOK
  <2> QED
    BY <2>1, <2>2
<1>6. CASE ErasePage
  <2>1. PageOf[pc] \in {0, 1}
    BY <1>6 DEF ErasePage
  <2> QED
    BY <1>0, <1>6, <2>1, ContentsFacts DEF ErasePage, TypeOK
<1>7. CASE WriteNewVersion \/ WriteRepair0 \/ WriteRepair1 \/ WriteActivated1
  <2>1. Sealed(page[1]) \in Contents
    BY <1>0, <1>7, SealedFacts DEF WriteNewVersion, WriteRepair0, WriteRepair1, WriteActivated1,
                                   WritePage, UpdatesSafe
  <2> QED
    <3>1. CASE WriteNewVersion
      BY <1>0, <3>1, <2>1 DEF WriteNewVersion, WritePage, TypeOK
    <3>2. CASE WriteRepair0
      BY <1>0, <3>2, <2>1 DEF WriteRepair0, WritePage, TypeOK
    <3>3. CASE WriteRepair1
      BY <1>0, <3>3, <2>1 DEF WriteRepair1, WritePage, TypeOK
    <3>4. CASE WriteActivated1
      BY <1>0, <3>4, <2>1 DEF WriteActivated1, WritePage, TypeOK
    <3> QED
      BY <1>7, <3>1, <3>2, <3>3, <3>4
<1>8. CASE NoRequest
  BY <1>0, <1>8 DEF NoRequest, TypeOK
<1>9. CASE Unlock
  <2> DEFINE s == UnlockTo[msg.kind]
             o == IF msg.kind = "Endorsed" THEN msg.nextOwner ELSE bootdata.nextOwner
             bd == [bootdata EXCEPT !.state = s, !.nextOwner = o]
  <2>1. s \in States
    BY <1>9 DEF Unlock, MayUnlock, UnlockTo, States, UnlockedStates
  <2>2. o \in Owners \cup {NoOwner}
    BY <1>0 DEF TypeOK, Messages, BootDataType
  <2>3. bd \in BootDataType
    BY <1>0, <2>1, <2>2 DEF TypeOK, BootDataType
  <2>4. bootdata' = NewNonce(bd)
    BY <1>9 DEF Unlock
  <2>5. bootdata' \in BootDataType
    BY <2>3, <2>4, NewNonceFacts
  <2> QED
    BY <1>0, <1>9, <2>5, ReplyFacts DEF Unlock, TypeOK
<1>10. CASE StartActivate
  <2>1. page[1] \in Blocks
    BY <1>0, <1>10 DEF StartActivate, MayActivate, KeyValid, TypeOK
  <2>2. bootdata' \in BootDataType
    BY <1>0, <1>10, <2>1, ResetMinSecFacts DEF StartActivate, TypeOK
  <2>3. page[0] # Bad => page[0].owner \in Owners
    BY <1>0, ConstantsAssumption DEF TypeOK, BlockType
  <2> QED
    BY <1>0, <1>10, <2>2, <2>3 DEF StartActivate, TypeOK
<1>11. CASE Refuse \/ SecretUnreadable
  BY <1>0, <1>11, ReplyFacts DEF Refuse, SecretUnreadable, TypeOK
<1>12. CASE WriteActivated0 \/ WriteSecret
  <2>1. \A t \in {0, 1} : Activated(t) => bootdata' \in BootDataType /\ msg' \in Messages
    <3> SUFFICES ASSUME NEW t \in {0, 1}, Activated(t)
                 PROVE  bootdata' \in BootDataType /\ msg' \in Messages
      OBVIOUS
    <3> DEFINE bd == [bootdata EXCEPT !.state = "LockedOwner", !.nextOwner = NoOwner,
                                      !.transfers = bootdata.transfers + t]
    <3>0. bootdata \in BootDataType /\ bootdata.transfers + t \in Nat
      BY <1>0 DEF TypeOK, BootDataType
    <3>1. bd \in BootDataType
      BY <3>0 DEF BootDataType, States
    <3>2. bootdata' = NewNonce(bd)
      BY DEF Activated
    <3>3. msg' \in Messages
      BY ReplyFacts DEF Activated
    <3> QED
      BY <3>1, <3>2, <3>3, NewNonceFacts
  <2>2. CASE WriteActivated0
    <3>1. Sealed(page[1]) \in Contents
      BY <1>0, <2>2, SealedFacts DEF WriteActivated0, WritePage, UpdatesSafe
    <3> QED
      BY <1>0, <2>1, <2>2, <3>1 DEF WriteActivated0, WritePage, TypeOK
  <2>3. CASE WriteSecret
    BY <1>0, <2>1, <2>3 DEF WriteSecret, TypeOK
  <2> QED
    BY <1>12, <2>2, <2>3
<1>13. CASE EraseSecret
  BY <1>0, <1>13 DEF EraseSecret, TypeOK
<1>14. CASE Commit
  BY <1>0, <1>14, RamLostTypes DEF Commit, TypeOK
<1>15. CASE CommitRecovery
  BY <1>0, <1>15 DEF CommitRecovery, TypeOK
<1>16. CASE WriteOwnerPage1
  <2>1. PICK c \in {Bad} \cup {Signed(b) : b \in Blocks} : slot' = [slot EXCEPT ![1] = c]
    BY <1>16 DEF WriteOwnerPage1
  <2>2. c \in Contents
    BY <2>1, ContentsFacts, SealedFacts
  <2> QED
    BY <1>0, <1>16, <2>1, <2>2 DEF WriteOwnerPage1, TypeOK
<1>17. CASE PostRequest
  <2>1. msg' \in Messages
    BY <1>0, <1>17 DEF PostRequest, Messages, TypeOK, BootDataType
  <2> QED
    BY <1>0, <1>17, <2>1 DEF PostRequest, TypeOK
<1>18. CASE Reboot
  BY <1>0, <1>18, RamLostTypes DEF Reboot, TypeOK
<1>19. CASE PowerLoss \/ Reset \/ FlashError
  <2>1. slot' \in [{0, 1} -> Contents] /\ secret' \in (SUBSET Owners) \cup {Bad}
    BY <1>0, <1>19, TornTypes DEF PowerLoss, Reset, FlashError, UpdatesSafe
  <2>2. CASE PowerLoss
    BY <1>0, <2>1, <2>2, RamLostTypes, ReplyFacts DEF PowerLoss, TypeOK
  <2>3. CASE Reset
    BY <1>0, <2>1, <2>3, RamLostTypes DEF Reset, TypeOK
  <2>4. CASE FlashError
    <3>1. CASE pc = "commit"
      BY <1>0, <2>1, <2>4, <3>1, RamLostTypes DEF FlashError, TypeOK
    <3>2. CASE pc # "commit"
      BY <1>0, <2>1, <2>4, <3>2, ReplyFacts DEF FlashError, TypeOK
    <3> QED
      BY <3>1, <3>2
  <2> QED
    BY <1>19, <2>2, <2>3, <2>4
<1>20. CASE UNCHANGED vars
  BY <1>0, <1>20 DEF vars, TypeOK
<1> QED
  BY <1>1, <1>2, <1>3, <1>4, <1>5, <1>6, <1>7, <1>8, <1>9, <1>10, <1>11, <1>12, <1>13, <1>14,
     <1>15, <1>16, <1>17, <1>18, <1>19, <1>20 DEF Next, Firmware, Fault

(* The facts about the new boot data that the invariant uses.              *)
LEMMA NewBootDataFacts ==
  ASSUME TypeOK
  PROVE  /\ Unlock => /\ bootdata'.state # "Recovery"
                      /\ bootdata'.nonce > bootdata.nonce
         /\ GoToRecovery => /\ bootdata'.state = "Recovery"
                            /\ bootdata'.nonce > bootdata.nonce
         /\ \A t \in {0, 1} : Activated(t) => /\ bootdata'.state = "LockedOwner"
                                              /\ bootdata'.nonce > bootdata.nonce
<1>1. bootdata \in BootDataType /\ bootdata.nonce \in Nat
  BY DEF TypeOK, BootDataType
<1>2. ASSUME Unlock
      PROVE  bootdata'.state # "Recovery" /\ bootdata'.nonce > bootdata.nonce
  <2>1. UnlockTo[msg.kind] # "Recovery"
    BY <1>2 DEF Unlock, MayUnlock, UnlockTo
  <2> QED
    BY <1>1, <1>2, <2>1 DEF Unlock, NewNonce, BootDataType
<1>3. ASSUME GoToRecovery
      PROVE  bootdata'.state = "Recovery" /\ bootdata'.nonce > bootdata.nonce
  BY <1>1, <1>3 DEF GoToRecovery, NewNonce, BootDataType
<1>4. ASSUME NEW t \in {0, 1}, Activated(t)
      PROVE  bootdata'.state = "LockedOwner" /\ bootdata'.nonce > bootdata.nonce
  BY <1>1, <1>4 DEF Activated, NewNonce, BootDataType
<1> QED
  BY <1>2, <1>3, <1>4

(* Every step keeps boot acting on the stored state.                       *)
LEMMA StateStep ==
  ASSUME IInv, [Next]_vars
  PROVE  StateKnown'
<1> USE PageOfValues DEF Goto, flash, ram, StateKnown
<1>0. TypeOK /\ StateKnown /\ PagesKnown /\ UpdatesSafe
  BY DEF IInv
<1>1. CASE Boot
  BY <1>0, <1>1 DEF Boot
<1>2. CASE LockedOwnerInit
  <2>1. bootdata'.state = bootdata.state /\ bootdata'.nextOwner = bootdata.nextOwner
    BY <1>0, <1>2, ResetMinSecFacts DEF LockedOwnerInit, NewVersionOffered, SameOwner, TypeOK
  <2> QED
    BY <1>0, <1>2, <2>1 DEF LockedOwnerInit
<1>3. CASE BothSealed
  BY <1>0, <1>3 DEF BothSealed
<1>4. CASE RepairPage(0) \/ RepairPage(1)
  BY <1>0, <1>4 DEF RepairPage
<1>5. CASE NeitherSealed
  <2>1. ~AnySealed'
    BY <1>0, <1>5 DEF NeitherSealed, GoToRecovery, PagesKnown, AnySealed
  <2> QED
    BY <1>0, <1>5, <2>1, NewBootDataFacts DEF NeitherSealed, GoToRecovery
<1>6. CASE UnlockedInit
  <2>1. stored'.state # "LockedOwner"
    BY <1>0, <1>6 DEF UnlockedInit, GoToRecovery, UnlockedStates
  <2> QED
    BY <1>0, <1>6, <2>1, NewBootDataFacts DEF UnlockedInit, GoToRecovery
<1>7. CASE ErasePage
  BY <1>0, <1>7 DEF ErasePage
<1>8. CASE WriteNewVersion \/ WriteRepair0 \/ WriteRepair1 \/ WriteActivated1
  BY <1>0, <1>8 DEF WriteNewVersion, WriteRepair0, WriteRepair1, WriteActivated1, WritePage
<1>9. CASE NoRequest \/ Refuse \/ SecretUnreadable
  BY <1>0, <1>9 DEF NoRequest, Refuse, SecretUnreadable
<1>10. CASE Unlock
  BY <1>0, <1>10, NewBootDataFacts DEF Unlock
<1>11. CASE StartActivate
  <2>1. bootdata'.state = bootdata.state /\ bootdata'.nextOwner = bootdata.nextOwner
    BY <1>0, <1>11, ResetMinSecFacts DEF StartActivate, MayActivate, KeyValid, TypeOK
  <2> QED
    BY <1>0, <1>11, <2>1 DEF StartActivate, MayActivate, UnlockedStates
<1>12. CASE WriteActivated0 \/ WriteSecret
  <2>1. WriteSecret => Activated(1)
    BY DEF WriteSecret
  <2> QED
    BY <1>0, <1>12, <2>1, NewBootDataFacts DEF WriteActivated0, WriteSecret, WritePage
<1>13. CASE EraseSecret
  BY <1>0, <1>13 DEF EraseSecret
<1>14. CASE CommitRecovery
  BY <1>0, <1>14 DEF CommitRecovery
<1>15. CASE WriteOwnerPage1 \/ PostRequest
  BY <1>0, <1>15 DEF WriteOwnerPage1, PostRequest
<1>16. CASE Commit \/ Reboot \/ PowerLoss \/ Reset
  BY <1>16 DEF Commit, Reboot, PowerLoss, Reset
<1>17. CASE FlashError
  BY <1>0, <1>17 DEF FlashError
<1>18. CASE UNCHANGED vars
  BY <1>0, <1>18 DEF vars, AnySealed
<1> QED
  BY <1>1, <1>2, <1>3, <1>4, <1>5, <1>6, <1>7, <1>8, <1>9, <1>10, <1>11, <1>12, <1>13, <1>14,
     <1>15, <1>16, <1>17, <1>18 DEF Next, Firmware, Fault

(* Every step keeps what RAM says of the pages true to flash.              *)
LEMMA PagesStep ==
  ASSUME IInv, [Next]_vars
  PROVE  PagesKnown'
<1> USE PageOfValues DEF Goto, flash, ram, PagesKnown
<1>0. TypeOK /\ StateKnown /\ PagesKnown /\ UpdatesSafe
  BY DEF IInv
<1>1. CASE Boot
  <2>1. stored.state \in States
    BY <1>0 DEF TypeOK, BootDataType
  <2> QED
    BY <1>0, <1>1, <2>1, CopyFacts DEF Boot, InSync, States, UnlockedStates
<1>2. CASE LockedOwnerInit
  <2>1. \A i \in {0, 1} : /\ pageValid[i] = "Sealed" => page[i] \in Blocks /\ slot[i] = Sealed(page[i])
                          /\ pageValid[i] # "Sealed" => ~IsSealed(slot[i])
    BY <1>0, <1>2, CopyFacts DEF LockedOwnerInit, InSync, TypeOK
  <2>2. /\ pc' \in {"nv", "repair"}
        /\ slot' = slot /\ page' = page /\ pageValid' = pageValid
    BY <1>2 DEF LockedOwnerInit
  <2> QED
    BY <2>1, <2>2 DEF AnySealed
<1>3. CASE BothSealed
  BY <1>0, <1>3, SealedFacts DEF BothSealed, StateKnown, UnlockedStates
<1>4. CASE RepairPage(0) \/ RepairPage(1)
  BY <1>0, <1>4 DEF RepairPage
<1>5. CASE NeitherSealed \/ UnlockedInit
  BY <1>0, <1>5 DEF NeitherSealed, UnlockedInit, GoToRecovery, StateKnown, UnlockedStates, InSync
<1>6. CASE ErasePage
  BY <1>0, <1>6 DEF ErasePage
<1>7. CASE WriteNewVersion
  <2>1. page[1] \in Blocks /\ slot' = [slot EXCEPT ![1] = Sealed(page[1])] /\ pc' = "repair"
    BY <1>0, <1>7 DEF WriteNewVersion, WritePage, UpdatesSafe
  <2>2. pageValid' = [pageValid EXCEPT ![0] = "Invalid", ![1] = "Sealed"] /\ page' = page
    BY <1>7 DEF WriteNewVersion
  <2>3. pageValid'[0] = "Invalid" /\ pageValid'[1] = "Sealed" /\ slot'[1] = Sealed(page[1])
    BY <1>0, <2>1, <2>2 DEF TypeOK
  <2> QED
    BY <2>1, <2>2, <2>3
<1>8. CASE WriteRepair0 \/ WriteRepair1
  <2>1. IsSealed(slot'[0])
    <3>1. page[1] \in Blocks
      BY <1>0, <1>8 DEF WriteRepair0, WriteRepair1, WritePage, UpdatesSafe
    <3>2. slot'[0] = Sealed(page[1])
      BY <1>0, <1>8 DEF WriteRepair0, WriteRepair1, WritePage, UpdatesSafe, TypeOK
    <3> QED
      BY <3>1, <3>2, SealedFacts
  <2>2. pc' = "svc" /\ bootdata'.state = "LockedOwner"
    BY <1>0, <1>8 DEF WriteRepair0, WriteRepair1, WritePage, StateKnown
  <2> QED
    BY <2>1, <2>2 DEF UnlockedStates
<1>9. CASE WriteActivated1 \/ WriteActivated0
  BY <1>0, <1>9 DEF WriteActivated1, WriteActivated0, WritePage
<1>10. CASE NoRequest \/ Refuse
  BY <1>0, <1>10 DEF NoRequest, Refuse
<1>11. CASE Unlock \/ StartActivate
  BY <1>0, <1>11 DEF Unlock, StartActivate
<1>12. CASE EraseSecret \/ WriteSecret
  BY <1>0, <1>12 DEF EraseSecret, WriteSecret
<1>13. CASE SecretUnreadable
  BY <1>0, <1>13 DEF SecretUnreadable, StateKnown, UnlockedStates
<1>14. CASE CommitRecovery
  BY <1>0, <1>14 DEF CommitRecovery, StateKnown, UnlockedStates
<1>15. CASE WriteOwnerPage1
  <2>1. slot'[0] = slot[0]
    BY <1>0, <1>15 DEF WriteOwnerPage1, TypeOK
  <2> QED
    BY <1>0, <1>15, <2>1 DEF WriteOwnerPage1
<1>16. CASE PostRequest
  BY <1>0, <1>16 DEF PostRequest
<1>17. CASE Commit \/ Reboot \/ PowerLoss \/ Reset
  BY <1>17 DEF Commit, Reboot, PowerLoss, Reset
<1>18. CASE FlashError
  <2> DEFINE Kept(i) == slot'[i] = slot[i]
  <2>1. \A i \in {0, 1} : (pc \in DOMAIN PageOf => PageOf[pc] # i) => Kept(i)
    BY <1>0, <1>18, TornTypes DEF FlashError, UpdatesSafe
  <2>2. CASE pc = "nv"
    <3>1. Kept(0) /\ slot[0] = Sealed(page[0]) /\ page[0] \in Blocks
      BY <1>0, <2>1, <2>2 DEF UpdatesSafe, SameOwner, TypeOK
    <3>2. pageValid[0] = "Sealed" /\ pageValid[1] # "Sealed"
      BY <1>0, <2>2 DEF UpdatesSafe, NewVersionMode
    <3> QED
      BY <1>18, <2>2, <3>1, <3>2 DEF FlashError
  <2>3. CASE pc \in {"fix0", "fix1"}
    <3>1. bootdata.state = "LockedOwner"
      BY <1>0, <2>3 DEF StateKnown
    <3>2. pageValid[0] = "Sealed" => IsSealed(slot'[0])
      BY <1>0, <2>1, <2>3, SealedFacts DEF UpdatesSafe
    <3> QED
      BY <1>18, <2>3, <3>1, <3>2 DEF FlashError, UnlockedStates
  <2>4. CASE pc \notin {"nv", "fix0", "fix1"}
    BY <1>0, <1>18, <2>4 DEF FlashError, StateKnown, UnlockedStates
  <2> QED
    BY <2>2, <2>3, <2>4
<1>19. CASE UNCHANGED vars
  BY <1>0, <1>19 DEF vars, AnySealed, InSync
<1> QED
  BY <1>1, <1>2, <1>3, <1>4, <1>5, <1>6, <1>7, <1>8, <1>9, <1>10, <1>11, <1>12, <1>13, <1>14,
     <1>15, <1>16, <1>17, <1>18, <1>19 DEF Next, Firmware, Fault

(* Every step keeps the updates of pages safe.                             *)
LEMMA UpdatesStep ==
  ASSUME IInv, [Next]_vars
  PROVE  UpdatesSafe'
<1> USE PageOfValues DEF Goto, flash, ram
<1>0. TypeOK /\ StateKnown /\ PagesKnown /\ UpdatesSafe
  BY DEF IInv
<1>1. CASE LockedOwnerInit
  <2>1. CASE NewVersionOffered
    <3>1. page[1] \in Blocks /\ slot[0] = Sealed(page[0])
      BY <1>0, <1>1, <2>1, CopyFacts DEF LockedOwnerInit, NewVersionOffered, NewVersionMode, SameOwner,
                                         PagesKnown, InSync, TypeOK
    <3> QED
      BY <1>0, <1>1, <2>1, <3>1 DEF LockedOwnerInit, NewVersionOffered, NewVersionMode, SameOwner, UpdatesSafe
  <2>2. CASE ~NewVersionOffered
    BY <1>1, <2>2 DEF LockedOwnerInit, UpdatesSafe
  <2> QED
    BY <2>1, <2>2
<1>2. CASE RepairPage(0)
  <2>1. page'[1] = page[1] /\ page[1] \in Blocks /\ slot[1] = Sealed(page[1]) /\ pageValid[0] # "Sealed"
    BY <1>0, <1>2 DEF RepairPage, PagesKnown, TypeOK
  <2>2. pc' = "fix0" /\ slot' = slot /\ pageValid' = pageValid
    BY <1>2 DEF RepairPage
  <2> QED
    BY <2>1, <2>2 DEF UpdatesSafe
<1>3. CASE RepairPage(1)
  <2>1. page'[1] = page[0] /\ page[0] \in Blocks /\ slot[0] = Sealed(page[0])
    BY <1>0, <1>3 DEF RepairPage, PagesKnown, TypeOK
  <2>2. pc' = "fix1" /\ slot' = slot
    BY <1>3 DEF RepairPage
  <2> QED
    BY <2>1, <2>2 DEF UpdatesSafe
<1>4. CASE StartActivate
  <2>1. /\ page[1] \in Blocks /\ bootdata.state \in UnlockedStates /\ pc = "svc"
        /\ Page1ValidForTransfer
        /\ pc' = "act1" /\ page' = page /\ slot' = slot
    BY <1>0, <1>4 DEF StartActivate, MayActivate, KeyValid, TypeOK
  <2>2. bootdata'.state = bootdata.state /\ bootdata'.nextOwner = bootdata.nextOwner
    BY <1>0, <1>4, <2>1, ResetMinSecFacts DEF StartActivate, TypeOK
  <2>3. bootdata.state = "UnlockedSelf" => IsSealed(slot[0]) /\ slot[0].block.owner = page[1].owner
    BY <1>0, <2>1, CopyFacts DEF PagesKnown, InSync, Page1ValidForTransfer, SameOwner, TypeOK
  <2> QED
    BY <2>1, <2>2, <2>3 DEF UpdatesSafe, Page1ValidForTransfer
<1>5. CASE ErasePage
  <2>1. /\ pc \in DOMAIN PageOf /\ UNCHANGED <<pc, page, pageValid, bootdata>>
        /\ slot' = [slot EXCEPT ![PageOf[pc]] = Bad]
    BY <1>5 DEF ErasePage
  <2>2. \A i \in {0, 1} : i # PageOf[pc] => slot'[i] = slot[i]
    BY <1>0, <2>1 DEF TypeOK
  <2> QED
    BY <1>0, <2>1, <2>2 DEF UpdatesSafe, NewVersionMode, SameOwner
<1>6. CASE WriteActivated1
  <2>1. slot'[1] = Sealed(page[1])
    BY <1>0, <1>6 DEF WriteActivated1, WritePage, TypeOK
  <2> QED
    BY <1>0, <1>6, <2>1 DEF WriteActivated1, WritePage, UpdatesSafe
<1>7. CASE pc' \notin DOMAIN PageOf
  BY <1>7 DEF UpdatesSafe
<1>8. CASE PostRequest \/ WriteOwnerPage1 \/ EraseSecret
  BY <1>8 DEF PostRequest, WriteOwnerPage1, EraseSecret, UpdatesSafe
<1>9. CASE UNCHANGED vars
  BY <1>0, <1>9 DEF vars, UpdatesSafe, NewVersionMode, SameOwner
<1>10. ASSUME Boot \/ BothSealed \/ NeitherSealed \/ UnlockedInit \/ WriteNewVersion \/ WriteRepair0
              \/ WriteRepair1 \/ NoRequest \/ Unlock \/ Refuse \/ WriteActivated0 \/ SecretUnreadable
              \/ WriteSecret \/ Commit \/ CommitRecovery \/ Reboot \/ Fault
       PROVE  pc' \notin DOMAIN PageOf
  BY <1>10 DEF Boot, BothSealed, NeitherSealed, UnlockedInit, GoToRecovery, WriteNewVersion, WriteRepair0,
               WriteRepair1, WritePage, NoRequest, Unlock, Refuse, WriteActivated0, SecretUnreadable,
               WriteSecret, Commit, CommitRecovery, Reboot, Fault, PowerLoss, Reset, FlashError
<1> QED
  BY <1>1, <1>2, <1>3, <1>4, <1>5, <1>6, <1>7, <1>8, <1>9, <1>10 DEF Next, Firmware

(* Every step keeps the nonce in RAM at least as new as the stored one.    *)
LEMMA NonceStep ==
  ASSUME IInv, [Next]_vars
  PROVE  NonceFresh'
<1> USE DEF Goto, flash, ram, NonceFresh
<1>0. /\ TypeOK /\ NonceFresh
      /\ bootdata.nonce \in Nat /\ stored.nonce \in Nat
  BY DEF IInv, TypeOK, BootDataType
<1>1. CASE Boot
  BY <1>0, <1>1 DEF Boot
<1>2. CASE LockedOwnerInit
  <2>1. bootdata'.nonce = bootdata.nonce
    BY <1>0, <1>2, ResetMinSecFacts DEF LockedOwnerInit, NewVersionOffered, SameOwner, TypeOK
  <2> QED
    BY <1>0, <1>2, <2>1 DEF LockedOwnerInit
<1>3. CASE StartActivate
  <2>1. bootdata'.nonce = bootdata.nonce
    BY <1>0, <1>3, ResetMinSecFacts DEF StartActivate, MayActivate, KeyValid, TypeOK
  <2> QED
    BY <1>0, <1>3, <2>1 DEF StartActivate
<1>4. CASE NeitherSealed \/ UnlockedInit \/ Unlock
  <2>1. CASE GoToRecovery \/ Unlock
    <3>1. bootdata'.nonce > bootdata.nonce
      BY <1>0, <2>1, NewBootDataFacts
    <3>2. TypeOK'
      BY TypeStep
    <3>3. bootdata'.nonce \in Nat
      BY <3>2 DEF TypeOK, BootDataType
    <3>4. stored' = stored /\ pc # "off"
      BY <1>4, <2>1 DEF NeitherSealed, UnlockedInit, GoToRecovery, Unlock
    <3> QED
      BY <1>0, <3>1, <3>3, <3>4
  <2>2. CASE ~(GoToRecovery \/ Unlock)
    BY <1>0, <1>4, <2>2 DEF NeitherSealed, UnlockedInit
  <2> QED
    BY <2>1, <2>2
<1>5. CASE WriteActivated0 \/ WriteSecret
  <2>1. \/ bootdata' = bootdata /\ pc' = "secret"
        \/ Activated(0) \/ Activated(1)
    BY <1>5 DEF WriteActivated0, WriteSecret, WritePage
  <2>2. Activated(0) \/ Activated(1) => bootdata'.nonce > bootdata.nonce
    BY <1>0, NewBootDataFacts
  <2>3. TypeOK'
    BY TypeStep
  <2>4. bootdata'.nonce \in Nat
    BY <2>3 DEF TypeOK, BootDataType
  <2>5. stored' = stored /\ pc # "off"
    BY <1>5 DEF WriteActivated0, WriteSecret, WritePage
  <2> QED
    BY <1>0, <2>1, <2>2, <2>4, <2>5
<1>6. ASSUME pc # "off", UNCHANGED <<bootdata, stored>>, pc' \notin {"commit", "recover"}
      PROVE  NonceFresh'
  BY <1>0, <1>6
<1>7. CASE BothSealed \/ RepairPage(0) \/ RepairPage(1)
  BY <1>6, <1>7 DEF BothSealed, RepairPage
<1>8. CASE ErasePage \/ EraseSecret \/ SecretUnreadable
  BY <1>6, <1>8, PageOfValues DEF ErasePage, EraseSecret, SecretUnreadable
<1>9. CASE WriteNewVersion \/ WriteRepair0 \/ WriteRepair1 \/ WriteActivated1
  BY <1>6, <1>9 DEF WriteNewVersion, WriteRepair0, WriteRepair1, WriteActivated1, WritePage
<1>10. CASE NoRequest \/ Refuse \/ WriteOwnerPage1 \/ PostRequest
  BY <1>6, <1>10 DEF NoRequest, Refuse, WriteOwnerPage1, PostRequest
<1>11. CASE CommitRecovery
  BY <1>0, <1>11 DEF CommitRecovery
<1>12. CASE Commit \/ Reboot \/ PowerLoss \/ Reset
  BY <1>12 DEF Commit, Reboot, PowerLoss, Reset
<1>13. CASE FlashError
  <2>1. CASE pc = "commit"
    BY <1>13, <2>1 DEF FlashError
  <2>2. CASE pc # "commit"
    BY <1>6, <1>13, <2>2 DEF FlashError
  <2> QED
    BY <2>1, <2>2
<1>14. CASE UNCHANGED vars
  BY <1>0, <1>14 DEF vars
<1> QED
  BY <1>1, <1>2, <1>3, <1>4, <1>5, <1>7, <1>8, <1>9, <1>10, <1>11, <1>12, <1>13, <1>14
  DEF Next, Firmware, Fault

(* A provisioned device satisfies the invariant.                           *)
LEMMA InitIInv == Init => IInv
<1> SUFFICES ASSUME Init
             PROVE  IInv
  OBVIOUS
<1>1. PICK b \in Blocks :
        /\ slot = [i \in {0, 1} |-> Sealed(b)]
        /\ stored = [state |-> "LockedOwner", nonce |-> 0, nextOwner |-> NoOwner, transfers |-> 0,
                     minsec |-> IF b.minsec = Keep THEN 0 ELSE b.minsec]
  BY DEF Init
<1>2. b.minsec \in Nat \cup {Keep}
  BY ConstantsAssumption DEF BlockType
<1>3. stored \in BootDataType
  BY <1>1, <1>2 DEF BootDataType, States
<1>4. slot \in [{0, 1} -> Contents]
  BY <1>1, SealedFacts
<1>5. bootdata \in BootDataType /\ msg \in Messages
  BY ReplyFacts DEF Init, BootDataType, States
<1>6. TypeOK
  BY <1>3, <1>4, <1>5 DEF Init, TypeOK
<1>7. pc = "off"
  BY DEF Init
<1> QED
  BY <1>6, <1>7, PageOfValues DEF IInv, StateKnown, PagesKnown, UpdatesSafe, NonceFresh

(* The invariant holds in every reachable state: boot acts on the stored   *)
(* state, what RAM says of the pages is what flash holds, every page       *)
(* update has a page to fall back on or the right to go ahead, and no      *)
(* nonce is used twice.                                                    *)
THEOREM InductiveInvariant == Spec => []IInv
<1>1. IInv /\ [Next]_vars => IInv'
  BY TypeStep, StateStep, PagesStep, UpdatesStep, NonceStep DEF IInv
<1> QED
  BY <1>1, InitIInv, PTL DEF Spec

(* Type correctness for all owners, blocks, faults and bounds.             *)
THEOREM TypeCorrect == Spec => []TypeOK
<1>1. IInv => TypeOK
  BY DEF IInv
<1> QED
  BY <1>1, InductiveInvariant, PTL

(* A signed request takes effect at most once (NoReplay): the boot data    *)
(* changes only in boot_data_write(), after nonce_new().                   *)
THEOREM NoRequestReplayed == Spec => NoReplay
<1>1. IInv /\ [Next]_vars => [stored' # stored => stored'.nonce > stored.nonce]_vars
  <2> SUFFICES ASSUME IInv, Next, stored' # stored
               PROVE  stored'.nonce > stored.nonce
    BY DEF vars
  <2>1. Commit \/ CommitRecovery
    BY DEF Next, Firmware, Fault, Boot, LockedOwnerInit, BothSealed, RepairPage, NeitherSealed,
           UnlockedInit, GoToRecovery, ErasePage, WriteNewVersion, WriteRepair0, WriteRepair1,
           NoRequest, Unlock, StartActivate, Refuse, WriteActivated1, WriteActivated0, EraseSecret,
           SecretUnreadable, WriteSecret, WriteOwnerPage1, PostRequest, Reboot, PowerLoss, Reset,
           FlashError, flash
  <2> QED
    BY <2>1 DEF Commit, CommitRecovery, IInv, NonceFresh
<1> QED
  BY <1>1, InductiveInvariant, PTL DEF NoReplay, Spec

(* What an update writes may be sealed at that moment.                     *)
LEMMA UpdateAuthorised ==
  ASSUME IInv, pc \in DOMAIN PageOf
  PROVE  page[1] \in Blocks /\ MayBeSealed(page[1])
<1> USE PageOfValues
<1>0. StateKnown /\ UpdatesSafe /\ page[1] \in Blocks
  BY DEF IInv, UpdatesSafe
<1>1. CASE pc = "nv"
  <2>1. page[0] \in Blocks /\ slot[0] = Sealed(page[0])
    BY <1>0, <1>1 DEF UpdatesSafe, SameOwner, IInv, TypeOK
  <2>2. IsSealed(slot[0]) /\ slot[0].block = page[0]
    BY <2>1, SealedFacts
  <2>3. stored.state = "LockedOwner"
    BY <1>0, <1>1 DEF StateKnown
  <2> QED
    BY <1>0, <1>1, <2>2, <2>3 DEF UpdatesSafe, NewVersionMode, SameOwner, MayBeSealed
<1>2. CASE pc \in {"fix0", "fix1", "act0"}
  BY <1>0, <1>2 DEF UpdatesSafe, MayBeSealed
<1>3. CASE pc = "act1"
  <2>1. bootdata.state = stored.state /\ bootdata.nextOwner = stored.nextOwner
    BY <1>0, <1>3 DEF StateKnown, UnlockedStates
  <2> QED
    BY <1>0, <1>3, <2>1 DEF UpdatesSafe, MayBeSealed
<1> QED
  BY <1>1, <1>2, <1>3

(* The updates write that block to their page.                             *)
LEMMA UpdateSealsPage ==
  ASSUME IInv, WriteNewVersion \/ WriteRepair0 \/ WriteRepair1 \/ WriteActivated1 \/ WriteActivated0
  PROVE  /\ pc \in DOMAIN PageOf /\ PageOf[pc] \in {0, 1}
         /\ slot'[PageOf[pc]] = Sealed(page[1])
         /\ \A i \in {0, 1} : i # PageOf[pc] => slot'[i] = slot[i]
         /\ stored' = stored
<1>1. /\ pc \in DOMAIN PageOf /\ PageOf[pc] \in {0, 1} /\ stored' = stored
      /\ slot' = [slot EXCEPT ![PageOf[pc]] = Sealed(page[1])]
  BY PageOfValues DEF WriteNewVersion, WriteRepair0, WriteRepair1, WriteActivated1, WriteActivated0,
                      WritePage
<1>2. slot \in [{0, 1} -> Contents]
  BY DEF IInv, TypeOK
<1> QED
  BY <1>1, <1>2

(* The other steps that touch the pages seal nothing, and those of them    *)
(* that belong to an update leave the other page alone.                    *)
LEMMA OtherStepsSealNothing ==
  ASSUME IInv, ErasePage \/ WriteOwnerPage1 \/ Fault
  PROVE  /\ \A i \in {0, 1} : IsSealed(slot'[i]) => slot'[i] = slot[i]
         /\ ErasePage \/ Fault =>
              \A i \in {0, 1} : (pc \in DOMAIN PageOf => PageOf[pc] # i) => slot'[i] = slot[i]
         /\ WriteOwnerPage1 => slot'[0] = slot[0]
         /\ stored' = stored
<1>0. TypeOK /\ UpdatesSafe
  BY DEF IInv
<1>1. CASE ErasePage
  <2>1. slot' = [slot EXCEPT ![PageOf[pc]] = Bad] /\ stored' = stored /\ PageOf[pc] \in {0, 1}
        /\ pc \in DOMAIN PageOf /\ pc # "app"
    BY <1>1, PageOfValues DEF ErasePage
  <2> QED
    BY <1>0, <2>1, ContentsFacts DEF TypeOK, WriteOwnerPage1
<1>2. CASE WriteOwnerPage1
  <2>1. PICK c \in {Bad} \cup {Signed(b) : b \in Blocks} : slot' = [slot EXCEPT ![1] = c]
    BY <1>2 DEF WriteOwnerPage1
  <2>2. ~IsSealed(c)
    BY <2>1, ContentsFacts, SealedFacts
  <2>3. slot'[1] = c /\ slot'[0] = slot[0] /\ stored' = stored
    BY <1>0, <1>2, <2>1 DEF TypeOK, WriteOwnerPage1
  <2>4. ~ErasePage /\ (Fault => \A i \in {0, 1} : (pc \in DOMAIN PageOf => PageOf[pc] # i) => slot'[i] = slot[i])
    <3>1. Fault => Torn
      BY DEF Fault, PowerLoss, Reset, FlashError
    <3>2. ~ErasePage
      BY <1>2, PageOfValues DEF ErasePage, WriteOwnerPage1
    <3> QED
      BY <1>0, <3>1, <3>2, TornTypes DEF UpdatesSafe
  <2> QED
    BY <2>2, <2>3, <2>4
<1>3. CASE Fault
  <2>1. Torn /\ stored' = stored
    BY <1>3 DEF Fault, PowerLoss, Reset, FlashError
  <2>2. WriteOwnerPage1 => slot'[0] = slot[0]
    BY <1>0 DEF WriteOwnerPage1, TypeOK
  <2> QED
    BY <1>0, <2>1, <2>2, TornTypes DEF UpdatesSafe
<1> QED
  BY <1>1, <1>2, <1>3

(* Every other step leaves the pages as they are.                          *)
LEMMA PagesUntouched ==
  ASSUME Next,
         ~(WriteNewVersion \/ WriteRepair0 \/ WriteRepair1 \/ WriteActivated1 \/ WriteActivated0),
         ~(ErasePage \/ WriteOwnerPage1 \/ Fault)
  PROVE  slot' = slot /\ (stored' = stored \/ Commit \/ CommitRecovery)
BY DEF Next, Firmware, Boot, LockedOwnerInit, BothSealed, RepairPage, NeitherSealed, UnlockedInit,
       GoToRecovery, NoRequest, Unlock, StartActivate, Refuse, EraseSecret, SecretUnreadable,
       WriteSecret, Commit, CommitRecovery, PostRequest, Reboot, flash

(* A page is sealed only with the consent of the owner in flash            *)
(* (SealAuthorised), whatever the blocks are and however the updates are   *)
(* interrupted and retried.                                                *)
THEOREM SealsAuthorised == Spec => SealAuthorised
<1>1. IInv /\ [Next]_vars =>
        [\A i \in {0, 1} :
           IsSealed(slot'[i]) /\ slot'[i] # slot[i] => MayBeSealed(slot'[i].block)]_vars
  <2> SUFFICES ASSUME IInv, Next, NEW i \in {0, 1}, IsSealed(slot'[i]), slot'[i] # slot[i]
               PROVE  MayBeSealed(slot'[i].block)
    BY DEF vars
  <2>1. CASE WriteNewVersion \/ WriteRepair0 \/ WriteRepair1 \/ WriteActivated1 \/ WriteActivated0
    <3>1. pc \in DOMAIN PageOf /\ slot'[i] = Sealed(page[1])
      BY <2>1, UpdateSealsPage
    <3>2. page[1] \in Blocks /\ MayBeSealed(page[1])
      BY <3>1, UpdateAuthorised
    <3>3. slot'[i].block = page[1]
      BY <3>1, <3>2, SealedFacts
    <3> QED
      BY <3>2, <3>3
  <2>2. CASE ErasePage \/ WriteOwnerPage1 \/ Fault
    BY <2>2, OtherStepsSealNothing
  <2> QED
    BY <2>1, <2>2, PagesUntouched
<1> QED
  BY <1>1, InductiveInvariant, PTL DEF SealAuthorised, Spec

(* In a locked chip an update or repair of a page has the other page       *)
(* sealed.                                                                 *)
LEMMA OtherPageSealed ==
  ASSUME IInv, stored.state = "LockedOwner", pc \in DOMAIN PageOf
  PROVE  \E i \in {0, 1} : PageOf[pc] # i /\ IsSealed(slot[i])
<1> USE PageOfValues
<1>0. StateKnown /\ UpdatesSafe
  BY DEF IInv
<1>1. pc \notin {"act1", "act0"}
  BY <1>0 DEF StateKnown, UnlockedStates
<1>2. CASE pc = "nv"
  <2>1. slot[0] = Sealed(page[0]) /\ page[0] \in Blocks
    BY <1>0, <1>2 DEF UpdatesSafe, SameOwner, IInv, TypeOK
  <2> QED
    BY <1>2, <2>1, SealedFacts
<1>3. CASE pc \in {"fix0", "fix1"}
  BY <1>0, <1>3, SealedFacts DEF UpdatesSafe
<1> QED
  BY <1>1, <1>2, <1>3

(* A locked chip that has a sealed page always keeps one (RedundancyKept): *)
(* no reset, power loss or flash error leaves it without an owner.         *)
THEOREM RedundancyAlwaysKept == Spec => RedundancyKept
<1>1. IInv /\ [Next]_vars =>
        [stored.state = "LockedOwner" /\ AnySealed =>
           (stored.state = "LockedOwner" /\ AnySealed)' \/ stored'.state \in UnlockedStates]_vars
  <2> SUFFICES ASSUME IInv, Next, stored.state = "LockedOwner", AnySealed
               PROVE  \/ stored'.state = "LockedOwner" /\ AnySealed'
                      \/ stored'.state \in UnlockedStates
    BY DEF vars
  <2>0. StateKnown /\ PagesKnown
    BY DEF IInv
  <2>1. CASE WriteNewVersion \/ WriteRepair0 \/ WriteRepair1 \/ WriteActivated1 \/ WriteActivated0
    <3>1. PageOf[pc] \in {0, 1} /\ slot'[PageOf[pc]] = Sealed(page[1]) /\ page[1] \in Blocks
      BY <2>1, UpdateSealsPage, UpdateAuthorised
    <3>2. stored' = stored
      BY <2>1, UpdateSealsPage
    <3> QED
      BY <3>1, <3>2, SealedFacts DEF AnySealed
  <2>2. CASE ErasePage \/ Fault
    <3>1. PICK i \in {0, 1} : (pc \in DOMAIN PageOf => PageOf[pc] # i) /\ IsSealed(slot[i])
      BY OtherPageSealed DEF AnySealed
    <3>2. slot'[i] = slot[i] /\ stored' = stored
      BY <2>2, <3>1, OtherStepsSealNothing
    <3> QED
      BY <3>1, <3>2 DEF AnySealed
  <2>3. CASE WriteOwnerPage1
    <3>1. pc = "app" /\ bootdata.state = "LockedOwner" /\ pageValid[0] = "Sealed"
      BY <2>0, <2>3 DEF WriteOwnerPage1, NewVersionMode, StateKnown, UnlockedStates
    <3>2. IsSealed(slot[0])
      BY <2>0, <3>1 DEF PagesKnown
    <3>3. slot'[0] = slot[0] /\ stored' = stored
      BY <2>3, OtherStepsSealNothing
    <3> QED
      BY <3>2, <3>3 DEF AnySealed
  <2>4. CASE Commit
    <3>1. bootdata.state \in UnlockedStates \cup {"LockedOwner"}
      BY <2>0, <2>4 DEF Commit, StateKnown, IInv, TypeOK, BootDataType, States
    <3>2. stored' = bootdata /\ slot' = slot
      BY <2>4 DEF Commit
    <3> QED
      BY <3>1, <3>2 DEF AnySealed
  <2>5. CASE CommitRecovery
    BY <2>0, <2>5 DEF CommitRecovery, StateKnown
  <2>6. CASE slot' = slot /\ stored' = stored
    BY <2>6 DEF AnySealed
  <2> QED
    BY <2>1, <2>2, <2>3, <2>4, <2>5, <2>6, PagesUntouched
<1> QED
  BY <1>1, InductiveInvariant, PTL DEF RedundancyKept, Spec

-----------------------------------------------------------------------------
(* The second invariant: which block a locked chip boots with, and which   *)
(* requests it can accept.                                                 *)

(* The stored nonce never decreases.                                       *)
LEMMA StoredNonceGrows ==
  ASSUME IInv, [Next]_vars
  PROVE  /\ stored'.nonce >= stored.nonce
         /\ stored.nonce \in Nat /\ stored'.nonce \in Nat
         /\ stored' = stored \/ Commit \/ CommitRecovery
<1>1. stored' = stored \/ Commit \/ CommitRecovery
  BY DEF vars, Next, Firmware, Fault, Boot, LockedOwnerInit, BothSealed, RepairPage, NeitherSealed,
         UnlockedInit, GoToRecovery, ErasePage, WriteNewVersion, WriteRepair0, WriteRepair1,
         NoRequest, Unlock, StartActivate, Refuse, WriteActivated1, WriteActivated0, EraseSecret,
         SecretUnreadable, WriteSecret, WriteOwnerPage1, PostRequest, Reboot, PowerLoss, Reset,
         FlashError, flash
<1>2. TypeOK'
  BY TypeStep
<1>3. stored.nonce \in Nat /\ stored'.nonce \in Nat
  BY <1>2 DEF IInv, TypeOK, BootDataType
<1>4. Commit \/ CommitRecovery => stored'.nonce > stored.nonce
  BY DEF Commit, CommitRecovery, IInv, NonceFresh
<1> QED
  BY <1>1, <1>3, <1>4

(* No request is newer than the stored boot data.                          *)
LEMMA RequestsStep ==
  ASSUME IInv, RequestsStale, [Next]_vars
  PROVE  RequestsStale'
<1> USE DEF Goto, flash, ram
<1>0. TypeOK /\ StateKnown /\ NonceFresh /\ NonceFresh'
  BY NonceStep DEF IInv
<1>1. /\ stored.nonce \in Nat /\ stored'.nonce \in Nat /\ stored'.nonce >= stored.nonce
      /\ msg.nonce \in Nat
  BY <1>0, StoredNonceGrows DEF TypeOK, Messages
<1>2. (IsRequest => msg.nonce <= stored.nonce)'
  <2>1. CASE msg' = msg
    BY <1>1, <2>1 DEF RequestsStale, IsRequest
  <2>2. CASE msg' \in {Reply("none"), Reply("ok"), Reply("error")}
    BY <2>2 DEF IsRequest, Reply, RequestKinds
  <2>3. CASE PostRequest
    <3>1. msg'.nonce \in 0 .. stored.nonce /\ stored' = stored
      BY <2>3 DEF PostRequest
    <3> QED
      BY <1>1, <3>1 DEF IsRequest
  <2>4. msg' = msg \/ msg' \in {Reply("none"), Reply("ok"), Reply("error")} \/ PostRequest
    BY DEF vars, Next, Firmware, Fault, Boot, LockedOwnerInit, BothSealed, RepairPage, NeitherSealed,
           UnlockedInit, GoToRecovery, ErasePage, WriteNewVersion, WriteRepair0, WriteRepair1,
           NoRequest, Unlock, StartActivate, Refuse, WriteActivated1, WriteActivated0, EraseSecret,
           SecretUnreadable, WriteSecret, Activated, WriteOwnerPage1, Reboot, Commit,
           CommitRecovery, PowerLoss, Reset, FlashError
  <2> QED
    BY <2>1, <2>2, <2>3, <2>4
<1>3. (pc # "off" /\ bootdata.state = "Recovery" /\ stored.state # "Recovery"
         => bootdata.nonce > stored.nonce)'
  <2>1. CASE pc # "off" /\ bootdata' = bootdata /\ stored' = stored
    BY <2>1 DEF RequestsStale
  <2>2. CASE pc' \in {"off", "recover"}
    BY <1>0, <2>2 DEF NonceFresh
  <2>3. CASE bootdata'.state # "Recovery" \/ stored'.state = "Recovery"
    BY <2>3
  <2>4. CASE Boot
    BY <2>4, <2>3 DEF Boot
  <2>5. LockedOwnerInit \/ StartActivate => bootdata'.state = bootdata.state /\ bootdata.state # "Recovery"
    <3>1. NewVersionOffered \/ StartActivate => page[1] \in Blocks
      BY <1>0 DEF NewVersionOffered, SameOwner, StartActivate, MayActivate, KeyValid, TypeOK
    <3>2. LockedOwnerInit \/ StartActivate => bootdata'.state = bootdata.state
      BY <1>0, <3>1, ResetMinSecFacts DEF LockedOwnerInit, StartActivate, TypeOK
    <3> QED
      BY <1>0, <3>2 DEF LockedOwnerInit, StartActivate, MayActivate, StateKnown, UnlockedStates
  <2>6. Unlock \/ Activated(0) \/ Activated(1) => bootdata'.state # "Recovery"
    BY <1>0, NewBootDataFacts
  <2>7. CommitRecovery => stored'.state = "Recovery"
    BY <1>0 DEF CommitRecovery, StateKnown
  <2>8. CASE BothSealed \/ RepairPage(0) \/ RepairPage(1) \/ ErasePage \/ EraseSecret
    BY <2>1, <2>8, PageOfValues DEF BothSealed, RepairPage, ErasePage, EraseSecret
  <2>9. CASE NeitherSealed \/ UnlockedInit
    BY <2>1, <2>2, <2>9 DEF NeitherSealed, UnlockedInit, GoToRecovery
  <2>10. CASE WriteNewVersion \/ WriteRepair0 \/ WriteRepair1 \/ WriteActivated1
    BY <2>1, <2>10 DEF WriteNewVersion, WriteRepair0, WriteRepair1, WriteActivated1, WritePage
  <2>11. CASE WriteActivated0 \/ WriteSecret
    BY <2>1, <2>3, <2>6, <2>11 DEF WriteActivated0, WriteSecret, WritePage
  <2>12. CASE NoRequest \/ Refuse \/ SecretUnreadable \/ WriteOwnerPage1 \/ PostRequest
    BY <2>1, <2>12 DEF NoRequest, Refuse, SecretUnreadable, WriteOwnerPage1, PostRequest
  <2>13. CASE Commit \/ Reboot \/ PowerLoss \/ Reset
    BY <2>2, <2>13 DEF Commit, Reboot, PowerLoss, Reset
  <2>14. CASE FlashError
    BY <2>1, <2>2, <2>14 DEF FlashError
  <2>15. CASE UNCHANGED vars
    BY <2>15 DEF vars, RequestsStale
  <2> QED
    BY <2>3, <2>4, <2>5, <2>6, <2>7, <2>8, <2>9, <2>10, <2>11, <2>12, <2>13, <2>14, <2>15
    DEF Next, Firmware, Fault
<1> QED
  BY <1>2, <1>3 DEF RequestsStale
(* Every step keeps the boot of a locked chip with the block in force, or  *)
(* with the renewed one that could not be copied.                          *)
LEMMA ForceStep ==
  ASSUME IInv, BootsInForce, [Next]_vars
  PROVE  BootsInForce'
<1> USE PageOfValues DEF Goto, flash, ram
<1>0. TypeOK /\ StateKnown /\ PagesKnown /\ UpdatesSafe
  BY DEF IInv
<1>1. CASE LockedOwnerInit
  <2>1. /\ pc' \in {"nv", "repair"} /\ slot' = slot /\ pageValid' = pageValid
        /\ pageValid[0] # "Sealed" => ~IsSealed(slot[0])
    BY <1>0, <1>1, CopyFacts DEF LockedOwnerInit, PagesKnown, InSync, TypeOK
  <2> QED
    BY <2>1 DEF BootsInForce
<1>2. CASE BothSealed
  <2>1. /\ pc' = "svc" /\ UNCHANGED <<slot, page, bootdata>>
        /\ page[0] \in Blocks /\ slot[0] = Sealed(page[0])
    BY <1>0, <1>2 DEF BothSealed, PagesKnown
  <2> QED
    BY <2>1 DEF BootsInForce, Followed
<1>3. CASE RepairPage(0)
  <2>1. /\ pc = "repair" /\ pageValid[0] # "Sealed" /\ pageValid[1] = "Sealed"
        /\ pc' = "fix0" /\ slot' = slot /\ page' = [page EXCEPT ![0] = page[1]]
    BY <1>3 DEF RepairPage
  <2>2. page'[0] = page[1] /\ page'[1] = page[1]
    BY <1>0, <2>1 DEF TypeOK
  <2> QED
    BY <2>1, <2>2 DEF BootsInForce, Renews
<1>4. CASE RepairPage(1)
  <2>1. pc' = "fix1" /\ page' = [page EXCEPT ![1] = page[0]]
    BY <1>4 DEF RepairPage
  <2>2. page'[0] = page[0] /\ page'[1] = page[0]
    BY <1>0, <2>1 DEF TypeOK
  <2> QED
    BY <2>1, <2>2 DEF BootsInForce
<1>5. CASE ErasePage
  <2>1. /\ pc \in DOMAIN PageOf /\ UNCHANGED <<pc, page>> /\ PageOf[pc] \in {0, 1}
        /\ slot' = [slot EXCEPT ![PageOf[pc]] = Bad]
    BY <1>5 DEF ErasePage
  <2>2. IsSealed(slot'[0]) => slot'[0] = slot[0]
    BY <1>0, <2>1, ContentsFacts DEF TypeOK
  <2> QED
    BY <2>1, <2>2 DEF BootsInForce, Renews
<1>6. CASE WriteNewVersion
  <2>1. /\ pc = "nv" /\ pc' = "repair" /\ page' = page
        /\ slot' = [slot EXCEPT ![1] = Sealed(page[1])]
        /\ pageValid' = [pageValid EXCEPT ![0] = "Invalid", ![1] = "Sealed"]
    BY <1>6 DEF WriteNewVersion, WritePage
  <2>2. /\ slot[0] = Sealed(page[0]) /\ page[0] \in Blocks /\ page[0].owner = page[1].owner
        /\ page[1].version > page[0].version
    BY <1>0, <2>1 DEF UpdatesSafe, SameOwner, TypeOK
  <2>3. slot'[0].block = page[0] /\ pageValid'[1] = "Sealed"
    BY <1>0, <2>1, <2>2, SealedFacts DEF TypeOK
  <2>4. page[0].version \in Nat /\ page[1].version \in Nat
    BY <1>0, <2>1, <2>2, ConstantsAssumption DEF UpdatesSafe, BlockType
  <2> QED
    BY <2>1, <2>2, <2>3, <2>4 DEF BootsInForce, Renews
<1>7. CASE WriteRepair0
  <2>1. /\ pc = "fix0" /\ pc' = "svc" /\ page' = page /\ page[0] = page[1] /\ page[1] \in Blocks
        /\ slot' = [slot EXCEPT ![0] = Sealed(page[1])]
    BY <1>0, <1>7 DEF WriteRepair0, WritePage, BootsInForce, UpdatesSafe
  <2>2. slot'[0] = Sealed(page[1])
    BY <1>0, <2>1 DEF TypeOK
  <2> QED
    BY <2>1, <2>2 DEF BootsInForce, Followed
<1>8. CASE WriteRepair1
  <2>1. /\ pc = "fix1" /\ pc' = "svc" /\ page' = page /\ page[0] = page[1] /\ page[1] \in Blocks
        /\ slot[0] = Sealed(page[1])
        /\ slot' = [slot EXCEPT ![1] = Sealed(page[1])]
    BY <1>0, <1>8 DEF WriteRepair1, WritePage, BootsInForce, UpdatesSafe
  <2>2. slot'[0] = Sealed(page[1])
    BY <1>0, <2>1 DEF TypeOK
  <2> QED
    BY <2>1, <2>2 DEF BootsInForce, Followed
<1>9. CASE Boot
  <2>1. pc' = "svc" => bootdata'.state # "LockedOwner"
    BY <1>9 DEF Boot
  <2>2. pc' \in {"locked", "unlocked", "svc"}
    BY <1>9 DEF Boot
  <2> QED
    BY <2>1, <2>2 DEF BootsInForce
<1>10. CASE NeitherSealed \/ UnlockedInit \/ CommitRecovery
  BY <1>0, <1>10 DEF NeitherSealed, UnlockedInit, GoToRecovery, CommitRecovery, BootsInForce,
                     StateKnown, UnlockedStates
<1>11. CASE FlashError
  <2>1. \A i \in {0, 1} : /\ (pc \in DOMAIN PageOf => PageOf[pc] # i) => slot'[i] = slot[i]
                          /\ IsSealed(slot'[i]) => slot'[i] = slot[i]
    BY <1>0, <1>11, TornTypes DEF FlashError, UpdatesSafe
  <2>2. CASE pc = "nv"
    <3>1. pc' = "repair" /\ pageValid'[0] = "Sealed"
      BY <1>0, <1>11, <2>2 DEF FlashError, UpdatesSafe, NewVersionMode
    <3> QED
      BY <3>1 DEF BootsInForce
  <2>3. CASE pc = "fix0"
    <3>1. /\ pc' = "svc" /\ page' = page /\ page[0] = page[1] /\ page[1] \in Blocks
          /\ slot'[1] = Sealed(page[1]) /\ (IsSealed(slot'[0]) => Renews(page[1], slot'[0].block))
      BY <1>0, <1>11, <2>1, <2>3 DEF FlashError, BootsInForce, UpdatesSafe
    <3> QED
      BY <3>1 DEF BootsInForce, Followed, Renews
  <2>4. CASE pc = "fix1"
    <3>1. /\ pc' = "svc" /\ page' = page /\ page[0] = page[1] /\ page[1] \in Blocks
          /\ slot'[0] = Sealed(page[1])
      BY <1>0, <1>11, <2>1, <2>4 DEF FlashError, BootsInForce, UpdatesSafe
    <3> QED
      BY <3>1 DEF BootsInForce, Followed
  <2>5. CASE pc \notin {"nv", "fix0", "fix1"}
    BY <1>0, <1>11, <2>5 DEF FlashError, BootsInForce, StateKnown
  <2> QED
    BY <2>2, <2>3, <2>4, <2>5
<1>12. CASE UNCHANGED vars
  BY <1>12 DEF vars, BootsInForce, Followed, Renews
<1>13. ASSUME WriteActivated1 \/ NoRequest \/ Unlock \/ StartActivate \/ Refuse \/ WriteActivated0
              \/ SecretUnreadable \/ WriteSecret \/ Commit \/ Reboot \/ PowerLoss \/ Reset
              \/ EraseSecret \/ WriteOwnerPage1 \/ PostRequest
       PROVE  pc' \notin {"repair", "fix0", "fix1", "svc"}
  BY <1>13 DEF WriteActivated1, WritePage, NoRequest, Unlock, StartActivate, Refuse, WriteActivated0,
               SecretUnreadable, WriteSecret, Commit, Reboot, PowerLoss, Reset, EraseSecret,
               WriteOwnerPage1, PostRequest
<1>14. CASE pc' \notin {"repair", "fix0", "fix1", "svc"}
  BY <1>14 DEF BootsInForce
<1> QED
  BY <1>1, <1>2, <1>3, <1>4, <1>5, <1>6, <1>7, <1>8, <1>9, <1>10, <1>11, <1>12, <1>13, <1>14
  DEF Next, Firmware, Fault

(* A request is accepted by a boot that acts on the stored state, and in a *)
(* locked chip by the block in force.                                      *)
LEMMA UnlockFacts ==
  ASSUME IInv, ForceInv, Unlock
  PROVE  /\ bootdata.state = stored.state
         /\ stored.state = "LockedOwner" =>
              /\ page[0] \in Blocks /\ Followed(page[0]) /\ page[0].mode # "NewVersion"
              /\ bootdata'.state \in {"UnlockedAny", "UnlockedEndorsed"} => page[0].mode = "Open"
         /\ stored.state = "UnlockedSelf" =>
              bootdata'.state \notin {"UnlockedAny", "UnlockedEndorsed"}
<1>0. TypeOK /\ StateKnown /\ BootsInForce /\ RequestsStale
  BY DEF IInv, ForceInv
<1>1. pc = "svc" /\ IsRequest /\ MayUnlock /\ msg.nonce = bootdata.nonce
  BY DEF Unlock
<1>2. msg.nonce <= stored.nonce /\ stored.nonce \in Nat /\ bootdata.nonce \in Nat
  BY <1>0, <1>1 DEF RequestsStale, TypeOK, BootDataType
<1>3. bootdata.state = stored.state
  BY <1>0, <1>1, <1>2 DEF StateKnown, RequestsStale
<1>4. bootdata'.state = UnlockTo[msg.kind]
  BY <1>0 DEF Unlock, NewNonce, TypeOK, BootDataType
<1>5. CASE msg.kind \in {"Any", "Endorsed"}
  <2>1. \/ bootdata.state = "LockedOwner" /\ page[0].mode = "Open"
        \/ bootdata.state = "Recovery"
    BY <1>1, <1>5 DEF MayUnlock
  <2> QED
    BY <1>0, <1>1, <1>3, <2>1 DEF BootsInForce
<1>6. CASE msg.kind = "Update"
  <2>1. bootdata.state = "LockedOwner" /\ page[0].mode # "NewVersion" /\ bootdata'.state = "UnlockedSelf"
    BY <1>1, <1>4, <1>6 DEF MayUnlock, UnlockTo
  <2> QED
    BY <1>0, <1>1, <1>3, <2>1 DEF BootsInForce
<1>7. CASE msg.kind = "Abort"
  <2>1. bootdata.state \in UnlockedStates /\ bootdata'.state = "LockedOwner"
    BY <1>1, <1>4, <1>7 DEF MayUnlock, UnlockTo
  <2> QED
    BY <1>3, <2>1 DEF UnlockedStates
<1> QED
  BY <1>1, <1>5, <1>6, <1>7 DEF MayUnlock

(* Boot data about to be stored unlocks a locked chip only with the block  *)
(* in force behind it.                                                     *)
LEMMA UnlockStep ==
  ASSUME IInv, ForceInv, [Next]_vars
  PROVE  UnlockAllowed'
<1> USE DEF Goto, flash, ram
<1>0. TypeOK /\ StateKnown /\ UnlockAllowed
  BY DEF IInv, ForceInv
<1>1. CASE Unlock
  <2>1. stored' = stored /\ page' = page /\ slot' = slot
    BY <1>1 DEF Unlock
  <2> QED
    BY <1>1, <2>1, UnlockFacts DEF UnlockAllowed, Followed, Renews
<1>2. CASE WriteActivated0 \/ WriteSecret
  <2>1. stored' = stored /\ stored.state \in UnlockedStates
    BY <1>0, <1>2 DEF WriteActivated0, WriteSecret, WritePage, StateKnown, UnlockedStates
  <2>2. pc' = "commit" => Activated(0) \/ Activated(1)
    BY <1>2 DEF WriteActivated0, WriteSecret, WritePage
  <2>3. pc' = "commit" => bootdata'.state = "LockedOwner"
    BY <1>0, <2>2, NewBootDataFacts
  <2> QED
    BY <2>1, <2>3 DEF UnlockAllowed, UnlockedStates
<1>3. CASE UNCHANGED vars
  BY <1>0, <1>3 DEF vars, UnlockAllowed, Followed, Renews
<1>4. CASE pc' # "commit"
  BY <1>4 DEF UnlockAllowed
<1>5. ASSUME Next, ~Unlock, ~(WriteActivated0 \/ WriteSecret)
      PROVE  pc' # "commit"
  BY <1>5, PageOfValues DEF Next, Firmware, Fault, Boot, LockedOwnerInit, BothSealed, RepairPage,
       NeitherSealed, UnlockedInit, GoToRecovery, ErasePage, WriteNewVersion, WriteRepair0,
       WriteRepair1, WritePage, NoRequest, StartActivate, Refuse, WriteActivated1, EraseSecret,
       SecretUnreadable, WriteOwnerPage1, PostRequest, Reboot, Commit, CommitRecovery, PowerLoss,
       Reset, FlashError
<1> QED
  BY <1>1, <1>2, <1>3, <1>4, <1>5

(* The block in force of a locked chip, and every request it accepts, are  *)
(* what RAM and the stored boot data say, in every reachable state.        *)
THEOREM ForceInvariant == Spec => []ForceInv
<1>1. Init => ForceInv
  BY DEF Init, ForceInv, BootsInForce, RequestsStale, UnlockAllowed, IsRequest, Reply, RequestKinds
<1>2. IInv /\ ForceInv /\ [Next]_vars => ForceInv'
  BY ForceStep, RequestsStep, UnlockStep DEF ForceInv
<1> QED
  BY <1>1, <1>2, InductiveInvariant, PTL DEF Spec

(* Both inductive invariants, which the run ownership_versions checks:     *)
(* what ownership_init believes of the pages, and what it boots with.      *)
THEOREM OwnershipInvariant == Spec => []OwnershipInv
<1>1. IInv /\ ForceInv => OwnershipInv
  BY DEF OwnershipInv
<1> QED
  BY <1>1, InductiveInvariant, ForceInvariant, PTL

(* What the boot of a locked chip follows is sealed in a page.             *)
LEMMA FollowedSealed ==
  ASSUME NEW b \in Blocks, Followed(b)
  PROVE  \/ IsSealed(slot[0]) /\ slot[0].block = b
         \/ IsSealed(slot[1]) /\ slot[1].block = b /\ (IsSealed(slot[0]) => Renews(b, slot[0].block))
BY SealedFacts DEF Followed

(* In the modes other than Open no request and no update gives the chip to *)
(* another owner (UnlockKeyLimited), for all owners, blocks and faults.    *)
THEOREM UnlockKeyIsLimited == Spec => UnlockKeyLimited
<1> DEFINE Limited ==
      /\ stored.state \in {"LockedOwner", "UnlockedSelf"}
      /\ AnySealed
      /\ \A i \in {0, 1} : IsSealed(slot[i]) => slot[i].block.mode # "Open"
<1>1. ASSUME IInv, ForceInv, [Next]_vars, Limited
      PROVE  stored'.state \notin {"UnlockedAny", "UnlockedEndorsed"}
  <2>0. UnlockAllowed /\ StateKnown
    BY <1>1 DEF ForceInv, IInv
  <2>1. CASE Commit
    <3>1. pc = "commit" /\ stored' = bootdata
      BY <2>1 DEF Commit
    <3>2. CASE stored.state = "LockedOwner"
      BY <1>1, <2>0, <3>1, <3>2, FollowedSealed DEF UnlockAllowed
    <3> QED
      BY <1>1, <2>0, <3>1, <3>2 DEF UnlockAllowed
  <2>2. CASE CommitRecovery
    BY <2>0, <2>2 DEF CommitRecovery, StateKnown
  <2> QED
    BY <1>1, <2>1, <2>2, StoredNonceGrows
<1>2. ASSUME IInv, [Next]_vars, Limited,
             NEW i \in {0, 1}, NEW j \in {0, 1}, IsSealed(slot[i]), IsSealed(slot'[j])
      PROVE  \E k \in {0, 1} : IsSealed(slot[k]) /\ slot[k].block.owner = slot'[j].block.owner
  <2>1. CASE slot'[j] = slot[j]
    BY <1>2, <2>1
  <2>2. CASE slot'[j] # slot[j]
    <3>1. WriteNewVersion \/ WriteRepair0 \/ WriteRepair1 \/ WriteActivated1 \/ WriteActivated0
      BY <1>2, <2>2, OtherStepsSealNothing, PagesUntouched DEF vars
    <3>2. pc \in DOMAIN PageOf /\ slot'[j] = Sealed(page[1])
      BY <1>2, <2>2, <3>1, UpdateSealsPage
    <3>3. page[1] \in Blocks /\ MayBeSealed(page[1]) /\ slot'[j].block = page[1]
      BY <1>2, <3>2, UpdateAuthorised, SealedFacts
    <3> QED
      BY <1>2, <3>3, SealedFacts DEF MayBeSealed
  <2> QED
    BY <2>1, <2>2
<1>3. IInv /\ ForceInv /\ [Next]_vars =>
        [Limited => /\ stored'.state \notin {"UnlockedAny", "UnlockedEndorsed"}
                    /\ \A i, j \in {0, 1} :
                         IsSealed(slot[i]) /\ IsSealed(slot'[j]) => \E k \in {0, 1} :
                           IsSealed(slot[k]) /\ slot[k].block.owner = slot'[j].block.owner]_vars
  BY <1>1, <1>2
<1> QED
  BY <1>3, InductiveInvariant, ForceInvariant, PTL DEF UnlockKeyLimited, Spec

(* In a locked chip the pages change only so that the block in force stays *)
(* or is renewed.                                                          *)
LEMMA ForceRenewed ==
  ASSUME IInv, ForceInv, [Next]_vars, stored.state = "LockedOwner", IsSealed(InForce)
  PROVE  /\ IsSealed(InForce')
         /\ InForce' = InForce \/ Renews(InForce'.block, InForce.block)
<1>0. TypeOK /\ StateKnown /\ PagesKnown /\ UpdatesSafe /\ BootsInForce
  BY DEF IInv, ForceInv
<1>1. CASE slot' = slot
  BY <1>1 DEF InForce
<1>2. CASE slot' # slot /\ pc \in DOMAIN PageOf
  <2>0. pc \in {"nv", "fix0", "fix1"}
    BY <1>0, <1>2, PageOfValues DEF StateKnown, UnlockedStates
  <2>1. \A i \in {0, 1} : PageOf[pc] # i => slot'[i] = slot[i]
    <3>1. CASE WriteNewVersion \/ WriteRepair0 \/ WriteRepair1 \/ WriteActivated1 \/ WriteActivated0
      BY <3>1, UpdateSealsPage
    <3>2. CASE ErasePage \/ Fault
      BY <1>2, <3>2, OtherStepsSealNothing
    <3>3. ~WriteOwnerPage1
      BY <1>2, PageOfValues DEF WriteOwnerPage1
    <3> QED
      BY <1>2, <3>1, <3>2, <3>3, PagesUntouched DEF vars
  <2>2. \A i \in {0, 1} : IsSealed(slot'[i]) => slot'[i] = slot[i] \/ slot'[i] = Sealed(page[1])
    <3>1. CASE WriteNewVersion \/ WriteRepair0 \/ WriteRepair1 \/ WriteActivated1 \/ WriteActivated0
      BY <3>1, UpdateSealsPage
    <3>2. CASE ErasePage \/ WriteOwnerPage1 \/ Fault
      BY <3>2, OtherStepsSealNothing
    <3> QED
      BY <1>2, <3>1, <3>2, PagesUntouched DEF vars
  <2>3. CASE pc = "nv"
    <3>1. page[0] \in Blocks /\ slot'[0] = Sealed(page[0]) /\ slot[0] = Sealed(page[0])
      BY <1>0, <2>1, <2>3, PageOfValues DEF UpdatesSafe, SameOwner, TypeOK
    <3> QED
      BY <3>1, SealedFacts DEF InForce
  <2>4. CASE pc = "fix1"
    <3>1. page[1] \in Blocks /\ slot'[0] = Sealed(page[1]) /\ slot[0] = Sealed(page[1])
      BY <1>0, <2>1, <2>4, PageOfValues DEF UpdatesSafe
    <3> QED
      BY <3>1, SealedFacts DEF InForce
  <2>5. CASE pc = "fix0"
    <3>1. page[1] \in Blocks /\ slot'[1] = Sealed(page[1]) /\ slot[1] = Sealed(page[1])
      BY <1>0, <2>1, <2>5, PageOfValues DEF UpdatesSafe
    <3>2. IsSealed(slot[0]) => Renews(page[1], slot[0].block)
      BY <1>0, <2>5 DEF BootsInForce
    <3>3. IsSealed(Sealed(page[1])) /\ Sealed(page[1]).block = page[1]
      BY <3>1, SealedFacts
    <3>4. IsSealed(slot'[0]) => slot'[0] = slot[0] \/ slot'[0] = Sealed(page[1])
      BY <2>2
    <3> QED
      BY <3>1, <3>2, <3>3, <3>4 DEF InForce
  <2> QED
    BY <2>0, <2>3, <2>4, <2>5
<1>3. CASE slot' # slot /\ pc \notin DOMAIN PageOf
  <2>1. CASE ErasePage \/ Fault
    <3>1. slot'[0] = slot[0] /\ slot'[1] = slot[1]
      BY <1>3, <2>1, OtherStepsSealNothing
    <3> QED
      BY <3>1 DEF InForce
  <2>2. CASE WriteOwnerPage1
    <3>1. IsSealed(slot[0])
      BY <1>0, <2>2 DEF WriteOwnerPage1, NewVersionMode, PagesKnown, StateKnown, UnlockedStates
    <3>2. slot'[0] = slot[0]
      BY <2>2, OtherStepsSealNothing
    <3> QED
      BY <3>1, <3>2 DEF InForce
  <2> QED
    BY <1>3, <2>1, <2>2, UpdateSealsPage, PagesUntouched DEF vars
<1> QED
  BY <1>1, <1>2, <1>3

(* Nothing rolls a chip in NewVersion mode back (NeverRollsBack): it stays *)
(* locked, with the same owner and a version that never decreases.         *)
THEOREM RollbackNever == Spec => NeverRollsBack
<1>1. ASSUME IInv, ForceInv, [Next]_vars, NewVersionInForce
      PROVE  /\ stored'.state = "LockedOwner"
             /\ IsSealed(InForce')
             /\ InForce'.block.owner = InForce.block.owner
             /\ InForce'.block.version >= InForce.block.version
  <2>0. /\ TypeOK /\ StateKnown /\ UnlockAllowed
        /\ stored.state = "LockedOwner" /\ IsSealed(InForce)
    BY <1>1 DEF IInv, ForceInv, NewVersionInForce
  <2>1. IsSealed(InForce') /\ (InForce' = InForce \/ Renews(InForce'.block, InForce.block))
    BY <1>1, <2>0, ForceRenewed
  <2>2. InForce.block \in Blocks /\ InForce'.block \in Blocks
    <3>1. TypeOK'
      BY <1>1, TypeStep
    <3>2. InForce \in Contents /\ InForce' \in Contents
      BY <2>0, <3>1 DEF InForce, TypeOK
    <3>3. InForce # Bad /\ InForce' # Bad
      BY <2>0, <2>1 DEF IsSealed
    <3> QED
      BY <3>2, <3>3, CopyFacts
  <2>3. InForce.block.version \in Nat /\ InForce'.block.version \in Nat
    BY <2>2, ConstantsAssumption DEF BlockType
  <2>4. stored'.state = "LockedOwner"
    <3>1. ~Commit
      <4>1. SUFFICES ASSUME Commit
                     PROVE  FALSE
        OBVIOUS
      <4>2. page[0] \in Blocks /\ Followed(page[0]) /\ page[0].mode # "NewVersion"
        BY <2>0, <4>1 DEF Commit, UnlockAllowed
      <4>3. page[0].version \in Nat
        BY <4>2, ConstantsAssumption DEF BlockType
      <4>4. CASE IsSealed(slot[0]) /\ slot[0].block = page[0]
        BY <1>1, <4>2, <4>4 DEF InForce, NewVersionInForce
      <4>5. CASE /\ IsSealed(slot[1]) /\ slot[1].block = page[0]
                 /\ IsSealed(slot[0]) => Renews(page[0], slot[0].block)
        <5>1. CASE IsSealed(slot[0])
          <6>1. InForce = slot[0]
            BY <5>1 DEF InForce
          <6>2. page[0].version <= InForce.block.version
            BY <1>1, <4>2, <4>5 DEF NewVersionInForce
          <6> QED
            BY <2>3, <4>3, <4>5, <5>1, <6>1, <6>2 DEF Renews
        <5>2. CASE ~IsSealed(slot[0])
          BY <1>1, <4>2, <4>5, <5>2 DEF InForce, NewVersionInForce
        <5> QED
          BY <5>1, <5>2
      <4> QED
        BY <4>2, <4>4, <4>5, FollowedSealed
    <3>2. ~CommitRecovery
      BY <2>0 DEF CommitRecovery, StateKnown, AnySealed, InForce
    <3> QED
      BY <1>1, <2>0, <3>1, <3>2, StoredNonceGrows
  <2> QED
    BY <2>1, <2>3, <2>4 DEF Renews
<1>2. IInv /\ ForceInv /\ [Next]_vars =>
        [NewVersionInForce
           => /\ stored'.state = "LockedOwner"
              /\ IsSealed(InForce')
              /\ InForce'.block.owner = InForce.block.owner
              /\ InForce'.block.version >= InForce.block.version]_vars
  BY <1>1
<1> QED
  BY <1>2, InductiveInvariant, ForceInvariant, PTL DEF NeverRollsBack, Spec
-----------------------------------------------------------------------------
(* The hash chain of the OwnerSecret page.                                 *)

(* A page that a transfer does not touch keeps serving its owner, who may  *)
(* now be entered as one the chip has been locked to.                      *)
LEMMA StillServed ==
  ASSUME Served(slot[0].block.owner), secret' = secret, slot'[0] = slot[0],
         tenants' \subseteq tenants \cup {slot'[0].block.owner}
  PROVE  Served(slot[0].block.owner)'
BY DEF Served

(* Without a fault every step keeps the owners before the one that is      *)
(* served in the hash chain.                                               *)
LEMMA ServedStep ==
  ASSUME IInv, ForceInv, Page0Served, TransferServed, Next, ~Fault,
         tenants' = IF pc' = "app" /\ stored'.state = "LockedOwner" /\ IsSealed(slot'[0])
                    THEN tenants \cup {slot'[0].block.owner} ELSE tenants
  PROVE  Page0Served' /\ TransferServed'
<1> USE PageOfValues DEF Goto, flash, ram
<1>0. TypeOK /\ StateKnown /\ PagesKnown /\ UpdatesSafe /\ BootsInForce
  BY DEF IInv, ForceInv
<1> DEFINE Transfer == {"act1", "act0", "secret", "fix0"}
<1>1. /\ tenants' \subseteq tenants \cup {slot'[0].block.owner}
      /\ pc' # "app" => tenants' = tenants
  OBVIOUS
<1>2. CASE pc \notin Transfer /\ pc' \notin Transfer /\ slot'[0] = slot[0] /\ secret' = secret
  <2>1. IsSealed(slot[0]) /\ Served(slot[0].block.owner)
    BY <1>2 DEF Page0Served
  <2>2. Served(slot[0].block.owner)'
    BY <1>1, <1>2, <2>1, StillServed
  <2> QED
    BY <1>2, <2>1, <2>2 DEF Page0Served, TransferServed
<1>3. CASE Boot \/ LockedOwnerInit \/ BothSealed \/ RepairPage(1) \/ NeitherSealed \/ UnlockedInit
  BY <1>2, <1>3 DEF Boot, LockedOwnerInit, BothSealed, RepairPage, NeitherSealed, UnlockedInit,
                    GoToRecovery
<1>4. CASE WriteNewVersion \/ WriteRepair1
  <2>1. slot'[0] = slot[0]
    BY <1>0, <1>4 DEF WriteNewVersion, WriteRepair1, WritePage, TypeOK
  <2> QED
    BY <1>2, <1>4, <2>1 DEF WriteNewVersion, WriteRepair1, WritePage
<1>5. CASE NoRequest \/ Unlock \/ Refuse \/ Commit \/ CommitRecovery \/ PostRequest \/ Reboot
  BY <1>2, <1>5 DEF NoRequest, Unlock, Refuse, Commit, CommitRecovery, PostRequest, Reboot
<1>6. CASE WriteOwnerPage1
  <2>1. slot'[0] = slot[0]
    BY <1>0, <1>6 DEF WriteOwnerPage1, TypeOK
  <2> QED
    BY <1>2, <1>6, <2>1 DEF WriteOwnerPage1
<1>7. CASE RepairPage(0)
  <2>1. /\ pc = "repair" /\ pageValid[0] # "Sealed" /\ pc' = "fix0" /\ erased' = FALSE
        /\ page' = [page EXCEPT ![0] = page[1]] /\ slot' = slot /\ secret' = secret
    BY <1>7 DEF RepairPage
  <2>2. IsSealed(slot[0]) /\ Served(slot[0].block.owner) /\ slot[0].block.owner = page[1].owner
    BY <1>0, <2>1 DEF Page0Served, BootsInForce, Renews
  <2>3. page'[1] = page[1]
    BY <1>0, <2>1 DEF TypeOK
  <2> QED
    BY <1>1, <2>1, <2>2, <2>3 DEF Page0Served, TransferServed, Served
<1>8. CASE ErasePage
  <2>1. /\ pc \in DOMAIN PageOf /\ ~erased /\ erased' = TRUE
        /\ slot' = [slot EXCEPT ![PageOf[pc]] = Bad]
        /\ UNCHANGED <<secret, bootdata, page, chain, pc>>
    BY <1>8 DEF ErasePage
  <2>2. CASE pc \in {"nv", "fix1"}
    <3>1. slot'[0] = slot[0]
      BY <1>0, <2>1, <2>2 DEF TypeOK
    <3> QED
      BY <1>2, <2>1, <2>2, <3>1
  <2>3. CASE pc = "act1"
    <3>1. slot'[0] = slot[0]
      BY <1>0, <2>1, <2>3 DEF TypeOK
    <3> QED
      BY <1>1, <2>1, <2>3, <3>1 DEF Page0Served, TransferServed, Served
  <2>4. CASE pc \in {"fix0", "act0"}
    BY <1>1, <2>1, <2>4 DEF Page0Served, TransferServed, Served
  <2> QED
    BY <2>1, <2>2, <2>3, <2>4
<1>9. CASE WriteRepair0
  <2>1. /\ pc = "fix0" /\ pc' = "svc" /\ page' = page /\ secret' = secret
        /\ page[1] \in Blocks /\ slot' = [slot EXCEPT ![0] = Sealed(page[1])]
    BY <1>0, <1>9 DEF WriteRepair0, WritePage, UpdatesSafe
  <2>2. IsSealed(slot'[0]) /\ slot'[0].block = page[1]
    BY <1>0, <2>1, SealedFacts DEF TypeOK
  <2> QED
    BY <1>1, <2>1, <2>2 DEF Page0Served, TransferServed, Served
<1>10. CASE StartActivate
  <2>1. /\ pc = "svc" /\ bootdata.state \in UnlockedStates /\ Page1ValidForTransfer
        /\ pc' = "act1" /\ UNCHANGED <<slot, secret, page>>
        /\ chain' = (IF page[0] = Bad THEN {} ELSE {page[0].owner})
    BY <1>10 DEF StartActivate, MayActivate
  <2>2. IsSealed(slot[0]) /\ Served(slot[0].block.owner)
    BY <2>1 DEF Page0Served
  <2>3. page[0] \in Blocks /\ slot[0].block = page[0]
    BY <1>0, <2>1, <2>2, CopyFacts DEF PagesKnown, InSync, TypeOK
  <2>4. page[0] # Bad
    BY <2>3, ConstantsAssumption
  <2>5. bootdata'.state = bootdata.state
    BY <1>0, <1>10, ResetMinSecFacts DEF StartActivate, MayActivate, KeyValid, TypeOK
  <2>6. bootdata.state = "UnlockedSelf" => page[0].owner = page[1].owner
    BY <2>1 DEF Page1ValidForTransfer, SameOwner
  <2> QED
    BY <1>1, <2>1, <2>2, <2>3, <2>4, <2>5, <2>6 DEF Page0Served, TransferServed, Served
<1>11. CASE WriteActivated1
  <2>1. /\ pc = "act1" /\ pc' = "act0" /\ erased' = FALSE
        /\ UNCHANGED <<secret, bootdata, page, chain>>
        /\ slot' = [slot EXCEPT ![1] = Sealed(page[1])]
    BY <1>11 DEF WriteActivated1, WritePage
  <2>2. slot'[0] = slot[0] /\ IsSealed(slot[0])
    BY <1>0, <2>1 DEF TypeOK, Page0Served
  <2> QED
    BY <1>1, <2>1, <2>2 DEF Page0Served, TransferServed, Served
<1>12. CASE WriteActivated0
  <2>1. /\ pc = "act0" /\ UNCHANGED <<secret, page, chain>> /\ page[1] \in Blocks
        /\ slot' = [slot EXCEPT ![0] = Sealed(page[1])] /\ erased' = FALSE
        /\ IF bootdata.state = "UnlockedSelf" THEN pc' = "commit" ELSE pc' = "secret"
    BY <1>0, <1>12 DEF WriteActivated0, WritePage, UpdatesSafe
  <2>2. IsSealed(slot'[0]) /\ slot'[0].block = page[1]
    BY <1>0, <2>1, SealedFacts DEF TypeOK
  <2>3. /\ Served(page[0].owner) /\ chain = {page[0].owner}
        /\ bootdata.state = "UnlockedSelf" => page[0].owner = page[1].owner
    BY <2>1 DEF TransferServed
  <2> QED
    BY <1>1, <2>1, <2>2, <2>3 DEF Page0Served, TransferServed, Served
<1>13. CASE EraseSecret
  <2>1. /\ pc = "secret" /\ ~erased /\ pc' = "secret" /\ erased' = TRUE /\ slot' = slot
        /\ chain' = (IF secret = Bad THEN chain ELSE chain \cup secret)
    BY <1>13 DEF EraseSecret
  <2> QED
    BY <1>1, <2>1 DEF Page0Served, TransferServed
<1>14. CASE SecretUnreadable
  BY <1>14 DEF SecretUnreadable, TransferServed
<1>15. CASE WriteSecret
  <2>1. /\ pc = "secret" /\ erased /\ pc' = "commit" /\ slot' = slot /\ secret' = chain
    BY <1>15 DEF WriteSecret
  <2>2. chain # Bad
    BY <1>0, ConstantsAssumption DEF TypeOK
  <2> QED
    BY <1>1, <2>1, <2>2 DEF Page0Served, TransferServed, Served
<1> QED
  BY <1>3, <1>4, <1>5, <1>6, <1>7, <1>8, <1>9, <1>10, <1>11, <1>12, <1>13, <1>14, <1>15
  DEF Next, Firmware

(* A chip that no fault has interrupted is served by a complete hash       *)
(* chain, through every step of every update and transfer.                 *)
THEOREM HistoryInvariant == HSpec => []HistoryInv
<1> DEFINE hvars == <<vars, tenants, interruptions>>
<1>1. HSpec => [](IInv /\ ForceInv)
  <2>1. HInit => Init
    BY DEF HInit
  <2>2. [HNext]_hvars => [Next]_vars
    BY DEF HNext
  <2> QED
    BY <2>1, <2>2, InductiveInvariant, ForceInvariant, PTL DEF HSpec, Spec
<1>2. HInit => HistoryInv
  <2> SUFFICES ASSUME HInit
               PROVE  HistoryInv
    OBVIOUS
  <2>1. PICK b \in Blocks : slot = [i \in {0, 1} |-> Sealed(b)]
    BY DEF HInit, Init
  <2>2. IsSealed(slot[0])
    BY <2>1, SealedFacts
  <2>3. tenants = {} /\ interruptions = 0 /\ secret = {} /\ pc = "off"
    BY DEF HInit, Init
  <2>4. secret # Bad
    BY <2>3, ConstantsAssumption
  <2> QED
    BY <2>2, <2>3, <2>4 DEF HistoryInv, Page0Served, TransferServed, Served
<1>3. ASSUME IInv, ForceInv, HistoryInv, [HNext]_hvars
      PROVE  HistoryInv'
  <2>1. CASE HNext
    <3>1. /\ interruptions' \in Nat
          /\ interruptions' = 0 => ~Fault /\ interruptions = 0
      BY <1>3, <2>1 DEF HNext, HistoryInv
    <3>2. interruptions' = 0 => Page0Served' /\ TransferServed'
      BY <1>3, <2>1, <3>1, ServedStep DEF HNext, HistoryInv
    <3> QED
      BY <3>1, <3>2 DEF HistoryInv
  <2>2. CASE UNCHANGED hvars
    BY <1>3, <2>2 DEF vars, HistoryInv, Page0Served, TransferServed, Served
  <2> QED
    BY <1>3, <2>1, <2>2
<1> QED
  BY <1>1, <1>2, <1>3, PTL DEF HSpec

(* Every transfer regenerates the OwnerSecret page: on a chip that no      *)
(* fault has interrupted the hash chain contains all owners before the one *)
(* it is locked to (HistoryUninterrupted), over any number of transfers.   *)
THEOREM HashChainComplete == HSpec => []HistoryUninterrupted
<1>1. HistoryInv => HistoryUninterrupted
  BY DEF HistoryInv, HistoryUninterrupted, HistoryComplete, Page0Served, Served
<1> QED
  BY <1>1, HistoryInvariant, PTL
=============================================================================
