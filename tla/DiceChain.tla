----------------------------- MODULE DiceChain -----------------------------
(***************************************************************************)
(* The certificate chain of the boot stages (lib/cert/dice_chain.c): one   *)
(* RAM buffer caches a flash page, certificates that do not match the keys *)
(* of this boot are replaced in it, and it is sealed and written back      *)
(* before the owner runs.  Power may be lost, and flash may fail, at any   *)
(* point.  A certificate is one object of a page; its key stands for the   *)
(* public key and the serial number derived from it.                       *)
(***************************************************************************)
EXTENDS Integers, Sequences

CONSTANTS
  RomExts, Owners,  (* Measurements of ROM_EXT images, and of owner stages. *)
  MaxFaults         (* Bound: power cuts, flash errors, corruptions and     *)
                    (* boots that find something left in RAM.               *)

VARIABLES
  flash,    (* The pages FactoryCerts and DiceCerts.                       *)
  chain,    (* The static variable dice_chain.                             *)
  static,   (* static_dice_cdi_0, and the key held for endorsements.       *)
  firmware, (* The ROM_EXT and the owner stage that boot.                  *)
  pc,       (* The step of the boot.                                       *)
  faults    (* Faults so far.                                              *)

vars == <<flash, chain, static, firmware, pc, faults>>

UdsKey == <<"uds">>
Cdi0Key == <<"cdi_0", firmware.rom_ext>>
Cdi1Key == <<"cdi_1", firmware.rom_ext, firmware.owner>>

(* A certificate: what it is about, the issuer it names, the key that      *)
(* signed it, and whether its bytes are all there.                         *)
Cert(name, key, by, signer) ==
  [name |-> name, key |-> key, by |-> by, signer |-> signer, whole |-> TRUE]
NoCert == Cert("none", <<>>, <<>>, <<>>)
UdsCert == Cert("UDS", UdsKey, <<"ca">>, <<"ca">>)

(* The digest at the end of a page either matches its data or not.         *)
Page(objs, sealed) == [objs |-> objs, sealed |-> sealed]
BlankPage == Page(<<>>, FALSE)
Cdi0Cert(r) == Cert("CDI_0", <<"cdi_0", r>>, UdsKey, UdsKey)
Cdi1Cert(r, o) == Cert("CDI_1", <<"cdi_1", r, o>>, <<"cdi_0", r>>, <<"cdi_0", r>>)
Endorses(c, r, o) == <<c, Cdi1Cert(r, o)>>
ChainOf(r, o) == Endorses(Cdi0Cert(r), r, o)

(* What static_dice_cdi_0 may hold when a boot starts: its section is not  *)
(* loaded and nothing clears it.  If the size is not zero, the bytes go    *)
(* for a CDI_0 certificate: one of an earlier boot, or with no key at all. *)
LeftCert(key) == Cert("CDI_0", key, <<"left">>, <<"left">>)
LeftCerts == {LeftCert(key) : key \in {<<>>} \cup {<<"cdi_0", r>> : r \in RomExts}}

(* What an erase or a write that does not end leaves: some of the objects, *)
(* the last one perhaps cut, without their digest.                         *)
Torn(p) ==
  {Page(SubSeq(p.objs, 1, n), FALSE) : n \in 0..Len(p.objs)}
  \cup {Page([SubSeq(p.objs, 1, n) EXCEPT ![n].whole = FALSE], FALSE) : n \in 1..Len(p.objs)}
-----------------------------------------------------------------------------
(* dice_chain_init.                                                        *)
NoChain == [info |-> "none", page |-> BlankPage, dirty |-> FALSE, tail |-> 0,
            obj |-> NoCert, valid |-> FALSE, endorsement |-> <<>>]

(* dice_chain_seal_page, and the write that follows it.                    *)
SealPage(c) == [c EXCEPT !.page.sealed = TRUE]
Written(f, c) == [f EXCEPT ![c.info] = SealPage(c).page]

(* dice_chain_load_flash: the page that is buffered is kept; another page  *)
(* is written before its buffer is reused.                                 *)
Flushed(f, c) == IF c.dirty /\ c.info # "none" THEN Written(f, c) ELSE f
LoadFlash(f, c, info) ==
  IF c.info = info THEN [c EXCEPT !.tail = 0]
  ELSE [c EXCEPT !.info = info, !.page = Flushed(f, c)[info], !.dirty = FALSE,
                 !.tail = 0, !.obj = NoCert, !.valid = FALSE]

(* dice_chain_load_cert_obj: the object at the tail is valid when it has   *)
(* the name and the key; the rest of its bytes is not looked at.           *)
LoadCertObj(c, name, key) ==
  LET obj == IF c.tail < Len(c.page.objs) THEN c.page.objs[c.tail + 1] ELSE NoCert
  IN  [c EXCEPT !.obj = obj, !.valid = obj.name = name /\ obj.key = key]

NextCertObj(c) == [c EXCEPT !.tail = @ + 1, !.obj = NoCert, !.valid = FALSE]

(* dice_chain_skip_cert_obj.                                               *)
SkipCertObj(c, name) ==
  LET d == LoadCertObj(c, "none", <<>>)
  IN  IF d.obj.name = name THEN NextCertObj(d) ELSE d

(* dice_chain_push_cert: what follows the tail is dropped.                 *)
PushCert(c, cert) ==
  NextCertObj([c EXCEPT !.dirty = TRUE,
                        !.page = Page(SubSeq(c.page.objs, 1, c.tail) \o <<cert>>, FALSE)])
-----------------------------------------------------------------------------
(* imm_section_start: dice_chain_attestation_silicon saves the UDS key for *)
(* endorsements; dice_chain_attestation_creator builds a certificate for a *)
(* new CDI_0 key in RAM, and saves the CDI_0 key.  Otherwise the size that *)
(* says "CDI_0 was rebuilt" stays what it was, zero or not.                *)
ImmSection ==
  /\ pc = "imm"
  /\ LET c == LoadCertObj(LoadFlash(flash, NoChain, "dice"), "CDI_0", Cdi0Key)
     IN  /\ chain' = c
         /\ \E left \in {NoCert} \cup IF c.valid THEN LeftCerts ELSE {} :
              /\ IF left = NoCert THEN UNCHANGED faults
                 ELSE faults < MaxFaults /\ faults' = faults + 1
              /\ static' = IF c.valid THEN [new |-> left # NoCert, saved |-> Cdi0Key, cert |-> left]
                           ELSE [new |-> TRUE, saved |-> Cdi0Key, cert |-> Cdi0Cert(firmware.rom_ext)]
  /\ pc' = "check"
  /\ UNCHANGED <<flash, firmware>>

(* dice_chain_seal_page_check.                                             *)
SealPageCheckNone(c) == TRUE
SealPageCheck(c) == c.page.sealed

(* Mutant: a corrupted page is only reported.                              *)
RomExtCheckReports ==
  /\ pc = "check"
  /\ LET c == LoadFlash(flash, LoadFlash(flash, NoChain, "factory"), "dice")
     IN  /\ chain' = c
         /\ pc' = IF SealPageCheck(c) \/ static.new THEN "update" ELSE "off"
  /\ UNCHANGED <<flash, static, firmware, faults>>

(* dice_chain_rom_ext_check: a corrupted factory page is only reported; a  *)
(* corrupted page of device certificates is cleared.                       *)
RomExtCheck ==
  /\ pc = "check"
  /\ LET c == LoadFlash(flash, LoadFlash(flash, NoChain, "factory"), "dice")
     IN  IF SealPageCheck(c) THEN chain' = c /\ pc' = "update"
         ELSE /\ chain' = [c EXCEPT !.page = BlankPage, !.dirty = TRUE]
              /\ pc' = "clear"
  /\ UNCHANGED <<flash, static, firmware, faults>>

(* dice_chain_attestation_check_uds, which only reports, and               *)
(* dice_chain_attestation_check_cdi_0.                                     *)
CheckUds(c) ==
  LoadCertObj([LoadFlash(flash, c, "factory") EXCEPT !.endorsement = UdsKey], "UDS", UdsKey)
CheckCdi0(c) ==
  LET d == [LoadFlash(flash, c, "dice") EXCEPT !.endorsement = Cdi0Key]
  IN  IF static.new THEN PushCert(d, static.cert) ELSE SkipCertObj(d, "CDI_0")

Update ==
  /\ pc = "update"
  /\ chain' = CheckCdi0(CheckUds(chain))
  /\ pc' = "attest"
  /\ UNCHANGED <<flash, static, firmware, faults>>

(* A boot that takes for its CDI_0 certificate what was left in RAM.  It   *)
(* fails if that is longer than the page.                                  *)
Misled == static.new /\ static.cert \in LeftCerts
TooLong ==
  /\ pc = "update"
  /\ Misled
  /\ pc' = "off"
  /\ UNCHANGED <<flash, chain, static, firmware, faults>>

(* dice_chain_attestation_owner.                                           *)
AttestOwner ==
  /\ pc = "attest"
  /\ LET c == LoadCertObj(chain, "CDI_1", Cdi1Key)
         cert == Cert("CDI_1", Cdi1Key, c.endorsement, static.saved)
         d == IF c.valid THEN NextCertObj(c) ELSE PushCert(c, cert)
     IN  /\ chain' = [d EXCEPT !.endorsement = Cdi1Key]
         /\ pc' = IF d.dirty THEN "save" ELSE "owner"
  /\ static' = [static EXCEPT !.saved = Cdi1Key]
  /\ UNCHANGED <<flash, firmware, faults>>

(* dice_chain_flush_flash, when there is something to write.               *)
Flushing == pc \in {"clear", "cleared", "save", "saved"}
Erase ==
  /\ pc \in {"clear", "save"}
  /\ chain' = SealPage(chain)
  /\ flash' = [flash EXCEPT ![chain.info] = BlankPage]
  /\ pc' = IF pc = "clear" THEN "cleared" ELSE "saved"
  /\ UNCHANGED <<static, firmware, faults>>

(* After a clear the boot goes on if CDI_0 was rebuilt, and fails          *)
(* otherwise, which resets the chip.                                       *)
Write ==
  /\ pc \in {"cleared", "saved"}
  /\ flash' = Written(flash, chain)
  /\ chain' = [chain EXCEPT !.dirty = FALSE]
  /\ pc' = CASE pc = "saved" -> "owner"
             [] pc = "cleared" /\ static.new -> "update"
             [] OTHER -> "off"
  /\ UNCHANGED <<static, firmware, faults>>
-----------------------------------------------------------------------------
NoStatic == [new |-> FALSE, saved |-> UdsKey, cert |-> NoCert]

(* The chip starts with empty RAM.                                         *)
Start ==
  /\ pc = "off"
  /\ pc' = "imm"
  /\ chain' = NoChain /\ static' = NoStatic
  /\ UNCHANGED <<flash, firmware, faults>>

(* A running owner may have a new image installed and resets.              *)
OwnerResets ==
  /\ pc = "owner"
  /\ pc' = "off"
  /\ \E r \in RomExts, o \in Owners : firmware' = [rom_ext |-> r, owner |-> o]
  /\ UNCHANGED <<flash, chain, static, faults>>

Fault == faults < MaxFaults /\ faults' = faults + 1 /\ UNCHANGED <<static, firmware, chain>>

(* Power is lost, or an erase or a write fails, which ends the boot.       *)
Interrupted ==
  /\ Fault
  /\ pc # "off"
  /\ pc' = "off"
  /\ \/ ~Flushing /\ UNCHANGED flash
     \/ /\ pc \in {"clear", "save"}
        /\ \E p \in Torn(flash[chain.info]) : flash' = [flash EXCEPT ![chain.info] = p]
     \/ /\ pc \in {"cleared", "saved"}
        /\ \E p \in Torn(chain.page) : flash' = [flash EXCEPT ![chain.info] = p]

(* A page loses data at rest.                                              *)
Corrupts ==
  /\ Fault
  /\ pc = "off"
  /\ \E info \in DOMAIN flash : \E p \in Torn(flash[info]) :
       flash' = [flash EXCEPT ![info] = p]
  /\ UNCHANGED pc

Init ==
  /\ firmware \in [rom_ext : RomExts, owner : Owners]
  /\ \E r \in RomExts, o \in Owners :
       flash \in [factory : {Page(<<UdsCert>>, TRUE)},
                 dice : {BlankPage, Page(ChainOf(r, o), TRUE)}]
  /\ chain = NoChain /\ static = NoStatic
  /\ pc = "off"
  /\ faults = 0

Boot == Start \/ ImmSection \/ RomExtCheck \/ Update \/ TooLong \/ AttestOwner \/ Erase \/ Write
Next == Boot \/ OwnerResets \/ Interrupted \/ Corrupts
Spec == Init /\ [][Next]_vars
FairSpec == Spec /\ WF_vars(Boot) /\ WF_vars(OwnerResets)
-----------------------------------------------------------------------------
(* Certificates, whole or cut: each names the key that signed it.          *)
Keys == {<<>>, <<"ca">>, <<"left">>, UdsKey} \cup {<<"cdi_0", r>> : r \in RomExts}
        \cup {<<"cdi_1", r, o>> : r \in RomExts, o \in Owners}
Certificates ==
  {c \in [name : {"none", "UDS", "CDI_0", "CDI_1"}, key : Keys, by : Keys, signer : Keys,
          whole : BOOLEAN] : c.by = c.signer}
Pages == {p \in [objs : Seq(Certificates), sealed : BOOLEAN] : Len(p.objs) <= 2}

ChainType == [info : {"none", "factory", "dice"}, page : Pages, dirty : BOOLEAN, tail : 0..2,
              obj : Certificates, valid : BOOLEAN, endorsement : Keys]

TypeOK ==
  /\ flash \in [factory : Pages, dice : Pages]
  /\ chain \in ChainType
  /\ static \in [new : BOOLEAN, saved : Keys, cert : Certificates]
  /\ firmware \in [rom_ext : RomExts, owner : Owners]
  /\ pc \in {"off", "imm", "check", "clear", "cleared", "update", "attest", "save", "saved", "owner"}

OwnChain == Page(ChainOf(firmware.rom_ext, firmware.owner), TRUE)

(* The CDI_0 certificates that can endorse the owner: that of this boot,   *)
(* or, in a misled boot and where the key happens to be the same, what a   *)
(* misled boot stored.                                                     *)
Issuers ==
  {Cdi0Cert(firmware.rom_ext)} \cup {c \in LeftCerts : Misled \/ c.key = Cdi0Key}
OwnChains == {Page(Endorses(c, firmware.rom_ext, firmware.owner), TRUE) : c \in Issuers}

(* When the owner runs, its page holds a sealed chain from the UDS to the  *)
(* key of this owner on this ROM_EXT, every certificate whole and signed   *)
(* by the stage before, whatever was interrupted in this or earlier boots  *)
(* and whatever RAM held.  The CDI_0 certificate alone can be a left-over, *)
(* and the next boot that is not misled replaces it unless it has the key. *)
OwnerSeesChain == pc = "owner" => flash.dice \in OwnChains

(* dice_chain.c:386: "Save cdi 0 to flash if regenerated", only then.      *)
OnlyRegeneratedSaved == pc = "owner" => flash.dice = OwnChain

(* The issuer a certificate names is the key that signed it                *)
(* (endorsement_pubkey_id against the key saved in the ACC); "left" stands *)
(* for both in what was left in RAM.                                       *)
IssuerSigned ==
  \A i \in DOMAIN chain.page.objs : chain.page.objs[i].by = chain.page.objs[i].signer

(* A page is erased only if it is not yet the chain of this boot, or the   *)
(* boot is misled: an unchanged boot does not wear flash, and a page that  *)
(* is right is not at risk.                                                *)
ErasesOnlyWrong ==
  [][flash'.dice # flash.dice /\ pc # "off"
     => flash.dice # OwnChain \/ Misled]_vars

(* The boot stages do not write the factory page, corrupted or not.        *)
FactoryKept == [][pc # "off" => flash'.factory = flash.factory]_vars

(* Whatever a fault leaves in flash, the boots after the last fault reach  *)
(* the owner: a corrupted page is cleared and rebuilt, never a boot loop   *)
(* (one that RAM misleads each time with too long a certificate aside).    *)
Recovers == []<>(pc = "owner")
-----------------------------------------------------------------------------
(* THE INDUCTIVE INVARIANT.                                                *)

(* Only the page of device certificates is written, the buffer holds       *)
(* nothing unsaved when a page is loaded into it, and the key to endorse   *)
(* with is the one that is named as the issuer.                            *)
BufferOK ==
  /\ Flushing \/ pc = "attest" => chain.info = "dice"
  /\ pc = "update" => ~chain.dirty
  /\ pc \in {"check", "clear", "cleared", "update", "attest"} => static.saved = Cdi0Key
  /\ pc = "attest" => /\ chain.endorsement = Cdi0Key
                      /\ chain.tail <= 1 /\ chain.tail <= Len(chain.page.objs)

IInv == TypeOK /\ BufferOK

(* A page with a digest that matches is empty or a chain of some boot.     *)
SealedIsChain ==
  flash.dice.sealed =>
    \/ flash.dice = Page(<<>>, TRUE)
    \/ \E r \in RomExts, o \in Owners : \E c \in {Cdi0Cert(r)} \cup LeftCerts :
         flash.dice = Page(Endorses(c, r, o), TRUE)

(* The flag says whether the CDI_0 certificate in flash is this boot's,    *)
(* unless the boot is misled.                                              *)
Cdi0Known ==
  /\ pc \in {"check", "clear", "cleared", "update"} =>
       /\ static.new => Misled \/ static.cert = Cdi0Cert(firmware.rom_ext)
       /\ ~static.new /\ pc \in {"check", "update"} =>
            /\ flash.dice.objs # <<>>
            /\ flash.dice.objs[1].name = "CDI_0" /\ flash.dice.objs[1].key = Cdi0Key
  /\ pc \in {"check", "update"} /\ static.new => Misled \/ flash.dice # OwnChain

(* What the buffer and flash hold at each point.                           *)
Rebuilt ==
  /\ pc = "update" => flash.dice.sealed
  /\ pc = "clear" => chain.page = BlankPage /\ ~flash.dice.sealed
  /\ pc = "cleared" => chain.page = Page(<<>>, TRUE)
  /\ pc \in {"cleared", "saved"} => flash.dice = BlankPage
  /\ pc = "attest" =>
       /\ chain.tail = 1
       /\ chain.dirty => /\ \E c \in Issuers : chain.page = Page(<<c>>, FALSE)
                         /\ Misled \/ flash.dice # OwnChain
       /\ ~chain.dirty => /\ chain.page = flash.dice
                          /\ \E c \in Issuers, r \in RomExts, o \in Owners :
                               flash.dice = Page(Endorses(c, r, o), TRUE)
  /\ pc = "save" => /\ \E c \in Issuers :
                         chain.page = Page(Endorses(c, firmware.rom_ext, firmware.owner), FALSE)
                    /\ Misled \/ flash.dice # OwnChain
  /\ pc = "saved" => chain.page \in OwnChains

ChainInv == IInv /\ SealedIsChain /\ Cdi0Known /\ Rebuilt /\ OwnerSeesChain
=============================================================================
