----------------------------- MODULE MCBootFlow -----------------------------
(* Model checking BootFlow: ROM_EXT images of two security versions, one   *)
(* that advances the minimum, and an erased slot, whose version reads as   *)
(* the greatest; owner images of two versions, one that does not verify.   *)
EXTENDS BootFlow

Image(sec, minor, good, secver) ==
  [sec |-> sec, major |-> 0, minor |-> minor, good |-> good, secver |-> secver]
Erased == Image(9, 9, FALSE, FALSE)

MCRomExtImages == {Image(1, 0, TRUE, FALSE), Image(2, 0, TRUE, TRUE), Erased}
MCBl0Images == {[sec |-> 1, good |-> TRUE], [sec |-> 2, good |-> TRUE], [sec |-> 9, good |-> FALSE]}

NextSlot(primary, next) == [type |-> "NextBl0Slot", primary |-> primary, next |-> next]
MCRequests ==
  { NextSlot("B", "Unspecified"), NextSlot("Unspecified", "B"), NextSlot("B", "A"), NextSlot("Bad", "Bad"),
    [type |-> "MinBl0SecVer", min |-> 2], [type |-> "MinBl0SecVer", min |-> 3],
    [type |-> "EnterRescue", skip |-> FALSE],
    [type |-> "Unlock"], [type |-> "Activate", primary |-> "B"] }
=============================================================================
