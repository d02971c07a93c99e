------------------------------ MODULE MCRescue ------------------------------
(* Model checking Rescue: banks of four pages, the first for a ROM_EXT,    *)
(* the next two open to rescue.                                            *)
EXTENDS Rescue

Send(mode, len, romExt) == [mode |-> mode, len |-> len, romExt |-> romExt, type |-> "none"]
Ask(type) == [Send("BootSvcReq", 1, FALSE) EXCEPT !.type = type]
Reboot == Send("Reboot", 0, FALSE)

(* Images with and without a ROM_EXT, for both banks, that fit or do not,  *)
(* and the other requests.                                                 *)
FileScripts ==
  { <<Send("Firmware", 3, FALSE), Reboot>>,
    <<Send("Firmware", 5, TRUE), Send("FirmwareSlotB", 5, TRUE)>>,
    <<Send("none", 4, FALSE), Send("Firmware", 1, FALSE)>>,
    <<Send("FirmwareSlotB", 6, FALSE), Reboot>>,
    <<Send("OwnerBlock", 2, FALSE), Ask("unlock")>> }

(* The same for a configuration that forbids some: the default mode is     *)
(* NoOp.                                                                   *)
OtherScripts ==
  { <<Send("OwnerBlock", 2, FALSE), Ask("unlock"), Reboot>>,
    <<Ask("unlock"), Send("FirmwareSlotB", 5, TRUE)>>,
    <<Ask("activate")>>, <<Send("Firmware", 1, FALSE)>>,
    <<Send("NoOp", 1, FALSE)>>, <<Send("none", 3, FALSE), Ask("unlock")>> }

(* Images that fit, for the liveness property.                             *)
FittingScripts ==
  { <<Send("Firmware", 6, TRUE), Send("OwnerBlock", 1, FALSE)>>,
    <<Send("FirmwareSlotB", 3, FALSE), Ask("unlock")>> }

(* One file of four blocks.                                                *)
StartScripts == { <<Send("Firmware", 4, FALSE)>> }

AllModes == {"Firmware", "FirmwareSlotB", "OwnerBlock", "BootSvcReq", "NoOp", "Wait",
             "unlock", "activate"}
SomeModes == {"FirmwareSlotB", "NoOp", "OwnerBlock", "BootSvcReq", "unlock"}
=============================================================================
