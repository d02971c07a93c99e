------------------------------- MODULE MCDfu -------------------------------
(* Model checking Dfu: packets of two units, a transfer of two packets.    *)
EXTENDS Dfu

R(name, len) == [name |-> name, len |-> len, setting |-> 0]
Set(i) == [name |-> "SetInterface", len |-> 0, setting |-> i]
MCRequests ==
  { R("DnLoad", 0), R("DnLoad", 3), R("DnLoad", 5), R("UpLoad", 4), R("UpLoad", 2),
    R("GetStatus", 1), R("GetState", 1), R("ClrStatus", 0), R("Abort", 0),
    R("GetDescriptor", 2), R("SetConfiguration", 0), Set(2), Set(3), Set(4), Set(9) }
FewRequests ==
  { R("DnLoad", 4), R("GetStatus", 1), R("GetDescriptor", 2), Set(1) }
=============================================================================
