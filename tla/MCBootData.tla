----------------------------- MODULE MCBootData -----------------------------
(* Model checking BootData: two or three slots per page, two payloads      *)
(* of the current format and one of version 1.                             *)
EXTENDS BootData

CONSTANTS a, b, old

MCUpgrade == [v \in {old} |-> a]
=============================================================================
