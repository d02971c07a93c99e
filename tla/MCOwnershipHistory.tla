------------------------- MODULE MCOwnershipHistory -------------------------
(* Model checking OwnershipHistory with the owner blocks of MCOwnership.   *)
EXTENDS MCOwnership, OwnershipHistory
=============================================================================
