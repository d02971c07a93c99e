-------------------------- MODULE OwnershipHistory --------------------------
(* Ownership with two history variables: the owners the chip has been      *)
(* locked to, and how often a fault has interrupted it.                    *)
EXTENDS Ownership

CONSTANT MaxInterruptions

VARIABLES tenants, interruptions

HInit == Init /\ tenants = {} /\ interruptions = 0

HNext ==
  /\ Next
  /\ tenants' = IF pc' = "app" /\ stored'.state = "LockedOwner" /\ IsSealed(slot'[0])
                THEN tenants \cup {slot'[0].block.owner} ELSE tenants
  /\ IF Fault THEN interruptions < MaxInterruptions /\ interruptions' = interruptions + 1
     ELSE UNCHANGED interruptions

HSpec == HInit /\ [][HNext]_<<vars, tenants, interruptions>>

(* Every transfer regenerates the OwnerSecret page (ownership_activate.c,  *)
(* activate_handler()): when the chip is locked to an owner, the hash      *)
(* chain of that page contains all owners before it.                       *)
HistoryComplete ==
  pc = "app" /\ stored.state = "LockedOwner" /\ IsSealed(slot[0]) /\ secret # Bad
    => tenants \ {slot[0].block.owner} \subseteq secret

(* The same on a chip that no fault has interrupted, over two transfers.   *)
HistoryUninterrupted == interruptions = 0 => HistoryComplete

-----------------------------------------------------------------------------
(* The inductive invariant.  All owners before the one that is served are  *)
(* in the hash chain of the page, or of the chain that will replace it.    *)
Served(owner) == secret # Bad /\ tenants \subseteq secret \cup {owner}

(* Owner page 0 is unsealed only between its erase and its write.          *)
Page0Served ==
  /\ ~(erased /\ pc \in {"fix0", "act0"}) => IsSealed(slot[0])
  /\ pc \notin {"act1", "act0", "secret", "fix0"} => Served(slot[0].block.owner)
  /\ pc = "fix0" =>
       /\ Served(page[1].owner)
       /\ ~erased => slot[0].block.owner = page[1].owner

TransferServed ==
  /\ pc \in {"act1", "act0"} =>
       /\ page[0] # Bad /\ Served(page[0].owner) /\ chain = {page[0].owner}
       /\ bootdata.state = "UnlockedSelf" => page[0].owner = page[1].owner
  /\ pc = "secret" => IF erased THEN tenants \subseteq chain
                      ELSE secret # Bad /\ tenants \subseteq secret \cup chain

HistoryInv ==
  /\ interruptions \in Nat
  /\ interruptions = 0 => Page0Served /\ TransferServed
=============================================================================
