----------------------------- MODULE BootRecord -----------------------------
(***************************************************************************)
(* What boot_data.c promises to its callers: one record that survives      *)
(* resets.  A write takes effect in a single step, at some moment between  *)
(* its call and its return; a reset or a flash error before that moment    *)
(* leaves the old record, after it the new one, and never anything else.   *)
(* BootData.tla implements this specification on two flash pages.          *)
(***************************************************************************)
EXTENDS Integers

CONSTANTS
  Values,    (* Payloads of a boot data record, in the current format.     *)
  NotFound,  (* What a read returns when no record may be used.            *)
  Lost       (* The caller's copy before it has read anything.             *)

VARIABLES
  stored,    (* The record a read returns: its counter and its payload.    *)
  copy,      (* The caller's copy of the record, in RAM.                   *)
  phase,     (* Where the write in progress is.                            *)
  pending,   (* The payload the write in progress stores.                  *)
  result     (* What the last finished write returned.                     *)

vars == <<stored, copy, phase, pending, result>>

Init ==
  /\ stored \in [ctr : Nat, val : Values \cup {NotFound}]
  /\ copy = Lost
  /\ phase = "idle"
  /\ pending = Lost
  /\ result = "none"

Read ==
  /\ phase = "idle"
  /\ copy' = stored.val
  /\ UNCHANGED <<stored, phase, pending, result>>

(* A caller stores a modified version of the copy it has read.             *)
Begin(v) ==
  /\ phase = "idle"
  /\ copy \in Values
  /\ phase' = "writing"
  /\ copy' = v
  /\ pending' = v
  /\ result' = "none"
  /\ UNCHANGED stored

Commit ==
  /\ phase = "writing"
  /\ stored' = [ctr |-> stored.ctr + 1, val |-> pending]
  /\ phase' = "written"
  /\ UNCHANGED <<copy, pending, result>>

(* Only a committed write reports success.                                 *)
Return ==
  /\ phase = "written"
  /\ phase' = "idle"
  /\ pending' = Lost
  /\ result' = "ok"
  /\ UNCHANGED <<stored, copy>>

Fail ==
  /\ phase # "idle"
  /\ phase' = "idle"
  /\ pending' = Lost
  /\ result' = "error"
  /\ UNCHANGED <<stored, copy>>

PowerLoss ==
  /\ phase' = "idle"
  /\ pending' = Lost
  /\ result' = "none"
  /\ copy' = Lost
  /\ UNCHANGED stored

Next ==
  \/ Read
  \/ \E v \in Values : Begin(v)
  \/ Commit
  \/ Return
  \/ Fail
  \/ PowerLoss

Spec == Init /\ [][Next]_vars
=============================================================================
