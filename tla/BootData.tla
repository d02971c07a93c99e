------------------------------ MODULE BootData ------------------------------
(***************************************************************************)
(* The boot data log of sw/device/silicon_creator/lib/boot_data.c: a       *)
(* record kept in two flash info pages used as append-only logs.  One      *)
(* action per flash operation of boot_data_write(), so that power can fail *)
(* between any two of them and in the middle of each.                      *)
(*                                                                         *)
(* Flash cells: an erase sets every bit, a program operation clears bits.  *)
(* An operation cut short leaves an entry between its old and new contents.*)
(***************************************************************************)
EXTENDS Integers

CONSTANTS
  Values,          (* Payloads in format version 2.                        *)
  LegacyValues,    (* Payloads in format version 1.                        *)
  Upgrade,         (* boot_data_as_v2(): version 1 payloads to version 2.  *)
  DefaultValue,    (* The payload boot_data_default_get() builds.          *)
  NotFound,        (* kErrorBootDataNotFound.                              *)
  Lost,            (* No payload.                                          *)
  EntriesPerPage,  (* kBootDataEntriesPerPage.                             *)
  DefaultCounter,  (* kBootDataDefaultCounterVal.                          *)
  MaxCounter,      (* Bound on the counter, below its 32-bit wraparound.   *)
  LcState,         (* Life cycle state of the device.                      *)
  DefaultInProd    (* OTP: CREATOR_SW_CFG_DEFAULT_BOOT_DATA_IN_PROD_EN.    *)

ASSUME ConstantsAssumption ==
  /\ LegacyValues \cap Values = {}
  /\ Upgrade \in [LegacyValues -> Values]
  /\ DefaultValue \in Values
  /\ NotFound \notin Values \cup LegacyValues
  /\ Lost \notin Values \cup LegacyValues
  /\ EntriesPerPage \in Nat \ {0}
  /\ DefaultCounter \in Nat
  /\ MaxCounter \in Nat
  /\ LcState \in {"Test", "Dev", "Prod", "ProdEnd", "Rma"}
  /\ DefaultInProd \in BOOLEAN

VARIABLES
  flash,     (* The two boot data info pages, a function to entries.       *)
  bootData,  (* The boot stage's copy in RAM: boot_data_t boot_data.       *)
  pc,        (* The next flash operation of the write in progress.         *)
  op,        (* Local variables of the boot_data_write() in progress.      *)
  result     (* What the last boot_data_write() returned.                  *)

vars == <<flash, bootData, pc, op, result>>

Pages == {0, 1}

Other(p) == 1 - p
Slots == 0 .. EntriesPerPage - 1

(* How much of a field has been programmed.                                *)
Programmed == {"erased", "partial", "full"}

(* is_valid: all ones, some bits cleared, all zeros.                       *)
Marks == {"ones", "mixed", "zeros"}

(* An entry: its digest, its is_valid field and the rest (identifier to    *)
(* padding).  Counter and payload are read only when all of it is there.   *)
Entry == [digest : Programmed, mark : Marks, body : Programmed,
          ctr : Nat, val : Values \cup LegacyValues \cup {Lost}]

Unfinished(d, b) ==
  [digest |-> d, mark |-> "ones", body |-> b, ctr |-> 0, val |-> Lost]

Erased == Unfinished("erased", "erased")

Complete(c, v) ==
  [digest |-> "full", mark |-> "ones", body |-> "full", ctr |-> c, val |-> v]

Marked(e, m) == [e EXCEPT !.mark = m]

(* boot_data_is_empty(), and the sniff that precedes it: every word is     *)
(* still erased.                                                           *)
IsEmpty(e) == e.digest = "erased" /\ e.mark = "ones" /\ e.body = "erased"

(* Sniff and boot_data_check(): the digest matches, which includes an      *)
(* is_valid field of all ones.                                             *)
IsValid(e) == e.digest = "full" /\ e.mark = "ones" /\ e.body = "full"

-----------------------------------------------------------------------------
(* boot_data_page_info_update_impl(): the forward search for the first     *)
(* empty entry, then the backward search from there for a valid one.       *)

IsFirstEmpty(pg, f) ==
  /\ f \in 0 .. EntriesPerPage
  /\ f < EntriesPerPage => IsEmpty(pg[f])
  /\ \A i \in Slots : i < f => ~IsEmpty(pg[i])

IsLastValid(pg, f, l) ==
  /\ l \in -1 .. f - 1
  /\ l # -1 => IsValid(pg[l])
  /\ \A i \in Slots : l < i /\ i < f => ~IsValid(pg[i])

LastValid(p, l) ==
  \E f \in 0 .. EntriesPerPage :
    IsFirstEmpty(flash[p], f) /\ IsLastValid(flash[p], f, l)

(* boot_data_active_page_find(): the page whose last valid entry has the   *)
(* greater counter.  Equal counters fail a HARDENED_CHECK and trap.        *)
ActiveFirstFound(p, l) ==         \* mutant: the first page with a valid entry wins
  LastValid(p, l) /\ l # -1 /\ \A q \in Pages : q < p => LastValid(q, -1)

Active(p, l) ==
  /\ LastValid(p, l)
  /\ \A k \in Slots : LastValid(Other(p), k) => flash[Other(p)][k].ctr < flash[p][l].ctr

NoneActive == \A p \in Pages : LastValid(p, -1)

(* boot_data_default_get().                                                *)
DefaultAllowed == LcState \in {"Test", "Dev", "Rma"} \/ DefaultInProd

Default == IF DefaultAllowed THEN DefaultValue ELSE NotFound

(* boot_data_as_v2().                                                      *)
AsV2(v) == IF v \in LegacyValues THEN Upgrade[v] ELSE v

-----------------------------------------------------------------------------
NoOp == [page |-> 0, idx |-> 0, ctr |-> 0, val |-> Lost, oldPage |-> 0, oldIdx |-> -1]

Put(p, i, e) == flash' = [flash EXCEPT ![p][i] = e]

(* A device that has never been written, or one whose boot data an earlier *)
(* software version wrote once.                                            *)
Init ==
  /\ \/ flash = [p \in Pages |-> [i \in Slots |-> Erased]]
     \/ \E v \in Values \cup LegacyValues :
          flash = [p \in Pages |-> [i \in Slots |->
                     IF p = 0 /\ i = 0 THEN Complete(DefaultCounter + 1, v) ELSE Erased]]
  /\ bootData = Lost
  /\ pc = "idle"
  /\ op = NoOp
  /\ result = "none"

(* boot_data_read().                                                       *)
Read ==
  /\ pc = "idle"
  /\ \/ \E p \in Pages, l \in Slots :
          /\ Active(p, l)
          /\ bootData' = AsV2(flash[p][l].val)
     \/ NoneActive /\ bootData' = Default
  /\ UNCHANGED <<flash, pc, op, result>>

(* boot_data_write() up to its first flash operation.  Callers modify the  *)
(* copy they have read.                                                    *)
StartAppendSameCounter(v) ==      \* mutant: the counter is not incremented
  \E p \in Pages, f \in Slots, l \in Slots :
    /\ Active(p, l)
    /\ IsFirstEmpty(flash[p], f)
    /\ pc' = "digest"
    /\ op' = [page |-> p, idx |-> f, ctr |-> flash[p][l].ctr, val |-> v,
              oldPage |-> p, oldIdx |-> l]

StartAppend(v) ==
  \E p \in Pages, f \in Slots, l \in Slots :
    /\ Active(p, l)
    /\ IsFirstEmpty(flash[p], f)
    /\ flash[p][l].ctr < MaxCounter
    /\ pc' = "digest"
    /\ op' = [page |-> p, idx |-> f, ctr |-> flash[p][l].ctr + 1, val |-> v,
              oldPage |-> p, oldIdx |-> l]

StartSwitch(v) ==
  \E p \in Pages, l \in Slots :
    /\ Active(p, l)
    /\ IsFirstEmpty(flash[p], EntriesPerPage)
    /\ flash[p][l].ctr < MaxCounter
    /\ pc' = "erase"
    /\ op' = [page |-> Other(p), idx |-> 0, ctr |-> flash[p][l].ctr + 1, val |-> v,
              oldPage |-> p, oldIdx |-> l]

StartFirst(v) ==
  /\ NoneActive
  /\ DefaultCounter < MaxCounter
  /\ pc' = "erase"
  /\ op' = [page |-> 0, idx |-> 0, ctr |-> DefaultCounter + 1, val |-> v,
            oldPage |-> 0, oldIdx |-> -1]

Start(v) ==
  /\ pc = "idle"
  /\ bootData \in Values
  /\ bootData' = v
  /\ result' = "none"
  /\ StartAppend(v) \/ StartSwitch(v) \/ StartFirst(v)
  /\ UNCHANGED flash

(* boot_data_entry_write_impl().                                           *)
Erase ==
  /\ pc = "erase"
  /\ flash' = [flash EXCEPT ![op.page] = [i \in Slots |-> Erased]]
  /\ pc' = "digest"
  /\ UNCHANGED <<bootData, op, result>>

WriteDigest ==
  /\ pc = "digest"
  /\ Put(op.page, op.idx, Unfinished("full", "erased"))
  /\ pc' = "body"
  /\ UNCHANGED <<bootData, op, result>>

WriteBody ==
  /\ pc = "body"
  /\ Put(op.page, op.idx, Complete(op.ctr, op.val))
  /\ pc' = "check"
  /\ UNCHANGED <<bootData, op, result>>

(* The second program operation reports success but has left a bit wrong.  *)
WriteBodyWrong ==
  /\ pc = "body"
  /\ Put(op.page, op.idx, Unfinished("full", "partial"))
  /\ pc' = "check"
  /\ UNCHANGED <<bootData, op, result>>

Finish(r) == pc' = "idle" /\ op' = NoOp /\ result' = r

ReadBackBlind ==                  \* mutant: the entry read back is not compared
  /\ pc = "check"
  /\ IF op.oldIdx = -1 THEN Finish("ok") ELSE pc' = "invalidate" /\ UNCHANGED <<op, result>>
  /\ UNCHANGED <<flash, bootData>>

(* The entry is read back and compared with the one to write.              *)
ReadBack ==
  /\ pc = "check"
  /\ IF flash[op.page][op.idx] # Complete(op.ctr, op.val) THEN Finish("error")
     ELSE IF op.oldIdx = -1 THEN Finish("ok")
     ELSE pc' = "invalidate" /\ UNCHANGED <<op, result>>
  /\ UNCHANGED <<flash, bootData>>

(* boot_data_entry_invalidate().                                           *)
Invalidate ==
  /\ pc = "invalidate"
  /\ Put(op.oldPage, op.oldIdx, Marked(flash[op.oldPage][op.oldIdx], "zeros"))
  /\ Finish("ok")
  /\ UNCHANGED bootData

-----------------------------------------------------------------------------
(* What an interrupted flash operation may leave.  An erase raises bits:   *)
(* an entry is untouched, erased, scrambled, or has only its is_valid      *)
(* field back at all ones.                                                 *)
HalfErased(e) ==
  {e, Erased, Unfinished("partial", "partial"), Marked(e, "ones")}

TornErase ==
  \E pg \in [Slots -> UNION {HalfErased(flash[op.page][i]) : i \in Slots}] :
    /\ \A i \in Slots : pg[i] \in HalfErased(flash[op.page][i])
    /\ flash' = [flash EXCEPT ![op.page] = pg]

Torn ==
  \/ pc = "erase" /\ TornErase
  \/ pc = "digest" /\ \E d \in Programmed :
                        Put(op.page, op.idx, Unfinished(d, "erased"))
  \/ pc = "body" /\ \E b \in {"erased", "partial"} :
                      Put(op.page, op.idx, Unfinished("full", b))
  \/ pc = "invalidate" /\ \E m \in {"ones", "mixed"} :
                            Put(op.oldPage, op.oldIdx, Marked(flash[op.oldPage][op.oldIdx], m))
  \/ pc \in {"idle", "check"} /\ UNCHANGED flash

(* A reset at any moment: RAM is gone.                                     *)
PowerLoss ==
  /\ Torn
  /\ bootData' = Lost
  /\ Finish("none")

(* A flash operation fails: boot_data_write() returns its error.           *)
FlashError ==
  /\ pc # "idle"
  /\ Torn
  /\ Finish("error")
  /\ UNCHANGED bootData

Next ==
  \/ Read
  \/ \E v \in Values : Start(v)
  \/ Erase \/ WriteDigest \/ WriteBody \/ WriteBodyWrong \/ ReadBack \/ Invalidate
  \/ PowerLoss \/ FlashError

Spec == Init /\ [][Next]_vars

-----------------------------------------------------------------------------
(* The inductive invariant.  An entry is whole when both of its program    *)
(* operations ended; an invalidated entry is whole and an interrupted      *)
(* erase can make it valid again, so the order is kept for whole entries.  *)
IsWhole(e) == e.digest = "full" /\ e.body = "full"

AnyWhole == \E p \in Pages, i \in Slots : IsWhole(flash[p][i])

Ordered ==
  /\ \A i \in Slots, j \in Slots :
       IsWhole(flash[0][i]) /\ IsWhole(flash[1][j]) => flash[0][i].ctr # flash[1][j].ctr
  /\ \A p \in Pages, i \in Slots, j \in Slots :
       i < j /\ IsWhole(flash[p][i]) /\ IsWhole(flash[p][j]) => flash[p][i].ctr < flash[p][j].ctr

(* The empty slots of a page start at f and reach to its end.              *)
EmptyFrom(p, f) == \A i \in Slots : IsEmpty(flash[p][i]) <=> i >= f

(* The entry the device lives by: valid, the greatest counter of all whole *)
(* entries, on a page without holes.                                       *)
Newest(p, i) ==
  /\ IsValid(flash[p][i])
  /\ \E f \in 0 .. EntriesPerPage : EmptyFrom(p, f)
  /\ \A q \in Pages, j \in Slots :
       IsWhole(flash[q][j]) => (q = p /\ j = i) \/ flash[q][j].ctr < flash[p][i].ctr

SomeNewest == AnyWhole => \E p \in Pages, i \in Slots : Newest(p, i)

(* Before the new entry is whole, the write in progress has touched only   *)
(* empty slots or the other page, and the old entry is still the newest.   *)
OldIsNewest ==
  IF op.oldIdx = -1
  THEN ~AnyWhole /\ op.page = 0 /\ op.idx = 0 /\ op.ctr = DefaultCounter + 1
  ELSE /\ Newest(op.oldPage, op.oldIdx)
       /\ op.ctr = flash[op.oldPage][op.oldIdx].ctr + 1

NewIsNewest ==
  /\ Newest(op.page, op.idx)
  /\ flash[op.page][op.idx] = Complete(op.ctr, op.val)

OldIsStale ==
  op.oldIdx # -1 =>
    /\ op.oldPage # op.page \/ op.oldIdx # op.idx
    /\ IsWhole(flash[op.oldPage][op.oldIdx])

Progress ==
  /\ pc # "idle" => op.val \in Values
  /\ pc = "erase" => /\ OldIsNewest
                     /\ op.idx = 0
                     /\ op.oldIdx # -1 => op.page # op.oldPage
  /\ pc = "digest" => OldIsNewest /\ EmptyFrom(op.page, op.idx)
  /\ pc = "body" => OldIsNewest /\ EmptyFrom(op.page, op.idx + 1) /\ ~IsWhole(flash[op.page][op.idx])
  /\ pc = "check" => \/ OldIsNewest /\ ~IsWhole(flash[op.page][op.idx])
                     \/ NewIsNewest /\ OldIsStale
  /\ pc = "invalidate" => NewIsNewest /\ OldIsStale /\ op.oldIdx # -1

(* Every variable has its type; a write in progress has chosen its slot.   *)
TypeOK ==
  /\ flash \in [Pages -> [Slots -> Entry]]
  /\ bootData \in Values \cup {NotFound, Lost}
  /\ pc \in {"idle", "erase", "digest", "body", "check", "invalidate"}
  /\ op \in [page : Pages, idx : Slots, ctr : Nat, val : Values \cup {Lost},
             oldPage : Pages, oldIdx : Slots \cup {-1}]
  /\ result \in {"none", "ok", "error"}

IInv == TypeOK /\ Ordered /\ SomeNewest /\ Progress

(* Two entries of the log never compete: valid entries of the two pages    *)
(* have different counters, so the HARDENED_CHECK_LT() of                  *)
(* boot_data_page_info_update_impl() cannot trap and brick the boot, and   *)
(* within a page the later entry is the newer one, so the backward search, *)
(* which looks at positions and not at counters, stops at the newest.      *)
NewestIsLast ==
  /\ \A i \in Slots, j \in Slots :
       IsValid(flash[0][i]) /\ IsValid(flash[1][j]) => flash[0][i].ctr # flash[1][j].ctr
  /\ \A p \in Pages, i \in Slots, j \in Slots :
       i < j /\ IsValid(flash[p][i]) /\ IsValid(flash[p][j]) => flash[p][i].ctr < flash[p][j].ctr

(* The two-stage search finds the valid entry with the greatest counter of *)
(* both pages: no valid newer entry hides behind an empty slot or on the   *)
(* page the search passes over.                                            *)
SearchFindsNewest ==
  \A p \in Pages, l \in Slots :
    Active(p, l) =>
      \A q \in Pages, i \in Slots : IsValid(flash[q][i]) => flash[q][i].ctr <= flash[p][l].ctr

(* Once a record has been written, no reset or error makes the device fall *)
(* back to the default boot data (which would undo the rollback protection *)
(* and the ownership state): its newest entry is valid ever after.         *)
NeverForgotten ==
  [][(\E p \in Pages, i \in Slots : IsValid(flash[p][i])) => ~NoneActive']_vars

-----------------------------------------------------------------------------
(* The refinement: the record the search would return now.                 *)
StoredNow ==
  IF \E at \in Pages \X Slots : Active(at[1], at[2])
  THEN LET at == CHOOSE at \in Pages \X Slots : Active(at[1], at[2])
           e == flash[at[1]][at[2]]
       IN  [ctr |-> e.ctr, val |-> AsV2(e.val)]
  ELSE [ctr |-> DefaultCounter, val |-> Default]

PhaseNow ==
  CASE pc = "idle" -> "idle"
    [] pc = "invalidate" -> "written"
    [] pc = "check" /\ IsValid(flash[op.page][op.idx]) -> "written"
    [] OTHER -> "writing"

Record == INSTANCE BootRecord WITH
  stored <- StoredNow, copy <- bootData, phase <- PhaseNow, pending <- op.val

(* boot_data.c implements an atomic record: every behaviour of the log,    *)
(* with resets and flash errors anywhere, is a behaviour of BootRecord.    *)
AtomicRecord == Record!Spec
=============================================================================
