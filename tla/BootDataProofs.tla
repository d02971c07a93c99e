--------------------------- MODULE BootDataProofs ---------------------------
(***************************************************************************)
(* Proofs about BootData, for every number of slots, every payload set and *)
(* every life cycle state.                                                 *)
(***************************************************************************)
EXTENDS BootData, TLAPS

OpType == [page : Pages, idx : Slots, ctr : Nat, val : Values \cup {Lost},
           oldPage : Pages, oldIdx : Slots \cup {-1}]

(* Entries built by the operators of the model are entries.                *)
LEMMA EntryType ==
  /\ \A d, b \in Programmed : Unfinished(d, b) \in Entry
  /\ \A c \in Nat, v \in Values \cup LegacyValues : Complete(c, v) \in Entry
  /\ \A e \in Entry, m \in Marks : Marked(e, m) \in Entry
<1>1. \A d, b \in Programmed : Unfinished(d, b) \in Entry
  BY DEF Unfinished, Entry, Marks
<1>2. \A c \in Nat, v \in Values \cup LegacyValues : Complete(c, v) \in Entry
  BY DEF Complete, Entry, Programmed, Marks
<1>3. \A e \in Entry, m \in Marks : Marked(e, m) \in Entry
  BY DEF Marked, Entry
<1> QED BY <1>1, <1>2, <1>3

(* An erased slot is an entry.                                             *)
LEMMA ErasedType == Erased \in Entry
  BY EntryType DEF Erased, Programmed

(* What an interrupted erase leaves of an entry is an entry.               *)
LEMMA HalfErasedType ==
  ASSUME NEW e \in Entry PROVE HalfErased(e) \subseteq Entry
  BY EntryType, ErasedType DEF HalfErased, Programmed, Marks

(* The idle value of op has the type of op.                                *)
LEMMA NoOpType == NoOp \in OpType
  BY ConstantsAssumption DEF NoOp, OpType, Pages, Slots

(* Put replaces one entry and leaves the others alone.                     *)
LEMMA PutEffect ==
  ASSUME flash \in [Pages -> [Slots -> Entry]],
         NEW p \in Pages, NEW i \in Slots, NEW e \in Entry, Put(p, i, e)
  PROVE  /\ flash' \in [Pages -> [Slots -> Entry]]
         /\ flash'[p][i] = e
         /\ \A q \in Pages, j \in Slots : ~(q = p /\ j = i) => flash'[q][j] = flash[q][j]
  BY DEF Put

(* The parts of TypeOK that the flash operations use.                      *)
LEMMA OpFacts ==
  ASSUME TypeOK
  PROVE  /\ flash \in [Pages -> [Slots -> Entry]]
         /\ op.page \in Pages /\ op.idx \in Slots /\ op.ctr \in Nat
         /\ op.val \in Values \cup {Lost}
         /\ op.oldPage \in Pages /\ op.oldIdx \in Slots \cup {-1}
  BY DEF TypeOK

(* An interrupted erase changes the target page only, entry by entry.      *)
LEMMA TornEraseEffect ==
  ASSUME TypeOK, TornErase
  PROVE  /\ flash' \in [Pages -> [Slots -> Entry]]
         /\ \A j \in Slots : flash'[op.page][j] \in HalfErased(flash[op.page][j])
         /\ \A q \in Pages, j \in Slots : q # op.page => flash'[q][j] = flash[q][j]
<1>1. PICK pg \in [Slots -> UNION {HalfErased(flash[op.page][i]) : i \in Slots}] :
        /\ \A i \in Slots : pg[i] \in HalfErased(flash[op.page][i])
        /\ flash' = [flash EXCEPT ![op.page] = pg]
  BY DEF TornErase
<1>2. \A i \in Slots : flash[op.page][i] \in Entry
  BY OpFacts
<1>3. \A i \in Slots : pg[i] \in Entry
  BY <1>1, <1>2, HalfErasedType
<1>4. pg \in [Slots -> Entry]
  BY <1>1, <1>3
<1> QED BY <1>1, <1>4, OpFacts

-----------------------------------------------------------------------------
(* The two-stage search.                                                   *)

(* A valid entry is whole, and a whole entry is not empty.                 *)
LEMMA ValidIsWhole ==
  \A e : (IsValid(e) => IsWhole(e) /\ ~IsEmpty(e)) /\ (IsWhole(e) => ~IsEmpty(e))
  BY DEF IsValid, IsWhole, IsEmpty

(* The forward search stops where the empty slots begin.                   *)
LEMMA FirstEmptyIs ==
  ASSUME NEW p \in Pages, NEW f \in 0 .. EntriesPerPage, EmptyFrom(p, f)
  PROVE  /\ IsFirstEmpty(flash[p], f)
         /\ \A g : IsFirstEmpty(flash[p], g) => g = f
<1>1. IsFirstEmpty(flash[p], f)
  BY ConstantsAssumption DEF EmptyFrom, IsFirstEmpty, Slots
<1>2. ASSUME NEW g, IsFirstEmpty(flash[p], g) PROVE g = f
  <2>1. g \in 0 .. EntriesPerPage
    BY <1>2 DEF IsFirstEmpty
  <2>2. ~(g < f)
    BY <1>2, <2>1, ConstantsAssumption DEF EmptyFrom, IsFirstEmpty, Slots
  <2>3. ~(f < g)
    BY <1>2, <2>1, ConstantsAssumption DEF EmptyFrom, IsFirstEmpty, Slots
  <2> QED BY <2>1, <2>2, <2>3
<1> QED BY <1>1, <1>2

(* Only one entry of a page can be its last valid one.                     *)
LEMMA NewestIsLastValid ==
  ASSUME TypeOK, Ordered, NEW p \in Pages, NEW i \in Slots, Newest(p, i)
  PROVE  /\ LastValid(p, i)
         /\ \A l \in Slots \cup {-1} : LastValid(p, l) => l = i
<1>1. PICK f \in 0 .. EntriesPerPage : EmptyFrom(p, f)
  BY DEF Newest
<1>2. IsValid(flash[p][i]) /\ i < f
  BY <1>1, ValidIsWhole, ConstantsAssumption DEF Newest, EmptyFrom, Slots
<1>3. ASSUME NEW j \in Slots, IsValid(flash[p][j]) PROVE ~(i < j)
  <2>1. flash[p][i].ctr \in Nat /\ flash[p][j].ctr \in Nat
    BY OpFacts DEF Entry
  <2>2. IsWhole(flash[p][i]) /\ IsWhole(flash[p][j])
    BY <1>2, <1>3, ValidIsWhole
  <2>3. i < j => flash[p][i].ctr < flash[p][j].ctr
    BY <2>2 DEF Ordered
  <2>4. j # i => flash[p][j].ctr < flash[p][i].ctr
    BY <2>2 DEF Newest
  <2> QED BY <2>1, <2>3, <2>4, ConstantsAssumption DEF Slots
<1>4. LastValid(p, i)
  BY <1>1, <1>2, <1>3, FirstEmptyIs, ConstantsAssumption DEF LastValid, IsLastValid, Slots
<1>5. ASSUME NEW l \in Slots \cup {-1}, LastValid(p, l) PROVE l = i
  <2>1. IsLastValid(flash[p], f, l)
    BY <1>1, <1>5, FirstEmptyIs DEF LastValid
  <2>2. ~(l < i)
    BY <2>1, <1>2 DEF IsLastValid
  <2>3. ~(i < l)
    BY <2>1, <1>3, ConstantsAssumption DEF IsLastValid, Slots
  <2> QED BY <2>2, <2>3, ConstantsAssumption DEF Slots
<1> QED BY <1>4, <1>5

(* What the backward search returns is a valid entry of the page.          *)
LEMMA LastValidIsValid ==
  ASSUME NEW p \in Pages, NEW l \in Slots, LastValid(p, l)
  PROVE  IsValid(flash[p][l]) /\ IsWhole(flash[p][l])
<1>1. l # -1
  BY ConstantsAssumption DEF Slots
<1> QED BY <1>1, ValidIsWhole DEF LastValid, IsLastValid

(* The newest entry is what the search returns, and nothing else is.       *)
LEMMA NewestIsActive ==
  ASSUME TypeOK, Ordered, NEW p \in Pages, NEW i \in Slots, Newest(p, i)
  PROVE  /\ Active(p, i)
         /\ \A q \in Pages, l \in Slots : Active(q, l) => q = p /\ l = i
         /\ ~NoneActive
<1>1. LastValid(p, i)
  BY NewestIsLastValid
<1>2. ASSUME NEW k \in Slots, LastValid(Other(p), k)
      PROVE  flash[Other(p)][k].ctr < flash[p][i].ctr
  <2>1. Other(p) \in Pages /\ Other(p) # p
    BY DEF Other, Pages
  <2>2. IsWhole(flash[Other(p)][k])
    BY <1>2, <2>1, LastValidIsValid
  <2> QED BY <2>1, <2>2 DEF Newest
<1>3. ASSUME NEW q \in Pages, NEW l \in Slots, Active(q, l)
      PROVE  q = p /\ l = i
  <2>1. CASE q = p
    BY <2>1, <1>3, NewestIsLastValid DEF Active
  <2>2. CASE q # p
    <3>1. p = Other(q)
      BY <2>2 DEF Other, Pages
    <3>2. flash[p][i].ctr < flash[q][l].ctr
      BY <3>1, <1>1, <1>3 DEF Active
    <3>3. IsWhole(flash[q][l])
      BY <1>3, LastValidIsValid DEF Active
    <3>4. flash[q][l].ctr < flash[p][i].ctr
      BY <3>3, <2>2 DEF Newest
    <3>5. flash[p][i].ctr \in Nat /\ flash[q][l].ctr \in Nat
      BY OpFacts DEF Entry
    <3> QED BY <3>2, <3>4, <3>5
  <2> QED BY <2>1, <2>2
<1>4. ~NoneActive
  <2>1. i # -1
    BY ConstantsAssumption DEF Slots
  <2> QED BY <2>1, NewestIsLastValid DEF NoneActive
<1> QED BY <1>1, <1>2, <1>3, <1>4 DEF Active

(* The search returns the newest entry whenever there is a whole one.      *)
LEMMA ActiveIsNewest ==
  ASSUME TypeOK, Ordered, SomeNewest, NEW p \in Pages, NEW l \in Slots, Active(p, l)
  PROVE  Newest(p, l) /\ AnyWhole
<1>1. AnyWhole
  BY LastValidIsValid DEF Active, AnyWhole
<1>2. PICK q \in Pages, i \in Slots : Newest(q, i)
  BY <1>1 DEF SomeNewest
<1>3. q = p /\ i = l
  BY <1>2, NewestIsActive
<1> QED BY <1>1, <1>2, <1>3

(* The search fails only when there is no whole entry at all.              *)
LEMMA NoneActiveIsNoneWhole ==
  ASSUME TypeOK, Ordered, SomeNewest, NoneActive
  PROVE  ~AnyWhole
  BY NewestIsActive DEF SomeNewest

-----------------------------------------------------------------------------
(* Steps that make no entry whole keep the order and the newest entry.     *)

Shrinks ==
  \A q \in Pages, j \in Slots :
    IsWhole(flash'[q][j]) => IsWhole(flash[q][j]) /\ flash'[q][j].ctr = flash[q][j].ctr

(* The order survives when no entry becomes whole.                         *)
LEMMA OrderedKept ==
  ASSUME Ordered, Shrinks PROVE Ordered'
<1>1. ASSUME NEW i \in Slots, NEW j \in Slots, IsWhole(flash'[0][i]), IsWhole(flash'[1][j])
      PROVE  flash'[0][i].ctr # flash'[1][j].ctr
  BY <1>1 DEF Ordered, Shrinks, Pages
<1>2. ASSUME NEW p \in Pages, NEW i \in Slots, NEW j \in Slots, i < j,
             IsWhole(flash'[p][i]), IsWhole(flash'[p][j])
      PROVE  flash'[p][i].ctr < flash'[p][j].ctr
  <2>1. IsWhole(flash[p][i]) /\ IsWhole(flash[p][j])
    BY <1>2 DEF Shrinks
  <2>2. flash[p][i].ctr < flash[p][j].ctr
    BY <1>2, <2>1 DEF Ordered
  <2> QED BY <1>2, <2>2 DEF Shrinks
<1> QED BY <1>1, <1>2 DEF Ordered

(* The newest entry stays what and where it is.                            *)
Keeps ==
  \A p \in Pages, i \in Slots :
    Newest(p, i) => Newest(p, i)' /\ flash'[p][i] = flash[p][i]

(* There is at most one newest entry.                                      *)
LEMMA NewestUnique ==
  ASSUME TypeOK, NEW p \in Pages, NEW i \in Slots, NEW q \in Pages, NEW j \in Slots,
         Newest(p, i), Newest(q, j)
  PROVE  p = q /\ i = j
<1>1. flash[p][i].ctr \in Nat /\ flash[q][j].ctr \in Nat
  BY OpFacts DEF Entry
<1>2. IsWhole(flash[p][i]) /\ IsWhole(flash[q][j])
  BY ValidIsWhole DEF Newest
<1>3. flash[p][i].ctr < flash[q][j].ctr \/ (p = q /\ i = j)
  BY <1>2 DEF Newest
<1>4. flash[q][j].ctr < flash[p][i].ctr \/ (p = q /\ i = j)
  BY <1>2 DEF Newest
<1> QED BY <1>1, <1>3, <1>4

(* A valid entry stays the newest while no other becomes whole.            *)
LEMMA NewestStays ==
  ASSUME Shrinks, NEW p \in Pages, NEW i \in Slots, Newest(p, i),
         flash'[p][i] = flash[p][i],
         \E f \in 0 .. EntriesPerPage : EmptyFrom(p, f)'
  PROVE  Newest(p, i)'
  BY DEF Newest, Shrinks

(* A newest entry is one the flash has.                                    *)
LEMMA NewestIsSome ==
  ASSUME NEW p \in Pages, NEW i \in Slots, Newest(p, i)
  PROVE  SomeNewest
  BY DEF SomeNewest

(* Without whole entries there are none after a step that adds none.       *)
LEMMA NoneWholeKept ==
  ASSUME Shrinks, ~AnyWhole PROVE ~AnyWhole'
  BY DEF Shrinks, AnyWhole

(* A step that adds no whole entry and keeps the newest keeps the flash    *)
(* part.                                                                   *)
LEMMA KeepsInvariant ==
  ASSUME TypeOK, Ordered, SomeNewest, Shrinks, Keeps
  PROVE  /\ Ordered' /\ SomeNewest'
         /\ OldIsNewest /\ op' = op => OldIsNewest'
<1>1. SomeNewest'
  <2>1. CASE AnyWhole
    BY <2>1 DEF SomeNewest, Keeps
  <2>2. CASE ~AnyWhole
    BY <2>2, NoneWholeKept DEF SomeNewest
  <2> QED BY <2>1, <2>2
<1>2. ASSUME OldIsNewest, op' = op PROVE OldIsNewest'
  <2>1. CASE op.oldIdx = -1
    BY <2>1, <1>2, NoneWholeKept DEF OldIsNewest
  <2>2. CASE op.oldIdx # -1
    <3> DEFINE p == op.oldPage
               i == op.oldIdx
    <3>1. p \in Pages /\ i \in Slots /\ Newest(p, i)
      BY <2>2, <1>2, OpFacts DEF OldIsNewest
    <3>2. Newest(p, i)' /\ flash'[p][i] = flash[p][i]
      <4>1. \A q \in Pages, j \in Slots :
              Newest(q, j) => Newest(q, j)' /\ flash'[q][j] = flash[q][j]
        BY DEF Keeps
      <4>2. PICK q \in Pages, j \in Slots : q = p /\ j = i
        BY <3>1
      <4>3. Newest(q, j)' /\ flash'[q][j] = flash[q][j]
        BY <3>1, <4>1, <4>2
      <4> QED BY <4>2, <4>3, <1>2 DEF Newest, EmptyFrom
    <3> QED BY <3>2, <2>2, <1>2 DEF OldIsNewest
  <2> QED BY <2>1, <2>2
<1> QED BY <1>1, <1>2, OrderedKept

(* Entries that are not finished are not whole.                            *)
LEMMA UnfinishedFacts ==
  /\ \A d, b : b # "full" => ~IsWhole(Unfinished(d, b))
  /\ \A d, b : IsEmpty(Unfinished(d, b)) <=> d = "erased" /\ b = "erased"
  /\ IsEmpty(Erased)
  BY DEF IsWhole, IsEmpty, Unfinished, Erased

(* A complete entry is valid and has the counter and payload given.        *)
LEMMA CompleteFacts ==
  \A c, v : /\ IsWhole(Complete(c, v)) /\ IsValid(Complete(c, v)) /\ ~IsEmpty(Complete(c, v))
            /\ Complete(c, v).ctr = c /\ Complete(c, v).val = v
  BY DEF IsWhole, IsValid, IsEmpty, Complete

(* Writing is_valid leaves the rest of an entry alone.                     *)
LEMMA MarkedFacts ==
  ASSUME NEW e \in Entry, NEW m \in Marks
  PROVE  /\ IsWhole(Marked(e, m)) <=> IsWhole(e)
         /\ Marked(e, m).ctr = e.ctr /\ Marked(e, m).val = e.val
         /\ IsWhole(e) => ~IsEmpty(Marked(e, m))
  BY DEF IsWhole, IsEmpty, Marked, Entry

(* An interrupted erase completes no entry.                                *)
LEMMA HalfErasedFacts ==
  ASSUME NEW e \in Entry, NEW h \in HalfErased(e), IsWhole(h)
  PROVE  IsWhole(e) /\ h.ctr = e.ctr
<1>1. h # Erased /\ h # Unfinished("partial", "partial")
  BY UnfinishedFacts DEF Erased
<1>2. h = e \/ h = Marked(e, "ones")
  BY <1>1 DEF HalfErased
<1> QED BY <1>2, MarkedFacts DEF Marks

(* What the flash looks like after an interrupted or complete erase of the *)
(* target page.                                                            *)
LEMMA EraseKeeps ==
  ASSUME IInv, pc = "erase", flash' \in [Pages -> [Slots -> Entry]],
         \A j \in Slots : flash'[op.page][j] \in HalfErased(flash[op.page][j]),
         \A q \in Pages, j \in Slots : q # op.page => flash'[q][j] = flash[q][j]
  PROVE  Shrinks /\ Keeps
<1>1. TypeOK /\ Ordered /\ OldIsNewest /\ op.page \in Pages
  BY OpFacts DEF IInv, Progress
<1>2. Shrinks
  <2> SUFFICES ASSUME NEW q \in Pages, NEW j \in Slots, IsWhole(flash'[q][j])
               PROVE  IsWhole(flash[q][j]) /\ flash'[q][j].ctr = flash[q][j].ctr
    BY DEF Shrinks
  <2>1. CASE q = op.page
    <3>1. flash[q][j] \in Entry
      BY <1>1, OpFacts
    <3> QED BY <2>1, <3>1, HalfErasedFacts
  <2>2. CASE q # op.page
    BY <2>2
  <2> QED BY <2>1, <2>2
<1>3. ASSUME NEW p \in Pages, NEW i \in Slots, Newest(p, i)
      PROVE  Newest(p, i)' /\ flash'[p][i] = flash[p][i]
  <2>1. AnyWhole
    BY <1>3, ValidIsWhole DEF Newest, AnyWhole
  <2>2. op.oldIdx # -1
    BY <1>1, <2>1 DEF OldIsNewest
  <2>3. op.oldPage = p /\ op.page # p
    BY <1>1, <1>3, <2>2, OpFacts, NewestUnique DEF OldIsNewest, IInv, Progress
  <2>4. \A j \in Slots : flash'[p][j] = flash[p][j]
    BY <2>3
  <2>5. \E f \in 0 .. EntriesPerPage : EmptyFrom(p, f)'
    BY <1>3, <2>4 DEF Newest, EmptyFrom
  <2> QED BY <1>2, <1>3, <2>4, <2>5, NewestStays
<1> QED BY <1>2, <1>3 DEF Keeps

(* Programming part of the target slot.                                    *)
LEMMA ScratchKeeps ==
  ASSUME IInv, pc \in {"digest", "body"}, NEW e \in Entry, ~IsWhole(e),
         Put(op.page, op.idx, e)
  PROVE  /\ Shrinks /\ Keeps
         /\ flash'[op.page][op.idx] = e
         /\ ~IsEmpty(e) /\ op' = op => EmptyFrom(op.page, op.idx + 1)'
<1>1. TypeOK /\ Ordered /\ OldIsNewest
  BY DEF IInv, Progress
<1>2. /\ flash'[op.page][op.idx] = e
      /\ \A q \in Pages, j \in Slots : ~(q = op.page /\ j = op.idx) => flash'[q][j] = flash[q][j]
      /\ op.page \in Pages /\ op.idx \in Slots
  BY <1>1, OpFacts, PutEffect
<1>3. Shrinks
  BY <1>2 DEF Shrinks
<1>4. EmptyFrom(op.page, op.idx) \/ EmptyFrom(op.page, op.idx + 1)
  BY DEF IInv, Progress
<1>5. ~IsWhole(flash[op.page][op.idx])
  <2>1. EmptyFrom(op.page, op.idx) => IsEmpty(flash[op.page][op.idx])
    BY <1>2, ConstantsAssumption DEF EmptyFrom, Slots
  <2> QED BY <2>1, ValidIsWhole DEF IInv, Progress
<1>6. ASSUME NEW j \in Slots
      PROVE  /\ IsEmpty(e) => (IsEmpty(flash'[op.page][j]) <=> j >= op.idx)
             /\ ~IsEmpty(e) => (IsEmpty(flash'[op.page][j]) <=> j >= op.idx + 1)
  <2>1. CASE j = op.idx
    BY <2>1, <1>2, ConstantsAssumption DEF Slots
  <2>2. CASE j # op.idx
    <3>1. flash'[op.page][j] = flash[op.page][j]
      BY <2>2, <1>2
    <3> QED BY <3>1, <2>2, <1>2, <1>4, ConstantsAssumption DEF Slots, EmptyFrom
  <2> QED BY <2>1, <2>2
<1>7. \E f \in 0 .. EntriesPerPage : \A j \in Slots : IsEmpty(flash'[op.page][j]) <=> j >= f
  <2>1. op.idx \in 0 .. EntriesPerPage /\ op.idx + 1 \in 0 .. EntriesPerPage
    BY <1>2, ConstantsAssumption DEF Slots
  <2> QED BY <1>6, <2>1
<1>8. ASSUME NEW p \in Pages, NEW i \in Slots, Newest(p, i)
      PROVE  Newest(p, i)' /\ flash'[p][i] = flash[p][i]
  <2>1. flash'[p][i] = flash[p][i]
    BY <1>2, <1>5, <1>8, ValidIsWhole DEF Newest
  <2>2. \E f \in 0 .. EntriesPerPage : EmptyFrom(p, f)'
    <3>1. CASE p = op.page
      BY <3>1, <1>7 DEF EmptyFrom
    <3>2. CASE p # op.page
      <4>1. \A j \in Slots : flash'[p][j] = flash[p][j]
        BY <3>2, <1>2
      <4> QED BY <4>1, <1>8 DEF Newest, EmptyFrom
    <3> QED BY <3>1, <3>2
  <2> QED BY <1>3, <1>8, <2>1, <2>2, NewestStays
<1>9. ~IsEmpty(e) /\ op' = op => EmptyFrom(op.page, op.idx + 1)'
  BY <1>6 DEF EmptyFrom
<1> QED BY <1>2, <1>3, <1>8, <1>9 DEF Keeps

(* The new entry becomes whole: from here on it is the newest.             *)
LEMMA BodyCommits ==
  ASSUME IInv, pc = "body", Put(op.page, op.idx, Complete(op.ctr, op.val)), op' = op
  PROVE  Ordered' /\ SomeNewest' /\ NewIsNewest' /\ OldIsStale'
<1> DEFINE p == op.page
           i == op.idx
<1>1. TypeOK /\ Ordered /\ OldIsNewest /\ EmptyFrom(p, i + 1) /\ op.val \in Values
  BY DEF IInv, Progress
<1>2. p \in Pages /\ i \in Slots /\ op.ctr \in Nat
  BY <1>1, OpFacts
<1>3. Complete(op.ctr, op.val) \in Entry
  BY <1>1, <1>2, EntryType
<1>4. /\ flash'[p][i] = Complete(op.ctr, op.val)
      /\ \A q \in Pages, j \in Slots : ~(q = p /\ j = i) => flash'[q][j] = flash[q][j]
  BY <1>1, <1>2, <1>3, OpFacts, PutEffect
<1>5. ASSUME NEW q \in Pages, NEW j \in Slots, IsWhole(flash[q][j])
      PROVE  flash[q][j].ctr < op.ctr
  <2>1. op.oldIdx # -1
    BY <1>1, <1>5 DEF OldIsNewest, AnyWhole
  <2>2. /\ op.oldPage \in Pages /\ op.oldIdx \in Slots
        /\ Newest(op.oldPage, op.oldIdx)
        /\ op.ctr = flash[op.oldPage][op.oldIdx].ctr + 1
    BY <1>1, <2>1, OpFacts DEF OldIsNewest
  <2>3. flash[q][j].ctr \in Nat /\ flash[op.oldPage][op.oldIdx].ctr \in Nat
    BY <1>1, <2>2, OpFacts DEF Entry
  <2>4. \/ q = op.oldPage /\ j = op.oldIdx
        \/ flash[q][j].ctr < flash[op.oldPage][op.oldIdx].ctr
    BY <1>5, <2>2 DEF Newest
  <2> QED BY <2>2, <2>3, <2>4
<1>6. \A j \in Slots : i < j => ~IsWhole(flash[p][j])
  BY <1>1, <1>2, ValidIsWhole, ConstantsAssumption DEF EmptyFrom, Slots
<1>7. Ordered'
  <2>1. ASSUME NEW j \in Slots, NEW k \in Slots, IsWhole(flash'[0][j]), IsWhole(flash'[1][k])
        PROVE  flash'[0][j].ctr # flash'[1][k].ctr
    <3>1. CASE p = 0 /\ j = i
      <4>1. flash'[1][k] = flash[1][k]
        BY <3>1, <1>4 DEF Pages
      <4>2. flash[1][k].ctr < op.ctr /\ flash[1][k].ctr \in Nat
        BY <4>1, <2>1, <1>1, <1>5, OpFacts DEF Pages, Entry
      <4> QED BY <3>1, <4>1, <4>2, <1>2, <1>4, CompleteFacts
    <3>2. CASE p = 1 /\ k = i
      <4>1. flash'[0][j] = flash[0][j]
        BY <3>2, <1>4 DEF Pages
      <4>2. flash[0][j].ctr < op.ctr /\ flash[0][j].ctr \in Nat
        BY <4>1, <2>1, <1>1, <1>5, OpFacts DEF Pages, Entry
      <4> QED BY <3>2, <4>1, <4>2, <1>2, <1>4, CompleteFacts
    <3>3. CASE ~(p = 0 /\ j = i) /\ ~(p = 1 /\ k = i)
      <4>1. flash'[0][j] = flash[0][j] /\ flash'[1][k] = flash[1][k]
        BY <3>3, <1>4 DEF Pages
      <4> QED BY <4>1, <2>1, <1>1 DEF Ordered
    <3> QED BY <3>1, <3>2, <3>3
  <2>2. ASSUME NEW q \in Pages, NEW j \in Slots, NEW k \in Slots, j < k,
               IsWhole(flash'[q][j]), IsWhole(flash'[q][k])
        PROVE  flash'[q][j].ctr < flash'[q][k].ctr
    <3>1. CASE q = p /\ k = i
      <4>1. flash'[q][j] = flash[q][j]
        BY <3>1, <2>2, <1>4, ConstantsAssumption DEF Slots
      <4> QED BY <4>1, <3>1, <2>2, <1>4, <1>5, CompleteFacts
    <3>2. CASE q = p /\ j = i
      <4>1. flash'[q][k] = flash[q][k]
        BY <3>2, <2>2, <1>4, ConstantsAssumption DEF Slots
      <4> QED BY <4>1, <3>2, <2>2, <1>6
    <3>3. CASE ~(q = p /\ j = i) /\ ~(q = p /\ k = i)
      <4>1. flash'[q][j] = flash[q][j] /\ flash'[q][k] = flash[q][k]
        BY <3>3, <1>4
      <4> QED BY <4>1, <2>2, <1>1 DEF Ordered
    <3> QED BY <3>1, <3>2, <3>3
  <2> QED BY <2>1, <2>2 DEF Ordered
<1>8. \E f \in 0 .. EntriesPerPage : \A j \in Slots : IsEmpty(flash'[p][j]) <=> j >= f
  <2>1. i + 1 \in 0 .. EntriesPerPage
    BY <1>2, ConstantsAssumption DEF Slots
  <2>2. ASSUME NEW j \in Slots PROVE IsEmpty(flash'[p][j]) <=> j >= i + 1
    <3>1. CASE j = i
      BY <3>1, <1>2, <1>4, CompleteFacts, ConstantsAssumption DEF Slots
    <3>2. CASE j # i
      BY <3>2, <1>1, <1>2, <1>4 DEF EmptyFrom
    <3> QED BY <3>1, <3>2
  <2> QED BY <2>1, <2>2
<1>9. /\ IsValid(flash'[p][i])
      /\ \A q \in Pages, j \in Slots :
           IsWhole(flash'[q][j]) => (q = p /\ j = i) \/ flash'[q][j].ctr < flash'[p][i].ctr
  <2>1. IsValid(flash'[p][i]) /\ flash'[p][i].ctr = op.ctr
    BY <1>4, CompleteFacts
  <2> QED BY <2>1, <1>4, <1>5
<1>10. Newest(p, i)'
  BY <1>2, <1>8, <1>9 DEF Newest, EmptyFrom
<1>11. OldIsStale'
  <2> SUFFICES ASSUME op.oldIdx # -1
               PROVE  /\ op.oldPage # p \/ op.oldIdx # i
                      /\ IsWhole(flash'[op.oldPage][op.oldIdx])
    BY DEF OldIsStale
  <2>1. op.oldPage \in Pages /\ op.oldIdx \in Slots /\ IsWhole(flash[op.oldPage][op.oldIdx])
    BY <1>1, OpFacts, ValidIsWhole DEF OldIsNewest, Newest
  <2>2. ~IsWhole(flash[p][i])
    BY DEF IInv, Progress
  <2> QED BY <2>1, <2>2, <1>4
<1> QED BY <1>2, <1>4, <1>7, <1>10, <1>11 DEF SomeNewest, NewIsNewest

(* Invalidating the previous entry, completely or not.                     *)
LEMMA MarkKeeps ==
  ASSUME IInv, pc = "invalidate", NEW m \in Marks,
         Put(op.oldPage, op.oldIdx, Marked(flash[op.oldPage][op.oldIdx], m))
  PROVE  /\ flash' \in [Pages -> [Slots -> Entry]]
         /\ Shrinks /\ Keeps
<1>1. /\ TypeOK /\ Ordered /\ Newest(op.page, op.idx)
      /\ op.oldIdx # -1
      /\ op.oldPage # op.page \/ op.oldIdx # op.idx
      /\ IsWhole(flash[op.oldPage][op.oldIdx])
  BY DEF IInv, Progress, NewIsNewest, OldIsStale
<1>2. /\ op.page \in Pages /\ op.idx \in Slots /\ op.oldPage \in Pages /\ op.oldIdx \in Slots
      /\ flash[op.oldPage][op.oldIdx] \in Entry
  BY <1>1, OpFacts
<1> DEFINE e == Marked(flash[op.oldPage][op.oldIdx], m)
<1>3. e \in Entry /\ IsWhole(e) /\ ~IsEmpty(e) /\ e.ctr = flash[op.oldPage][op.oldIdx].ctr
  BY <1>1, <1>2, EntryType, MarkedFacts
<1>4. /\ flash' \in [Pages -> [Slots -> Entry]]
      /\ flash'[op.oldPage][op.oldIdx] = e
      /\ \A q \in Pages, j \in Slots :
           ~(q = op.oldPage /\ j = op.oldIdx) => flash'[q][j] = flash[q][j]
  BY <1>1, <1>2, <1>3, OpFacts, PutEffect
<1> HIDE DEF e
<1>5. Shrinks
  BY <1>1, <1>3, <1>4 DEF Shrinks
<1>6. \A q \in Pages, j \in Slots : IsEmpty(flash'[q][j]) <=> IsEmpty(flash[q][j])
  BY <1>1, <1>3, <1>4, ValidIsWhole
<1>7. ASSUME NEW p \in Pages, NEW i \in Slots, Newest(p, i)
      PROVE  Newest(p, i)' /\ flash'[p][i] = flash[p][i]
  <2>1. p = op.page /\ i = op.idx
    BY <1>1, <1>2, <1>7, NewestUnique
  <2>2. flash'[p][i] = flash[p][i]
    BY <2>1, <1>1, <1>4
  <2>3. \E f \in 0 .. EntriesPerPage : EmptyFrom(p, f)'
    BY <1>6, <1>7 DEF Newest, EmptyFrom
  <2> QED BY <1>5, <1>7, <2>2, <2>3, NewestStays
<1> QED BY <1>4, <1>5, <1>7 DEF Keeps

(* Nothing is lost when the flash does not change.                         *)
LEMMA UnchangedKeeps ==
  ASSUME TypeOK, UNCHANGED flash
  PROVE  flash' \in [Pages -> [Slots -> Entry]] /\ Shrinks /\ Keeps
  BY OpFacts DEF Shrinks, Keeps, Newest, EmptyFrom

(* An interrupted flash operation adds no whole entry and keeps the        *)
(* newest.                                                                 *)
LEMMA TornKeeps ==
  ASSUME IInv, Torn
  PROVE  flash' \in [Pages -> [Slots -> Entry]] /\ Shrinks /\ Keeps
<1>1. TypeOK
  BY DEF IInv
<1>2. CASE pc = "erase"
  BY <1>1, <1>2, TornEraseEffect, EraseKeeps DEF Torn
<1>3. CASE pc = "digest"
  <2>1. PICK d \in Programmed : Put(op.page, op.idx, Unfinished(d, "erased"))
    BY <1>3 DEF Torn
  <2> DEFINE e == Unfinished(d, "erased")
  <2>2. e \in Entry /\ ~IsWhole(e)
    BY EntryType, UnfinishedFacts DEF Programmed
  <2> HIDE DEF e
  <2> QED BY <1>1, <1>3, <2>1, <2>2, OpFacts, PutEffect, ScratchKeeps DEF e
<1>4. CASE pc = "body"
  <2>1. PICK b \in {"erased", "partial"} : Put(op.page, op.idx, Unfinished("full", b))
    BY <1>4 DEF Torn
  <2> DEFINE e == Unfinished("full", b)
  <2>2. e \in Entry /\ ~IsWhole(e)
    BY EntryType, UnfinishedFacts DEF Programmed
  <2> HIDE DEF e
  <2> QED BY <1>1, <1>4, <2>1, <2>2, OpFacts, PutEffect, ScratchKeeps DEF e
<1>5. CASE pc = "invalidate"
  BY <1>5, MarkKeeps DEF Torn, Marks
<1>6. CASE pc \in {"idle", "check"}
  BY <1>1, <1>6, UnchangedKeeps DEF Torn
<1> QED BY <1>2, <1>3, <1>4, <1>5, <1>6 DEF Torn

(* A step that ends the write in progress.                                 *)
LEMMA FinishKeeps ==
  ASSUME IInv, flash' \in [Pages -> [Slots -> Entry]], Shrinks, Keeps,
         bootData' \in {bootData, Lost},
         NEW r \in {"none", "ok", "error"}, Finish(r)
  PROVE  IInv'
<1>1. TypeOK /\ Ordered /\ SomeNewest
  BY DEF IInv
<1>2. TypeOK'
  BY <1>1, NoOpType DEF TypeOK, Finish, OpType
<1>3. Progress'
  BY DEF Progress, Finish
<1> QED BY <1>1, <1>2, <1>3, KeepsInvariant DEF IInv

-----------------------------------------------------------------------------
(* The inductive invariant holds initially.                                *)
LEMMA InitIInv == Init => IInv
<1> SUFFICES ASSUME Init PROVE IInv
  OBVIOUS
<1>1. 0 \in Slots /\ 0 \in Pages
  BY ConstantsAssumption DEF Slots, Pages
<1>2. CASE flash = [p \in Pages |-> [i \in Slots |-> Erased]]
  <2>1. \A p \in Pages, i \in Slots : flash[p][i] = Erased
    BY <1>2
  <2>2. flash \in [Pages -> [Slots -> Entry]]
    BY <1>2, ErasedType
  <2>3. ~IsWhole(Erased)
    BY UnfinishedFacts DEF Erased
  <2>4. ~AnyWhole /\ Ordered
    BY <2>1, <2>3 DEF AnyWhole, Ordered, Pages
  <2> QED BY <2>2, <2>4, NoOpType DEF Init, IInv, TypeOK, OpType, SomeNewest, Progress
<1>3. ASSUME NEW v \in Values \cup LegacyValues,
             flash = [p \in Pages |-> [i \in Slots |->
                        IF p = 0 /\ i = 0 THEN Complete(DefaultCounter + 1, v) ELSE Erased]]
      PROVE  IInv
  <2> DEFINE e == Complete(DefaultCounter + 1, v)
  <2>1. e \in Entry /\ IsWhole(e) /\ IsValid(e) /\ ~IsEmpty(e)
    BY EntryType, CompleteFacts, ConstantsAssumption
  <2>2. ~IsWhole(Erased) /\ IsEmpty(Erased)
    BY UnfinishedFacts DEF Erased
  <2>3. flash = [p \in Pages |-> [i \in Slots |-> IF p = 0 /\ i = 0 THEN e ELSE Erased]]
    BY <1>3
  <2> HIDE DEF e
  <2>4. flash \in [Pages -> [Slots -> Entry]]
    BY <2>1, <2>3, ErasedType
  <2>5. flash[0][0] = e /\ \A p \in Pages, i \in Slots : ~(p = 0 /\ i = 0) => flash[p][i] = Erased
    BY <1>1, <2>3
  <2>6. Ordered
    BY <1>1, <2>2, <2>5, ConstantsAssumption DEF Ordered, Pages, Slots
  <2>7. EmptyFrom(0, 1)
    BY <1>1, <2>1, <2>2, <2>5, ConstantsAssumption DEF EmptyFrom, Slots
  <2>8. Newest(0, 0)
    <3>1. 1 \in 0 .. EntriesPerPage
      BY ConstantsAssumption
    <3> QED BY <1>1, <2>1, <2>2, <2>5, <2>7, <3>1 DEF Newest
  <2>9. SomeNewest
    BY <1>1, <2>8, NewestIsSome
  <2> QED BY <2>4, <2>6, <2>9, NoOpType DEF Init, IInv, TypeOK, OpType, Progress
<1> QED BY <1>2, <1>3 DEF Init

-----------------------------------------------------------------------------
(* Starting a write: the search has found the newest entry.                *)
LEMMA StartFacts ==
  ASSUME IInv, NEW v \in Values, Start(v)
  PROVE  /\ op' \in OpType /\ op'.val = v /\ pc' \in {"digest", "erase"}
         /\ OldIsNewest'
         /\ pc' = "erase" => op'.idx = 0 /\ (op'.oldIdx # -1 => op'.page # op'.oldPage)
         /\ pc' = "digest" => EmptyFrom(op.page, op.idx)'
<1>1. TypeOK /\ Ordered /\ SomeNewest /\ UNCHANGED flash
  BY DEF IInv, Start
<1>2. ASSUME NEW p \in Pages, NEW l \in Slots, Active(p, l), op'.oldPage = p, op'.oldIdx = l,
             op'.ctr = flash[p][l].ctr + 1
      PROVE  OldIsNewest' /\ op'.ctr \in Nat
  <2>1. Newest(p, l)
    BY <1>1, <1>2, ActiveIsNewest
  <2>2. op'.oldIdx # -1
    BY <1>2, ConstantsAssumption DEF Slots
  <2>3. flash[p][l].ctr \in Nat
    BY <1>1, OpFacts DEF Entry
  <2> QED BY <1>1, <1>2, <2>1, <2>2, <2>3 DEF OldIsNewest, Newest, EmptyFrom
<1>3. CASE StartAppend(v)
  <2>1. PICK p \in Pages, f \in Slots, l \in Slots :
          /\ Active(p, l) /\ IsFirstEmpty(flash[p], f)
          /\ pc' = "digest"
          /\ op' = [page |-> p, idx |-> f, ctr |-> flash[p][l].ctr + 1, val |-> v,
                    oldPage |-> p, oldIdx |-> l]
    BY <1>3 DEF StartAppend
  <2>2. OldIsNewest' /\ op'.ctr \in Nat
    BY <1>2, <2>1
  <2>3. PICK g \in 0 .. EntriesPerPage : EmptyFrom(p, g)
    BY <1>1, <2>1, ActiveIsNewest DEF Newest
  <2>4. g = f
    BY <2>1, <2>3, FirstEmptyIs
  <2>5. EmptyFrom(op.page, op.idx)'
    BY <1>1, <2>1, <2>3, <2>4 DEF EmptyFrom
  <2> QED BY <2>1, <2>2, <2>5 DEF OpType
<1>4. CASE StartSwitch(v)
  <2>1. PICK p \in Pages, l \in Slots :
          /\ Active(p, l)
          /\ pc' = "erase"
          /\ op' = [page |-> Other(p), idx |-> 0, ctr |-> flash[p][l].ctr + 1, val |-> v,
                    oldPage |-> p, oldIdx |-> l]
    BY <1>4 DEF StartSwitch
  <2>2. OldIsNewest' /\ op'.ctr \in Nat
    BY <1>2, <2>1
  <2>3. Other(p) \in Pages /\ Other(p) # p /\ 0 \in Slots
    BY ConstantsAssumption DEF Other, Pages, Slots
  <2> QED BY <2>1, <2>2, <2>3 DEF OpType
<1>5. CASE StartFirst(v)
  <2>1. ~AnyWhole
    BY <1>1, <1>5, NoneActiveIsNoneWhole DEF StartFirst
  <2>2. ~AnyWhole'
    BY <1>1, <2>1 DEF AnyWhole
  <2>3. 0 \in Slots /\ 0 \in Pages /\ DefaultCounter + 1 \in Nat
    BY ConstantsAssumption DEF Slots, Pages
  <2> QED BY <1>5, <2>2, <2>3 DEF StartFirst, OldIsNewest, OpType
<1> QED BY <1>3, <1>4, <1>5 DEF Start

(* Starting a write keeps the invariant.                                   *)
LEMMA StartIInv ==
  ASSUME IInv, NEW v \in Values, Start(v) PROVE IInv'
<1>1. TypeOK /\ Ordered /\ SomeNewest /\ UNCHANGED flash
  BY DEF IInv, Start
<1>2. TypeOK'
  BY <1>1, StartFacts DEF TypeOK, Start, OpType
<1>3. Progress'
  BY StartFacts DEF Progress
<1>4. Ordered' /\ SomeNewest'
  BY <1>1, UnchangedKeeps, KeepsInvariant
<1> QED BY <1>2, <1>3, <1>4 DEF IInv

(* The flash operations of a write, one by one.                            *)
LEMMA EraseIInv ==
  ASSUME IInv, Erase PROVE IInv'
<1>1. TypeOK /\ Ordered /\ SomeNewest /\ OldIsNewest /\ op.val \in Values /\ op.idx = 0
  BY DEF IInv, Erase, Progress
<1>2. /\ flash' \in [Pages -> [Slots -> Entry]]
      /\ \A j \in Slots : flash'[op.page][j] = Erased
      /\ \A q \in Pages, j \in Slots : q # op.page => flash'[q][j] = flash[q][j]
  BY <1>1, OpFacts, ErasedType DEF Erase
<1>3. Shrinks /\ Keeps
  BY <1>2, EraseKeeps DEF Erase, HalfErased
<1>4. Ordered' /\ SomeNewest' /\ OldIsNewest'
  BY <1>1, <1>3, KeepsInvariant DEF Erase
<1>5. EmptyFrom(op.page, op.idx)'
  BY <1>1, <1>2, UnfinishedFacts DEF EmptyFrom, Erase, Slots
<1>6. TypeOK'
  BY <1>1, <1>2 DEF TypeOK, Erase
<1> QED BY <1>1, <1>4, <1>5, <1>6 DEF IInv, Progress, Erase

(* Programming the digest keeps the invariant.                             *)
LEMMA WriteDigestIInv ==
  ASSUME IInv, WriteDigest PROVE IInv'
<1> DEFINE e == Unfinished("full", "erased")
<1>1. e \in Entry /\ ~IsWhole(e) /\ ~IsEmpty(e)
  BY EntryType, UnfinishedFacts DEF Programmed
<1> HIDE DEF e
<1>2. TypeOK /\ Ordered /\ SomeNewest /\ OldIsNewest /\ op.val \in Values /\ Put(op.page, op.idx, e)
  BY DEF IInv, WriteDigest, Progress, e
<1>3. /\ Shrinks /\ Keeps /\ flash'[op.page][op.idx] = e
      /\ EmptyFrom(op.page, op.idx + 1)'
      /\ flash' \in [Pages -> [Slots -> Entry]]
  BY <1>1, <1>2, ScratchKeeps, OpFacts, PutEffect DEF WriteDigest
<1>4. Ordered' /\ SomeNewest' /\ OldIsNewest'
  BY <1>2, <1>3, KeepsInvariant DEF WriteDigest
<1>5. TypeOK'
  BY <1>2, <1>3 DEF TypeOK, WriteDigest
<1> QED BY <1>1, <1>2, <1>3, <1>4, <1>5 DEF IInv, Progress, WriteDigest

(* Programming the rest makes the entry whole and keeps the invariant.     *)
LEMMA WriteBodyIInv ==
  ASSUME IInv, WriteBody PROVE IInv'
<1>1. TypeOK /\ op.val \in Values
  BY DEF IInv, WriteBody, Progress
<1>2. Complete(op.ctr, op.val) \in Entry
  BY <1>1, OpFacts, EntryType
<1>3. TypeOK'
  BY <1>1, <1>2, OpFacts, PutEffect DEF TypeOK, WriteBody
<1>4. Ordered' /\ SomeNewest' /\ NewIsNewest' /\ OldIsStale'
  BY BodyCommits DEF WriteBody
<1> QED BY <1>1, <1>3, <1>4 DEF IInv, Progress, WriteBody

(* A wrong bit leaves the entry unfinished and the old one the newest.     *)
LEMMA WriteBodyWrongIInv ==
  ASSUME IInv, WriteBodyWrong PROVE IInv'
<1> DEFINE e == Unfinished("full", "partial")
<1>1. e \in Entry /\ ~IsWhole(e) /\ ~IsEmpty(e)
  BY EntryType, UnfinishedFacts DEF Programmed
<1> HIDE DEF e
<1>2. TypeOK /\ Ordered /\ SomeNewest /\ OldIsNewest /\ op.val \in Values /\ Put(op.page, op.idx, e)
  BY DEF IInv, WriteBodyWrong, Progress, e
<1>3. /\ Shrinks /\ Keeps /\ flash'[op.page][op.idx] = e
      /\ flash' \in [Pages -> [Slots -> Entry]]
  BY <1>1, <1>2, ScratchKeeps, OpFacts, PutEffect DEF WriteBodyWrong
<1>4. Ordered' /\ SomeNewest' /\ OldIsNewest'
  BY <1>2, <1>3, KeepsInvariant DEF WriteBodyWrong
<1>5. TypeOK'
  BY <1>2, <1>3 DEF TypeOK, WriteBodyWrong
<1> QED BY <1>1, <1>2, <1>3, <1>4, <1>5 DEF IInv, Progress, WriteBodyWrong

(* Reading keeps the invariant.                                            *)
LEMMA ReadIInv ==
  ASSUME IInv, Read PROVE IInv'
<1>1. TypeOK /\ Ordered /\ SomeNewest /\ UNCHANGED flash
  BY DEF IInv, Read
<1>2. bootData' \in Values \cup {NotFound, Lost}
  <2>1. CASE NoneActive /\ bootData' = Default
    BY <2>1, ConstantsAssumption DEF Default
  <2>2. ASSUME NEW p \in Pages, NEW l \in Slots, bootData' = AsV2(flash[p][l].val)
        PROVE  bootData' \in Values \cup {Lost}
    <3>1. flash[p][l].val \in Values \cup LegacyValues \cup {Lost}
      BY <1>1, OpFacts DEF Entry
    <3> QED BY <2>2, <3>1, ConstantsAssumption DEF AsV2
  <2> QED BY <2>1, <2>2 DEF Read
<1>3. Ordered' /\ SomeNewest'
  BY <1>1, UnchangedKeeps, KeepsInvariant
<1>4. TypeOK'
  BY <1>1, <1>2 DEF TypeOK, Read
<1> QED BY <1>3, <1>4 DEF IInv, Progress, Read

(* After the read-back the old entry may be invalidated: the new one is    *)
(* whole, is the newest, and is not the old one.                           *)
LEMMA ReadBackIInv ==
  ASSUME IInv, ReadBack PROVE IInv'
<1>1. TypeOK /\ Ordered /\ SomeNewest /\ UNCHANGED flash /\ UNCHANGED bootData /\ op.val \in Values
  BY DEF IInv, ReadBack, Progress
<1>2. CASE Finish("error") \/ Finish("ok")
  BY <1>1, <1>2, UnchangedKeeps, FinishKeeps
<1>3. CASE /\ flash[op.page][op.idx] = Complete(op.ctr, op.val)
           /\ op.oldIdx # -1
           /\ pc' = "invalidate" /\ UNCHANGED <<op, result>>
  <2>1. NewIsNewest /\ OldIsStale
    BY <1>3, CompleteFacts DEF ReadBack, IInv, Progress
  <2>2. NewIsNewest' /\ OldIsStale'
    BY <1>1, <1>3, <2>1 DEF NewIsNewest, OldIsStale, Newest, EmptyFrom
  <2>3. Ordered' /\ SomeNewest'
    BY <1>1, UnchangedKeeps, KeepsInvariant
  <2>4. TypeOK'
    BY <1>1, <1>3 DEF TypeOK
  <2> QED BY <1>1, <1>3, <2>2, <2>3, <2>4 DEF IInv, Progress
<1> QED BY <1>2, <1>3 DEF ReadBack

(* Invalidating the previous entry keeps the invariant.                    *)
LEMMA InvalidateIInv ==
  ASSUME IInv, Invalidate PROVE IInv'
<1>1. flash' \in [Pages -> [Slots -> Entry]] /\ Shrinks /\ Keeps
  BY MarkKeeps DEF Invalidate, Marks
<1> QED BY <1>1, FinishKeeps DEF Invalidate

(* A reset keeps the invariant.                                            *)
LEMMA PowerLossIInv ==
  ASSUME IInv, PowerLoss PROVE IInv'
  BY TornKeeps, FinishKeeps DEF PowerLoss

(* A flash error keeps the invariant.                                      *)
LEMMA FlashErrorIInv ==
  ASSUME IInv, FlashError PROVE IInv'
  BY TornKeeps, FinishKeeps DEF FlashError

(* Every step keeps the invariant.                                         *)
LEMMA NextIInv ==
  ASSUME IInv, [Next]_vars PROVE IInv'
<1>1. CASE UNCHANGED vars
  <2>1. TypeOK /\ Ordered /\ SomeNewest /\ Progress
    BY DEF IInv
  <2> QED BY <1>1, <2>1 DEF vars, IInv, TypeOK, Ordered, SomeNewest, AnyWhole, Newest, EmptyFrom,
                            Progress, OldIsNewest, NewIsNewest, OldIsStale
<1>2. CASE Next
  BY <1>2, ReadIInv, StartIInv, EraseIInv, WriteDigestIInv, WriteBodyIInv, WriteBodyWrongIInv,
     ReadBackIInv, InvalidateIInv, PowerLossIInv, FlashErrorIInv DEF Next
<1> QED BY <1>1, <1>2

-----------------------------------------------------------------------------
(* The inductive invariant holds in every reachable state.                 *)
THEOREM InductiveInvariant == Spec => []IInv
  BY InitIInv, NextIInv, PTL DEF Spec

(* Every variable keeps its type.                                          *)
THEOREM TypeCorrect == Spec => []TypeOK
<1>1. IInv => TypeOK
  BY DEF IInv
<1> QED BY <1>1, InductiveInvariant, PTL

(* The log's order: no two valid entries have equal counters, so the trap  *)
(* in boot_data_page_info_update_impl() is never taken, and positions in a *)
(* page follow counters, so the backward search may stop at the first hit. *)
THEOREM OrderSafe == Spec => []NewestIsLast
<1>1. IInv => NewestIsLast
  BY ValidIsWhole DEF IInv, Ordered, NewestIsLast
<1> QED BY <1>1, InductiveInvariant, PTL

(* The search of boot_data_active_page_find() returns the valid entry with *)
(* the greatest counter of both pages.                                     *)
THEOREM SearchCorrect == Spec => []SearchFindsNewest
<1>1. ASSUME IInv PROVE SearchFindsNewest
  <2> SUFFICES ASSUME NEW p \in Pages, NEW l \in Slots, Active(p, l),
                      NEW q \in Pages, NEW i \in Slots, IsValid(flash[q][i])
               PROVE  flash[q][i].ctr <= flash[p][l].ctr
    BY DEF SearchFindsNewest
  <2>1. Newest(p, l)
    BY <1>1, ActiveIsNewest DEF IInv
  <2>2. IsWhole(flash[q][i])
    BY ValidIsWhole
  <2>3. flash[q][i].ctr \in Nat /\ flash[p][l].ctr \in Nat
    BY <1>1, OpFacts DEF IInv, Entry
  <2> QED BY <2>1, <2>2, <2>3 DEF Newest
<1> QED BY <1>1, InductiveInvariant, PTL

-----------------------------------------------------------------------------
(* Every step but the one that completes the new entry keeps the newest.   *)
LEMMA StepKeeps ==
  ASSUME IInv, [Next]_vars, ~WriteBody PROVE Shrinks /\ Keeps
<1>1. TypeOK
  BY DEF IInv
<1>2. CASE UNCHANGED flash
  BY <1>1, <1>2, UnchangedKeeps
<1>3. CASE Erase
  <2>1. /\ flash' \in [Pages -> [Slots -> Entry]]
        /\ \A j \in Slots : flash'[op.page][j] = Erased
        /\ \A q \in Pages, j \in Slots : q # op.page => flash'[q][j] = flash[q][j]
    BY <1>1, <1>3, OpFacts, ErasedType DEF Erase
  <2> QED BY <1>3, <2>1, EraseKeeps DEF Erase, HalfErased
<1>4. ASSUME NEW b \in Programmed \ {"full"}, pc \in {"digest", "body"},
             Put(op.page, op.idx, Unfinished("full", b))
      PROVE  Shrinks /\ Keeps
  <2> DEFINE e == Unfinished("full", b)
  <2>1. e \in Entry /\ ~IsWhole(e)
    BY EntryType, UnfinishedFacts DEF Programmed
  <2> HIDE DEF e
  <2> QED BY <2>1, <1>4, ScratchKeeps DEF e
<1>5. CASE WriteDigest
  BY <1>4, <1>5 DEF WriteDigest, Programmed
<1>6. CASE WriteBodyWrong
  BY <1>4, <1>6 DEF WriteBodyWrong, Programmed
<1>7. CASE Invalidate
  BY <1>7, MarkKeeps DEF Invalidate, Marks
<1>8. CASE PowerLoss \/ FlashError
  BY <1>8, TornKeeps DEF PowerLoss, FlashError
<1> QED BY <1>2, <1>3, <1>5, <1>6, <1>7, <1>8 DEF Next, Read, Start, ReadBack, vars

(* After the second program operation the new entry is the newest.         *)
LEMMA BodyEffect ==
  ASSUME IInv, WriteBody
  PROVE  \E p \in Pages, i \in Slots :
           p = op.page /\ i = op.idx /\ Newest(p, i)' /\ flash'[p][i] = Complete(op.ctr, op.val)
<1>1. op' = op /\ TypeOK
  BY DEF WriteBody, IInv
<1>2. NewIsNewest'
  BY BodyCommits DEF WriteBody
<1>3. PICK p \in Pages, i \in Slots : p = op.page /\ i = op.idx
  BY <1>1, OpFacts
<1>4. Newest(p, i)' /\ flash'[p][i] = Complete(op.ctr, op.val)
  BY <1>1, <1>2, <1>3 DEF NewIsNewest, Newest, EmptyFrom, Complete
<1> QED BY <1>3, <1>4

(* The newest entry is whole.                                              *)
LEMMA NewestIsWhole ==
  \A p \in Pages, i \in Slots : Newest(p, i) => AnyWhole
  BY ValidIsWhole DEF Newest, AnyWhole

(* A step never loses the record: once an entry is valid, no reset, torn   *)
(* operation or flash error makes reads fall back to the default.          *)
THEOREM RecordNeverForgotten == Spec => NeverForgotten
<1>1. IInv /\ AnyWhole => ~NoneActive
  BY NoneActiveIsNoneWhole DEF IInv
<1>2. (IInv /\ AnyWhole => ~NoneActive)'
  BY <1>1, PTL
<1>3. (\A p \in Pages, i \in Slots : Newest(p, i) => AnyWhole)'
  BY NewestIsWhole, PTL
<1>4. ASSUME IInv, IInv', [Next]_vars
      PROVE  [(\E p \in Pages, i \in Slots : IsValid(flash[p][i])) => ~NoneActive']_vars
  <2> SUFFICES ASSUME NEW p \in Pages, NEW i \in Slots, IsValid(flash[p][i])
               PROVE  ~NoneActive'
    OBVIOUS
  <2>1. AnyWhole
    BY ValidIsWhole DEF AnyWhole
  <2>2. PICK q \in Pages, j \in Slots : Newest(q, j)
    BY <1>4, <2>1 DEF IInv, SomeNewest
  <2>3. CASE WriteBody
    BY <1>2, <1>3, <1>4, <2>3, BodyEffect
  <2>4. CASE ~WriteBody
    <3>1. Newest(q, j)'
      BY <1>4, <2>2, <2>4, StepKeeps DEF Keeps
    <3> QED BY <1>2, <1>3, <1>4, <3>1
  <2> QED BY <2>3, <2>4
<1> QED BY <1>4, InductiveInvariant, PTL DEF Spec, NeverForgotten

-----------------------------------------------------------------------------
(* The refinement: what a read would return is the newest entry.           *)
StoredIsNewest ==
  /\ \A p \in Pages, i \in Slots :
       Newest(p, i) => StoredNow = [ctr |-> flash[p][i].ctr, val |-> AsV2(flash[p][i].val)]
  /\ ~AnyWhole => StoredNow = [ctr |-> DefaultCounter, val |-> Default]

(* The record the search would return is the newest entry's.               *)
LEMMA StoredLemma == IInv => StoredIsNewest
<1> SUFFICES ASSUME IInv PROVE StoredIsNewest
  OBVIOUS
<1>1. TypeOK /\ Ordered /\ SomeNewest
  BY DEF IInv
<1>2. ASSUME NEW p \in Pages, NEW i \in Slots, Newest(p, i)
      PROVE  StoredNow = [ctr |-> flash[p][i].ctr, val |-> AsV2(flash[p][i].val)]
  <2> DEFINE found == CHOOSE at \in Pages \X Slots : Active(at[1], at[2])
  <2>1. <<p, i>> \in Pages \X Slots /\ Active(<<p, i>>[1], <<p, i>>[2])
    BY <1>1, <1>2, NewestIsActive
  <2>2. \E at \in Pages \X Slots : Active(at[1], at[2])
    BY <2>1
  <2>3. found \in Pages \X Slots /\ Active(found[1], found[2])
    BY <2>2
  <2> HIDE DEF found
  <2>4. found[1] \in Pages /\ found[2] \in Slots
    BY <2>3
  <2>5. found[1] = p /\ found[2] = i
    BY <1>1, <1>2, <2>3, <2>4, NewestIsActive
  <2> QED BY <2>2, <2>5 DEF StoredNow, found
<1>3. ASSUME ~AnyWhole PROVE StoredNow = [ctr |-> DefaultCounter, val |-> Default]
  <2>1. \A at \in Pages \X Slots : ~Active(at[1], at[2])
    <3> SUFFICES ASSUME NEW at \in Pages \X Slots, Active(at[1], at[2]) PROVE FALSE
      OBVIOUS
    <3>1. at[1] \in Pages /\ at[2] \in Slots
      OBVIOUS
    <3> QED BY <1>1, <1>3, <3>1, ActiveIsNewest
  <2> QED BY <2>1 DEF StoredNow
<1> QED BY <1>2, <1>3 DEF StoredIsNewest

(* The record does not change while the newest entry stays.                *)
LEMMA StoredKept ==
  ASSUME IInv, IInv', [Next]_vars, ~WriteBody PROVE StoredNow' = StoredNow
<1>1. StoredIsNewest
  BY StoredLemma
<1>2. (IInv => StoredIsNewest)'
  BY StoredLemma, PTL
<1>3. StoredIsNewest'
  BY <1>2
<1>4. Shrinks /\ Keeps
  BY StepKeeps
<1>5. CASE AnyWhole
  <2>1. PICK p \in Pages, i \in Slots : Newest(p, i)
    BY <1>5 DEF IInv, SomeNewest
  <2>2. Newest(p, i)' /\ flash'[p][i] = flash[p][i]
    BY <2>1, <1>4 DEF Keeps
  <2>3. StoredNow' = [ctr |-> flash'[p][i].ctr, val |-> AsV2(flash'[p][i].val)]
    BY <2>2, <1>3 DEF StoredIsNewest
  <2> QED BY <1>1, <2>1, <2>2, <2>3 DEF StoredIsNewest
<1>6. CASE ~AnyWhole
  BY <1>1, <1>3, <1>4, <1>6, NoneWholeKept DEF StoredIsNewest
<1> QED BY <1>5, <1>6

(* The step that completes the new entry is the commit.                    *)
LEMMA BodyStores ==
  ASSUME IInv, IInv', WriteBody
  PROVE  StoredNow' = [ctr |-> StoredNow.ctr + 1, val |-> op.val]
<1>1. TypeOK /\ OldIsNewest /\ op.val \in Values
  BY DEF IInv, Progress, WriteBody
<1>2. StoredNow.ctr + 1 = op.ctr
  <2>1. StoredIsNewest
    BY StoredLemma
  <2>2. CASE op.oldIdx = -1
    BY <1>1, <2>1, <2>2 DEF OldIsNewest, StoredIsNewest
  <2>3. CASE op.oldIdx # -1
    BY <1>1, <2>1, <2>3, OpFacts DEF OldIsNewest, StoredIsNewest
  <2> QED BY <2>2, <2>3
<1>3. PICK p \in Pages, i \in Slots :
        Newest(p, i)' /\ flash'[p][i] = Complete(op.ctr, op.val)
  BY BodyEffect
<1>4. (IInv => StoredIsNewest)'
  BY StoredLemma, PTL
<1>5. StoredNow' = [ctr |-> flash'[p][i].ctr, val |-> AsV2(flash'[p][i].val)]
  BY <1>3, <1>4 DEF StoredIsNewest
<1>6. AsV2(op.val) = op.val
  BY <1>1, ConstantsAssumption DEF AsV2
<1> QED BY <1>2, <1>3, <1>5, <1>6, CompleteFacts

(* Initial states of the log are initial states of the record.             *)
LEMMA InitRefines == Init => Record!Init
<1> SUFFICES ASSUME Init PROVE Record!Init
  OBVIOUS
<1>1. IInv
  BY InitIInv
<1>2. StoredIsNewest
  BY <1>1, StoredLemma
<1>3. StoredNow \in [ctr : Nat, val : Values \cup {NotFound}]
  <2>1. CASE AnyWhole
    <3>1. PICK p \in Pages, i \in Slots : Newest(p, i)
      BY <1>1, <2>1 DEF IInv, SomeNewest
    <3>2. \/ flash[p][i] = Erased
          \/ \E v \in Values \cup LegacyValues : flash[p][i] = Complete(DefaultCounter + 1, v)
      BY DEF Init
    <3>3. flash[p][i] # Erased
      BY <3>1, ValidIsWhole, UnfinishedFacts DEF Newest
    <3>4. PICK v \in Values \cup LegacyValues : flash[p][i] = Complete(DefaultCounter + 1, v)
      BY <3>2, <3>3
    <3>5. AsV2(v) \in Values
      BY ConstantsAssumption DEF AsV2
    <3> QED BY <1>2, <3>1, <3>4, <3>5, CompleteFacts, ConstantsAssumption DEF StoredIsNewest
  <2>2. CASE ~AnyWhole
    BY <1>2, <2>2, ConstantsAssumption DEF StoredIsNewest, Default
  <2> QED BY <2>1, <2>2
<1>4. PhaseNow = "idle"
  BY DEF Init, PhaseNow
<1> QED BY <1>3, <1>4 DEF Init, Record!Init, NoOp

(* The phase of the record, by the position in boot_data_write().          *)
LEMMA PhaseFacts ==
  /\ pc = "idle" => PhaseNow = "idle"
  /\ pc \in {"erase", "digest", "body"} => PhaseNow = "writing"
  /\ pc = "invalidate" => PhaseNow = "written"
  /\ pc = "check" => PhaseNow = IF IsValid(flash[op.page][op.idx]) THEN "written" ELSE "writing"
  BY DEF PhaseNow

(* The same facts of the next state.                                       *)
LEMMA NextPhaseFacts ==
  /\ pc' = "idle" => PhaseNow' = "idle"
  /\ pc' \in {"erase", "digest", "body"} => PhaseNow' = "writing"
  /\ pc' = "invalidate" => PhaseNow' = "written"
  /\ pc' = "check" => PhaseNow' = IF IsValid(flash'[op'.page][op'.idx]) THEN "written" ELSE "writing"
  BY DEF PhaseNow, IsValid

(* Every step of the log is a step of the record, or a stutter.            *)
LEMMA StepRefines ==
  ASSUME IInv, IInv', [Next]_vars PROVE [Record!Next]_(Record!vars)
<1> USE DEF Record!vars
<1>1. TypeOK /\ StoredIsNewest
  BY StoredLemma DEF IInv
<1>2. CASE UNCHANGED vars
  <2>1. ~WriteBody
    BY <1>2 DEF WriteBody, vars
  <2> QED BY <1>2, <2>1, StoredKept DEF vars, PhaseNow
<1>3. CASE Read
  <2>1. bootData' = StoredNow.val
    <3>1. CASE NoneActive /\ bootData' = Default
      BY <3>1, <1>1, NoneActiveIsNoneWhole DEF IInv, StoredIsNewest
    <3>2. ASSUME NEW p \in Pages, NEW l \in Slots, Active(p, l), bootData' = AsV2(flash[p][l].val)
          PROVE  bootData' = StoredNow.val
      BY <3>2, <1>1, ActiveIsNewest DEF IInv, StoredIsNewest
    <3> QED BY <1>3, <3>1, <3>2 DEF Read
  <2>2. StoredNow' = StoredNow
    BY <1>3, StoredKept DEF Read, WriteBody
  <2> QED BY <1>3, <2>1, <2>2, PhaseFacts, NextPhaseFacts DEF Read, Record!Read, Record!Next
<1>4. ASSUME NEW v \in Values, Start(v) PROVE Record!Next
  <2>1. StoredNow' = StoredNow
    BY <1>4, StoredKept DEF Start, WriteBody
  <2>2. PhaseNow = "idle" /\ PhaseNow' = "writing" /\ op'.val = v
    BY <1>4, StartFacts, PhaseFacts, NextPhaseFacts DEF Start
  <2> QED BY <1>4, <2>1, <2>2 DEF Start, Record!Begin, Record!Next
<1>5. CASE Erase \/ WriteDigest
  <2>1. StoredNow' = StoredNow
    BY <1>5, StoredKept DEF Erase, WriteDigest, WriteBody
  <2> QED BY <1>5, <2>1, PhaseFacts, NextPhaseFacts DEF Erase, WriteDigest
<1>6. CASE WriteBody
  <2>1. StoredNow' = [ctr |-> StoredNow.ctr + 1, val |-> op.val]
    BY <1>6, BodyStores
  <2>2. IsValid(flash'[op'.page][op'.idx])
    BY <1>6, BodyEffect, CompleteFacts DEF WriteBody
  <2> QED BY <1>6, <2>1, <2>2, PhaseFacts, NextPhaseFacts DEF WriteBody, Record!Commit, Record!Next
<1>7. CASE WriteBodyWrong
  <2> DEFINE e == Unfinished("full", "partial")
  <2>1. e \in Entry /\ ~IsWhole(e)
    BY EntryType, UnfinishedFacts DEF Programmed
  <2>2. flash'[op.page][op.idx] = e
    BY <1>1, <1>7, <2>1, OpFacts, PutEffect DEF WriteBodyWrong
  <2>3. ~IsValid(flash'[op'.page][op'.idx])
    BY <1>7, <2>1, <2>2, ValidIsWhole DEF WriteBodyWrong
  <2>4. ~WriteBody
    <3>1. ~IsValid(flash'[op.page][op.idx])
      BY <2>3, <1>7 DEF WriteBodyWrong
    <3> QED BY <3>1, BodyEffect, CompleteFacts
  <2>5. StoredNow' = StoredNow
    BY <1>7, <2>4, StoredKept
  <2> QED BY <1>7, <2>3, <2>5, PhaseFacts, NextPhaseFacts DEF WriteBodyWrong
<1>8. CASE ReadBack
  <2>1. StoredNow' = StoredNow
    BY <1>8, StoredKept DEF ReadBack, WriteBody
  <2>2. CASE Finish("error")
    BY <1>8, <2>1, <2>2, PhaseFacts, NextPhaseFacts DEF ReadBack, Finish, NoOp, Record!Fail, Record!Next
  <2>3. CASE flash[op.page][op.idx] = Complete(op.ctr, op.val) /\ Finish("ok")
    BY <1>8, <2>1, <2>3, PhaseFacts, NextPhaseFacts, CompleteFacts
       DEF ReadBack, Finish, NoOp, Record!Return, Record!Next
  <2>4. CASE /\ flash[op.page][op.idx] = Complete(op.ctr, op.val)
             /\ pc' = "invalidate" /\ UNCHANGED <<op, result>>
    BY <1>8, <2>1, <2>4, PhaseFacts, NextPhaseFacts, CompleteFacts DEF ReadBack
  <2> QED BY <1>8, <2>2, <2>3, <2>4 DEF ReadBack
<1>9. CASE Invalidate
  <2>1. StoredNow' = StoredNow
    BY <1>9, StoredKept DEF Invalidate, WriteBody
  <2> QED BY <1>9, <2>1, PhaseFacts, NextPhaseFacts DEF Invalidate, Finish, NoOp, Record!Return, Record!Next
<1>10. CASE PowerLoss
  <2>1. StoredNow' = StoredNow
    BY <1>10, StoredKept DEF PowerLoss, Finish, WriteBody
  <2> QED BY <1>10, <2>1, NextPhaseFacts DEF PowerLoss, Finish, NoOp, Record!PowerLoss, Record!Next
<1>11. CASE FlashError
  <2>1. StoredNow' = StoredNow
    BY <1>11, StoredKept DEF FlashError, Finish, WriteBody
  <2>2. PhaseNow # "idle"
    BY <1>1, <1>11, PhaseFacts DEF FlashError, TypeOK
  <2> QED BY <1>11, <2>1, <2>2, NextPhaseFacts DEF FlashError, Finish, NoOp, Record!Fail, Record!Next
<1> QED BY <1>2, <1>3, <1>4, <1>5, <1>6, <1>7, <1>8, <1>9, <1>10, <1>11 DEF Next

(* boot_data.c implements the atomic record of BootRecord: a write takes   *)
(* effect in one step whatever resets and flash errors interrupt it.       *)
THEOREM LogImplementsRecord == Spec => AtomicRecord
<1>1. Init => Record!Init
  BY InitRefines
<1>2. IInv /\ IInv' /\ [Next]_vars => [Record!Next]_(Record!vars)
  BY StepRefines
<1> QED BY <1>1, <1>2, InductiveInvariant, PTL DEF Spec, AtomicRecord, Record!Spec
=============================================================================
