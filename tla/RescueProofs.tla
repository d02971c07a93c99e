---------------------------- MODULE RescueProofs ----------------------------
(* Proofs about Rescue, for any scripts, geometry of the flash, permitted  *)
(* commands, and any number and kind of line faults.                       *)
EXTENDS Rescue, SequenceTheorems, TLAPS

Channels ==
  toDevice \in Seq(Frames \cup Others) /\ toHost \in Seq(Characters)

DevType ==
  [open : BOOLEAN, exit : Exits, mode : Commands, frame : Nat \ {0}, staged : Seq(Requested),
   offset : 0 .. FlashLimit, begin : {0, FlashStart}, deadline : BOOLEAN]

(* What the invariant says about the device.                               *)
DeviceOK ==
  /\ dev \in DevType
  /\ Len(dev.staged) <= 2
  /\ flash \in [Slots -> [Pages -> Data \X Data]]
  /\ ownerPage \in Data \X Data
  /\ message \in Data
  /\ RegionChosen
  /\ DeadlineOff
  /\ RunningCodeUntouched

HostOK ==
  /\ script \in Scripts
  /\ host \in [pc : {"idle", "mode", "start", "data", "eof", "failed", "refused"},
               at : 1 .. Len(script) + 1, block : Nat, errors : 0 .. MaxErrors,
               cancels : 0 .. 2, last : Characters \cup {"none"}]
  /\ host.pc # "idle" => host.at <= Len(script)
  /\ RetriesLeft
  /\ faults \in 0 .. MaxFaults

LEMMA Parts == IInv <=> Channels /\ DeviceOK /\ HostOK
BY DEF IInv, TypeOK, Channels, DeviceOK, HostOK, DevType

LEMMA InitInv == Init => IInv
<1> SUFFICES ASSUME Init PROVE IInv
  OBVIOUS
<1> USE RescueAssumption, HostAssumption
<1>1. Channels
  BY DEF Init, DeviceInit, Channels, Characters
<1>2. DeviceOK
  <2>1. Former \in Data /\ Old \in Data \X Data
    BY DEF Former, Old, Page, Block, Data, Init
  <2>2. dev \in DevType /\ Len(dev.staged) <= 2
    <3>1. <<>> \in Seq(Requested) /\ Len(<<>>) <= 2
      BY EmptySeq
    <3>2. DefaultMode \in Commands
      BY DEF DefaultMode, Commands
    <3> QED
      BY <3>1, <3>2 DEF Init, DeviceInit, DevType, Exits
  <2>3. RunningCodeUntouched
    BY DEF Init, DeviceInit, RunningCodeUntouched, Slots
  <2> QED
    BY <2>1, <2>2, <2>3 DEF Init, DeviceInit, DeviceOK, RegionChosen, DeadlineOff, Former, Block
<1>3. HostOK
  BY DEF Init, HostInit, HostOK, RetriesLeft
<1> QED
  BY <1>1, <1>2, <1>3, Parts

-----------------------------------------------------------------------------
(* The parts of DeviceOK: the transfer, and what is stored.                *)
DevOK ==
  dev \in DevType /\ Len(dev.staged) <= 2 /\ RegionChosen /\ DeadlineOff

StoreOK ==
  /\ flash \in [Slots -> [Pages -> Data \X Data]]
  /\ ownerPage \in Data \X Data
  /\ message \in Data
  /\ RunningCodeUntouched

(* A device state that Continue may be given.                              *)
NextDev ==
  {d \in [open : BOOLEAN, exit : Exits, mode : Commands, frame : Nat \ {0}, staged : Seq(Data),
          offset : 0 .. FlashLimit, begin : {0, FlashStart}, deadline : BOOLEAN] :
     /\ d.frame # 1 => d.staged \in Seq(Requested) /\ Len(d.staged) <= 2
     /\ d.offset # 0 =>
          \/ d.begin = FlashStart
          \/ d.begin = 0 /\ (IF d.mode = "FirmwareSlotB" THEN "B" ELSE "A") # RomExtSlot}

LEMMA PairOf ==
  ASSUME NEW S, NEW s \in Seq(S), Len(s) = 2
  PROVE  s \in S \X S
<1>1. s[1] \in S /\ s[2] \in S
  <2>1. 1 \in 1 .. Len(s) /\ 2 \in 1 .. Len(s)
    OBVIOUS
  <2> QED
    BY <2>1, ElementOfSeq
<1>2. <<s[1], s[2]>> \in Seq(S) /\ Len(<<s[1], s[2]>>) = 2
  BY <1>1
<1>3. ASSUME NEW i \in 1 .. Len(s) PROVE s[i] = <<s[1], s[2]>>[i]
  <2>1. i = 1 \/ i = 2
    OBVIOUS
  <2> QED
    BY <2>1
<1>4. s = <<s[1], s[2]>>
  BY <1>2, <1>3, SeqEqual
<1> QED
  BY <1>1, <1>4

LEMMA Replies ==
  ASSUME toHost \in Seq(Characters), NEW c \in Seq(Characters), Reply(c)
  PROVE  toHost' \in Seq(Characters)
BY DEF Reply

LEMMA Codes ==
  /\ <<"ACK">> \in Seq(Characters) /\ <<"NAK">> \in Seq(Characters)
  /\ <<"C">> \in Seq(Characters) /\ <<"CAN", "CAN">> \in Seq(Characters)
  /\ <<"ok">> \in Seq(Characters) /\ <<"error">> \in Seq(Characters)
  /\ <<"text">> \in Seq(Characters)
BY DEF Characters

LEMMA CloseKeeps ==
  ASSUME DevOK, script' = script, NEW why \in Exits, Close(why)
  PROVE  DevOK'
<1> USE RescueAssumption
<1>1. dev' \in DevType
  BY DEF DevOK, DevType, Close, Requested, Exits
<1>2. dev'.staged = dev.staged /\ dev'.offset = dev.offset /\ dev'.begin = dev.begin
      /\ dev'.mode = dev.mode /\ ~dev'.open
  BY DEF DevOK, DevType, Close
<1> QED
  BY <1>1, <1>2 DEF DevOK, DevType, RegionChosen, Bank, DeadlineOff, Requested

LEMMA ContinueKeeps ==
  ASSUME toHost \in Seq(Characters), script' = script, NEW d \in NextDev, Continue(d),
         d.deadline => d.staged = <<>> /\ message' = Former
  PROVE  DevOK' /\ toHost' \in Seq(Characters)
<1> USE RescueAssumption
<1>1. toHost' \in Seq(Characters)
  BY Replies, Codes DEF Continue
<1>2. CASE d.frame = 1
  <2>1. dev' = [d EXCEPT !.frame = 1, !.staged = <<>>, !.offset = 0]
    BY <1>2 DEF Continue, Reset
  <2>2. <<>> \in Seq(Requested') /\ Len(<<>>) <= 2
    BY EmptySeq
  <2>3. dev' \in DevType'
    <3>1. d \in [open : BOOLEAN, exit : Exits, mode : Commands, frame : Nat \ {0},
                 staged : Seq(Data), offset : 0 .. FlashLimit, begin : {0, FlashStart},
                 deadline : BOOLEAN]
      BY DEF NextDev
    <3>2. 0 \in 0 .. FlashLimit /\ 1 \in Nat \ {0}
      OBVIOUS
    <3> HIDE RescueAssumption
    <3> QED
      BY <2>1, <2>2, <3>1, <3>2 DEF DevType
  <2>4. dev'.staged = <<>> /\ dev'.offset = 0 /\ dev'.deadline = d.deadline
    BY <2>1 DEF NextDev
  <2> QED
    BY <1>1, <2>2, <2>3, <2>4 DEF DevOK, RegionChosen, DeadlineOff
<1>3. CASE d.frame # 1
  <2>1. dev' = d
    BY <1>3 DEF Continue
  <2>2. dev' \in DevType'
    BY <1>3, <2>1 DEF DevType, NextDev, Requested
  <2> QED
    BY <1>1, <1>3, <2>1, <2>2 DEF DevOK, NextDev, RegionChosen, Bank, DeadlineOff
<1> QED
  BY <1>2, <1>3

(* Erasing the region that the first page has chosen.                      *)
LEMMA PreparedKeeps ==
  ASSUME StoreOK, NEW begin \in {0, FlashStart}, begin = 0 => Bank # RomExtSlot
  PROVE  /\ Prepared(begin) \in [Slots -> [Pages -> Data \X Data]]
         /\ \A p \in Pages :
              /\ p < FlashStart => Prepared(begin)[RomExtSlot][p] = Old
              /\ p >= FlashLimit => \A s \in Slots : Prepared(begin)[s][p] = Old
<1> USE RescueAssumption
<1>1. Erased \in Data \X Data
  BY DEF Erased, Page, Blank, Block, Data, StoreOK
<1>2. Bank \in Slots
  BY DEF Bank, Slots
<1>3. CASE FirstBlock
  <2> DEFINE g == [p \in Pages |-> IF begin <= p /\ p < FlashLimit THEN Erased ELSE flash[Bank][p]]
  <2>1. g \in [Pages -> Data \X Data]
    BY <1>1, <1>2 DEF StoreOK
  <2>2. Prepared(begin) = [flash EXCEPT ![Bank] = g]
    BY <1>3, <1>2 DEF Prepared, StoreOK
  <2> HIDE DEF g
  <2>3. Prepared(begin) \in [Slots -> [Pages -> Data \X Data]]
    BY <1>2, <2>1, <2>2 DEF StoreOK
  <2>4. ASSUME NEW p \in Pages, NEW s \in Slots,
               p >= FlashLimit \/ (p < FlashStart /\ s = RomExtSlot)
        PROVE  Prepared(begin)[s][p] = Old
    <3>1. flash[s][p] = Old
      BY <2>4 DEF StoreOK, RunningCodeUntouched
    <3>2. CASE s = Bank
      <4>1. p \in Int /\ FlashStart \in Int /\ FlashLimit \in Int
        BY DEF Pages
      <4>2. ~(begin <= p /\ p < FlashLimit)
        BY <2>4, <3>2, <4>1
      <4>3. g[p] = Old
        BY <3>1, <3>2, <4>2 DEF g
      <4> QED
        BY <2>2, <3>2, <4>3, <1>2 DEF StoreOK
    <3>3. CASE s # Bank
      BY <2>2, <3>1, <3>3 DEF StoreOK
    <3> QED
      BY <3>2, <3>3
  <2> QED
    BY <2>3, <2>4
<1>4. CASE ~FirstBlock
  BY <1>4 DEF Prepared, StoreOK, RunningCodeUntouched
<1> QED
  BY <1>3, <1>4

(* Programming a page of the region.                                       *)
LEMMA ProgramKeeps ==
  ASSUME NEW f \in [Slots -> [Pages -> Data \X Data]],
         \A p \in Pages :
           /\ p < FlashStart => f[RomExtSlot][p] = Old
           /\ p >= FlashLimit => \A s \in Slots : f[s][p] = Old,
         NEW q \in Int, q < FlashLimit, q < FlashStart => Bank # RomExtSlot,
         NEW v \in Data \X Data, StoreOK, flash' = Program(f, q, v), script' = script
  PROVE  /\ flash' \in [Slots -> [Pages -> Data \X Data]]
         /\ RunningCodeUntouched'
<1> USE RescueAssumption
<1>1. Mixed \in Data \X Data
  BY DEF Mixed, Page, Spoiled, Block, Data, StoreOK
<1>2. Bank \in Slots
  BY DEF Bank, Slots
<1>3. PICK w \in Data \X Data : flash' = [f EXCEPT ![Bank][q] = w]
  BY <1>1 DEF Program
<1> DEFINE g == [f[Bank] EXCEPT ![q] = w]
<1>4. flash' = [f EXCEPT ![Bank] = g]
  BY <1>3
<1>5. g \in [Pages -> Data \X Data] /\ \A p \in Pages : p # q => g[p] = f[Bank][p]
  BY <1>2, <1>3
<1> HIDE DEF g
<1>6. flash' \in [Slots -> [Pages -> Data \X Data]]
  BY <1>2, <1>4, <1>5
<1>7. ASSUME NEW p \in Pages, NEW s \in Slots,
             p >= FlashLimit \/ (p < FlashStart /\ s = RomExtSlot)
      PROVE  flash'[s][p] = Old
  <2>1. f[s][p] = Old
    BY <1>7
  <2>2. CASE s = Bank
    <3>1. p # q
      BY <1>7, <2>2 DEF Pages
    <3> QED
      BY <1>2, <1>4, <1>5, <2>1, <2>2, <3>1
  <2>3. CASE s # Bank
    BY <1>4, <2>1, <2>3
  <2> QED
    BY <2>2, <2>3
<1>8. RunningCodeUntouched'
  BY <1>7 DEF RunningCodeUntouched
<1> QED
  BY <1>6, <1>8

-----------------------------------------------------------------------------
(* The handler of received blocks.                                         *)
LEMMA FirmwareKeeps ==
  ASSUME DevOK, StoreOK, toHost \in Seq(Characters), script' = script,
         NEW s \in Seq(Data), Len(s) >= 1, NEW d \in NextDev, d.deadline = FALSE, d.mode = dev.mode,
         FirmwareBlock(s, d)
  PROVE  DevOK' /\ StoreOK' /\ toHost' \in Seq(Characters)
<1> USE RescueAssumption
<1> DEFINE begin == Begin(s)
           offset == Offset(s)
           next == [d EXCEPT !.staged = <<>>, !.offset = offset + 1, !.begin = begin]
<1>1. /\ begin \in {0, FlashStart} /\ offset \in 0 .. FlashLimit
      /\ begin = 0 => Bank # RomExtSlot
  BY DEF Begin, Offset, FirstBlock, RomExtUpdateAllowed, Bank, DevOK, DevType, RegionChosen
<1>2. Prepared(begin) \in [Slots -> [Pages -> Data \X Data]]
      /\ \A p \in Pages :
           /\ p < FlashStart => Prepared(begin)[RomExtSlot][p] = Old
           /\ p >= FlashLimit => \A t \in Slots : Prepared(begin)[t][p] = Old
  BY <1>1, PreparedKeeps
<1>3. ASSUME offset + 1 \in 0 .. FlashLimit
      PROVE  next \in NextDev /\ ~next.deadline
  <2>1. <<>> \in Seq(Requested) /\ Len(<<>>) <= 2 /\ <<>> \in Seq(Data)
    BY EmptySeq
  <2>2. d \in [open : BOOLEAN, exit : Exits, mode : Commands, frame : Nat \ {0},
               staged : Seq(Data), offset : 0 .. FlashLimit, begin : {0, FlashStart},
               deadline : BOOLEAN]
    BY DEF NextDev
  <2> HIDE DEF begin, offset, next
  <2>3. begin = FlashStart \/ (begin = 0 /\ (IF d.mode = "FirmwareSlotB" THEN "B" ELSE "A") # RomExtSlot)
    <3>1. Bank = (IF d.mode = "FirmwareSlotB" THEN "B" ELSE "A")
      BY DEF Bank
    <3> QED
      BY <1>1, <3>1
  <2>4. next \in [open : BOOLEAN, exit : Exits, mode : Commands, frame : Nat \ {0},
               staged : Seq(Data), offset : 0 .. FlashLimit, begin : {0, FlashStart},
               deadline : BOOLEAN]
    BY <1>1, <1>3, <2>1, <2>2 DEF next
  <2>5. next.staged = <<>> /\ next.begin = begin /\ next.mode = d.mode /\ ~next.deadline
    BY <2>2 DEF next
  <2> QED
    BY <2>1, <2>3, <2>4, <2>5 DEF NextDev
<1>4. /\ UNCHANGED <<ownerPage, message>>
      /\ \/ offset < begin /\ flash' = Prepared(begin) /\ Continue(next)
         \/ flash' = Prepared(begin) /\ Cancel("too_big")
         \/ /\ begin <= offset /\ offset < FlashLimit /\ Len(s) = 2
            /\ flash' = Program(Prepared(begin), offset, s)
            /\ Continue(next)
         \/ flash' \in {flash, Prepared(begin)} /\ Close("error") /\ UNCHANGED toHost
  BY DEF FirmwareBlock
<1>5. ASSUME flash' = flash \/ flash' = Prepared(begin) PROVE StoreOK'
  BY <1>2, <1>4, <1>5 DEF StoreOK, RunningCodeUntouched, Data
<1> HIDE DEF begin, offset
<1>6. CASE offset < begin /\ flash' = Prepared(begin) /\ Continue(next)
  <2>1. offset + 1 \in 0 .. FlashLimit
    BY <1>1, <1>6
  <2> QED
    BY <1>3, <1>5, <1>6, <2>1, ContinueKeeps
<1>7. CASE flash' = Prepared(begin) /\ Cancel("too_big")
  BY <1>5, <1>7, CloseKeeps, Replies, Codes DEF Cancel, Exits
<1>8. CASE /\ begin <= offset /\ offset < FlashLimit /\ Len(s) = 2
           /\ flash' = Program(Prepared(begin), offset, s)
           /\ Continue(next)
  <2>1. offset + 1 \in 0 .. FlashLimit
    BY <1>1, <1>8
  <2>2. s \in Data \X Data
    BY <1>8, PairOf
  <2>3. flash' \in [Slots -> [Pages -> Data \X Data]] /\ RunningCodeUntouched'
    BY <1>1, <1>2, <1>8, <2>2, ProgramKeeps
  <2>4. StoreOK'
    BY <1>4, <2>3 DEF StoreOK, Data
  <2> QED
    BY <1>3, <1>8, <2>1, <2>4, ContinueKeeps
<1>9. CASE flash' \in {flash, Prepared(begin)} /\ Close("error") /\ UNCHANGED toHost
  BY <1>5, <1>9, CloseKeeps DEF Exits
<1> QED
  BY <1>4, <1>6, <1>7, <1>8, <1>9

(* The other handlers leave the flash banks alone.                         *)
LEMMA OthersKeep ==
  ASSUME DevOK, StoreOK, toHost \in Seq(Characters), script' = script,
         NEW s \in Seq(Data), Len(s) >= 1, s[1] \in Requested,
         NEW d \in NextDev, d.deadline = FALSE,
         OwnerBlock(s, d) \/ BootSvcReq(s, d)
  PROVE  DevOK' /\ StoreOK' /\ toHost' \in Seq(Characters)
<1> USE RescueAssumption
<1> DEFINE next == [d EXCEPT !.staged = <<>>]
<1>1. next \in NextDev /\ ~next.deadline
  <2>1. <<>> \in Seq(Requested) /\ Len(<<>>) <= 2 /\ <<>> \in Seq(Data)
    BY EmptySeq
  <2> QED
    BY <2>1 DEF NextDev
<1>2. ASSUME flash' = flash, ownerPage' \in Data \X Data, message' \in Data
      PROVE  StoreOK'
  BY <1>2 DEF StoreOK, RunningCodeUntouched, Data
<1> HIDE DEF next
<1>3. CASE OwnerBlock(s, d)
  <2>1. flash' = flash /\ message' \in Data /\ ownerPage' \in Data \X Data
    <3>1. Erased \in Data \X Data
      BY DEF Erased, Page, Blank, Block, Data, StoreOK
    <3>2. Len(s) = 2 => s \in Data \X Data
      BY PairOf
    <3> QED
      BY <1>3, <3>1, <3>2 DEF OwnerBlock, StoreOK
  <2>2. Continue(next) \/ (Close("error") /\ UNCHANGED toHost)
    BY <1>3 DEF OwnerBlock, next
  <2> QED
    BY <1>1, <1>2, <2>1, <2>2, ContinueKeeps, CloseKeeps DEF Exits
<1>4. CASE BootSvcReq(s, d)
  <2>1. flash' = flash /\ message' \in Data /\ ownerPage' \in Data \X Data
    BY <1>4 DEF BootSvcReq, StoreOK, Data, Requested
  <2>2. Continue(next) \/ Cancel("bad_mode")
    BY <1>4 DEF BootSvcReq, next
  <2> QED
    BY <1>1, <1>2, <2>1, <2>2, ContinueKeeps, CloseKeeps, Replies, Codes DEF Exits, Cancel
<1> QED
  BY <1>3, <1>4

LEMMA HandleKeeps ==
  ASSUME DevOK, StoreOK, toHost \in Seq(Characters), script' = script,
         NEW s \in Seq(Data), Len(s) >= 1, s[1] \in Requested,
         NEW d \in NextDev, d.deadline = FALSE, d.mode = dev.mode,
         d.frame # 1 => s \in Seq(Requested) /\ Len(s) <= 2,
         Handle(s, d)
  PROVE  DevOK' /\ StoreOK' /\ toHost' \in Seq(Characters)
<1> USE RescueAssumption
<1>1. ASSUME UNCHANGED <<flash, ownerPage, message>> PROVE StoreOK'
  BY <1>1 DEF StoreOK, RunningCodeUntouched, Data
<1>2. CASE Cancel("bad_mode") /\ UNCHANGED <<flash, ownerPage, message>>
  BY <1>1, <1>2, CloseKeeps, Replies, Codes DEF Exits, Cancel
<1>3. CASE FirmwareBlock(s, d)
  BY <1>3, FirmwareKeeps
<1>4. CASE OwnerBlock(s, d) \/ BootSvcReq(s, d)
  BY <1>4, OthersKeep
<1>5. CASE /\ Continue([d EXCEPT !.staged = s])
           /\ UNCHANGED <<flash, ownerPage, message>>
  <2>1. [d EXCEPT !.staged = s] \in NextDev /\ [d EXCEPT !.staged = s].deadline = FALSE
    BY DEF NextDev
  <2> QED
    BY <1>1, <1>5, <2>1, ContinueKeeps
<1> QED
  BY <1>2, <1>3, <1>4, <1>5 DEF Handle

-----------------------------------------------------------------------------
(* The steps of the device.                                                *)
LEMMA RequestedIsData ==
  ASSUME NEW s \in Seq(Requested)
  PROVE  s \in Seq(Data)
<1>1. Requested \subseteq Data
  BY DEF Requested, Data
<1> QED
  BY <1>1, SeqMonotonic

LEMMA DevIsNext ==
  ASSUME DevOK, NEW n \in Nat \ {0}, NEW b \in BOOLEAN
  PROVE  /\ dev \in NextDev
         /\ [dev EXCEPT !.frame = n] \in NextDev
         /\ [dev EXCEPT !.frame = n, !.deadline = b] \in NextDev
<1> DEFINE Wide == [open : BOOLEAN, exit : Exits, mode : Commands, frame : Nat \ {0},
                    staged : Seq(Data), offset : 0 .. FlashLimit, begin : {0, FlashStart},
                    deadline : BOOLEAN]
<1>1. dev.staged \in Seq(Requested) /\ dev.staged \in Seq(Data) /\ Len(dev.staged) <= 2
  BY RequestedIsData DEF DevOK, DevType
<1>2. dev \in Wide
  BY <1>1 DEF DevOK, DevType
<1>3. dev.offset # 0 =>
        \/ dev.begin = FlashStart
        \/ dev.begin = 0 /\ (IF dev.mode = "FirmwareSlotB" THEN "B" ELSE "A") # RomExtSlot
  BY DEF DevOK, RegionChosen, Bank
<1>4. ASSUME NEW d \in Wide, d.staged = dev.staged, d.offset = dev.offset, d.begin = dev.begin,
             d.mode = dev.mode
      PROVE  d \in NextDev
  BY <1>1, <1>3, <1>4 DEF NextDev
<1>5. dev \in NextDev
  BY <1>2, <1>4
<1>6. [dev EXCEPT !.frame = n] \in NextDev
  <2> DEFINE d == [dev EXCEPT !.frame = n]
  <2>1. d \in Wide
    BY <1>2
  <2>2. d.staged = dev.staged /\ d.offset = dev.offset /\ d.begin = dev.begin /\ d.mode = dev.mode
    BY <1>2
  <2> HIDE DEF d, Wide
  <2>3. d \in NextDev
    BY <1>4, <2>1, <2>2
  <2> QED
    BY <2>3 DEF d
<1>7. [dev EXCEPT !.frame = n, !.deadline = b] \in NextDev
  <2> DEFINE d == [dev EXCEPT !.frame = n, !.deadline = b]
  <2>1. d \in Wide
    BY <1>2
  <2>2. d.staged = dev.staged /\ d.offset = dev.offset /\ d.begin = dev.begin /\ d.mode = dev.mode
    BY <1>2
  <2> HIDE DEF d, Wide
  <2>3. d \in NextDev
    BY <1>4, <2>1, <2>2
  <2> QED
    BY <2>3 DEF d
<1> QED
  BY <1>5, <1>6, <1>7

(* The first of the blocks given to the handler belongs to a request.      *)
LEMMA FirstRequested ==
  ASSUME DevOK, NEW b
  PROVE  /\ Len(dev.staged) = 1 => Append(dev.staged, b)[1] \in Requested
         /\ b \in Requested => Append(dev.staged, b)[1] \in Requested
<1>1. dev.staged \in Seq(Requested)
  BY DEF DevOK, DevType
<1>2. CASE dev.staged = <<>>
  BY <1>2
<1>3. CASE dev.staged # <<>>
  <2>1. 1 \in 1 .. Len(dev.staged)
    BY <1>1, <1>3, EmptySeq
  <2>2. dev.staged[1] \in Requested
    BY <1>1, <2>1, ElementOfSeq
  <2>3. Append(dev.staged, b)[1] = dev.staged[1]
    BY <1>1, <2>1
  <2> QED
    BY <2>2, <2>3
<1> QED
  BY <1>2, <1>3

LEMMA EndOfFileKeeps ==
  ASSUME DevOK, StoreOK, toHost \in Seq(Characters), script' = script, dev.open, EndOfFile
  PROVE  DevOK' /\ StoreOK' /\ toHost' \in Seq(Characters)
<1> DEFINE d == [dev EXCEPT !.frame = 1]
<1>1. d \in NextDev
  <2>1. 1 \in Nat \ {0} /\ TRUE \in BOOLEAN
    OBVIOUS
  <2> QED
    BY <2>1, DevIsNext
<1>2. d.mode = dev.mode /\ d.frame = 1 /\ d.deadline = dev.deadline /\ d.staged = dev.staged
  BY DEF DevOK, DevType
<1> HIDE DEF d
<1>3. CASE Len(dev.staged) = 1
  <2> DEFINE s == Append(dev.staged, Padding)
  <2>1. s \in Seq(Data) /\ Len(s) >= 1 /\ s[1] \in Requested
    <3>1. dev.staged \in Seq(Data) /\ dev.staged[1] \in Requested
      <4>1. dev.staged \in Seq(Requested) /\ 1 \in 1 .. Len(dev.staged)
        BY <1>3 DEF DevOK, DevType
      <4>2. dev.staged[1] \in Requested
        BY <4>1, ElementOfSeq
      <4> QED
        BY <4>1, <4>2, RequestedIsData
    <3>2. Padding \in Data
      BY DEF Padding, Block, Data, StoreOK
    <3>3. 1 \in 1 .. Len(dev.staged)
      BY <1>3
    <3>4. s \in Seq(Data) /\ Len(s) = Len(dev.staged) + 1
      BY <3>1, <3>2, AppendProperties
    <3>5. s[1] = dev.staged[1]
      BY <3>1, <3>2, <3>3, AppendProperties
    <3> QED
      BY <3>1, <3>4, <3>5
  <2>2. d.deadline = FALSE
    <3>1. dev.staged # <<>>
      <4>1. Len(dev.staged) # 0
        BY <1>3
      <4>2. Len(<<>>) = 0
        BY EmptySeq
      <4> QED
        BY <4>1, <4>2
    <3>2. dev.deadline \in BOOLEAN
      BY DEF DevOK, DevType
    <3> QED
      BY <1>2, <3>1, <3>2 DEF DevOK, DeadlineOff
  <2>3. Handle(s, d)
    BY <1>3 DEF EndOfFile, d
  <2> HIDE DEF s
  <2> QED
    BY <1>1, <1>2, <2>1, <2>2, <2>3, HandleKeeps
<1>4. CASE Len(dev.staged) # 1
  <2>1. Continue(d) /\ Kept
    BY <1>4 DEF EndOfFile, d
  <2>2. StoreOK'
    BY <2>1 DEF StoreOK, Kept, RunningCodeUntouched, Data
  <2>3. d.deadline => d.staged = <<>> /\ message' = Former
    BY <1>2, <2>1 DEF DevOK, DeadlineOff, Kept
  <2> QED
    BY <1>1, <2>1, <2>2, <2>3, ContinueKeeps
<1> QED
  BY <1>3, <1>4

LEMMA ReceiveFrameKeeps ==
  ASSUME DevOK, StoreOK, toHost \in Seq(Characters), script' = script,
         Head(toDevice).block \in Requested, ReceiveFrame
  PROVE  DevOK' /\ StoreOK' /\ toHost' \in Seq(Characters)
<1> DEFINE s == Append(dev.staged, Head(toDevice).block)
           d == [dev EXCEPT !.frame = @ + 1, !.deadline = FALSE]
<1>1. dev.frame \in Nat \ {0} /\ dev.staged \in Seq(Requested) /\ Len(dev.staged) < 2
  BY DEF DevOK, DevType, ReceiveFrame
<1>2. s \in Seq(Requested) /\ Len(s) <= 2 /\ Len(s) >= 1
  BY <1>1
<1>3. s[1] \in Requested /\ s \in Seq(Data)
  <2>1. s[1] \in Requested
    BY <1>2, ElementOfSeq
  <2> HIDE DEF s
  <2> QED
    BY <1>2, <2>1, RequestedIsData
<1>4. d \in NextDev
  <2>1. dev.frame + 1 \in Nat \ {0} /\ FALSE \in BOOLEAN
    BY <1>1
  <2> QED
    BY <2>1, DevIsNext
<1>5. d.deadline = FALSE /\ d.mode = dev.mode
  BY DEF DevOK, DevType
<1>6. Handle(s, d)
  BY DEF ReceiveFrame
<1> HIDE DEF s, d
<1> QED
  BY <1>2, <1>3, <1>4, <1>5, <1>6, HandleKeeps

LEMMA ResetIsDev ==
  ASSUME NEW d \in DevType
  PROVE  /\ Reset(d) \in DevType
         /\ Reset(d).staged = <<>> /\ Reset(d).offset = 0 /\ Reset(d).deadline = d.deadline
<1>1. 0 \in 0 .. FlashLimit /\ 1 \in Nat \ {0}
  BY RescueAssumption
<1>2. <<>> \in Seq(Requested)
  BY EmptySeq
<1> QED
  BY <1>1, <1>2 DEF Reset, DevType

(* With the deadline off, nothing but the types and the region matter.     *)
LEMMA CommandKeeps ==
  ASSUME DevOK, script' = script, dev' \in DevType, Len(dev'.staged) <= 2,
         dev'.deadline = FALSE,
         dev'.offset # 0 => dev'.mode = dev.mode /\ dev'.offset = dev.offset /\ dev'.begin = dev.begin
  PROVE  DevOK'
<1>1. dev' \in DevType'
  BY DEF DevType, Requested
<1> QED
  BY <1>1 DEF DevOK, RegionChosen, Bank, DeadlineOff

LEMMA ValidateModeKeeps ==
  ASSUME DevOK, toHost \in Seq(Characters), script' = script, NEW mode, ValidateMode(mode)
  PROVE  DevOK' /\ toHost' \in Seq(Characters)
<1> DEFINE d == [dev EXCEPT !.deadline = FALSE]
<1>1. toHost' \in Seq(Characters)
  BY Replies, Codes DEF ValidateMode
<1>2. /\ d \in DevType /\ d.deadline = FALSE /\ d.staged = dev.staged
      /\ d.mode = dev.mode /\ d.offset = dev.offset /\ d.begin = dev.begin
  BY DEF DevOK, DevType
<1>3. Len(dev.staged) <= 2 /\ Len(<<>>) <= 2
  BY EmptySeq DEF DevOK
<1>4. /\ Reset(d) \in DevType
      /\ Reset(d).staged = <<>> /\ Reset(d).offset = 0 /\ Reset(d).deadline = FALSE
  BY <1>2, ResetIsDev
<1>5. \/ /\ mode = "NoOp" \/ Accepted(mode)
         /\ dev' = [Reset(d) EXCEPT !.mode = mode]
      \/ /\ mode = "Reboot"
         /\ dev' = [Reset(d) EXCEPT !.mode = mode, !.open = FALSE, !.exit = "reboot"]
      \/ dev' = d
      \/ dev' = Reset(d)
  BY DEF ValidateMode
<1> HIDE DEF d
<1>6. CASE (mode = "NoOp" \/ Accepted(mode)) /\ dev' = [Reset(d) EXCEPT !.mode = mode]
  <2>1. mode \in Commands
    BY <1>6 DEF Accepted, Known, FirmwareModes, Commands
  <2>2. dev' \in DevType /\ dev'.staged = <<>> /\ dev'.deadline = FALSE /\ dev'.offset = 0
    BY <1>4, <1>6, <2>1 DEF DevType
  <2> QED
    BY <1>1, <1>3, <2>2, CommandKeeps
<1>7. CASE /\ mode = "Reboot"
           /\ dev' = [Reset(d) EXCEPT !.mode = mode, !.open = FALSE, !.exit = "reboot"]
  <2>1. mode \in Commands /\ "reboot" \in Exits
    BY <1>7 DEF Exits, Commands
  <2>2. dev' \in DevType /\ dev'.staged = <<>> /\ dev'.deadline = FALSE /\ dev'.offset = 0
    BY <1>4, <1>7, <2>1 DEF DevType
  <2> QED
    BY <1>1, <1>3, <2>2, CommandKeeps
<1>8. CASE dev' = d
  BY <1>1, <1>2, <1>3, <1>8, CommandKeeps
<1>9. CASE dev' = Reset(d)
  BY <1>1, <1>3, <1>4, <1>9, CommandKeeps
<1> QED
  BY <1>5, <1>6, <1>7, <1>8, <1>9

(* What is written to the line.                                            *)
Written == Frames \cup Others

LEMMA DeviceKeeps ==
  ASSUME IInv, Device
  PROVE  IInv'
<1> USE RescueAssumption
<1>1. /\ toDevice \in Seq(Written) /\ toHost \in Seq(Characters)
      /\ DevOK /\ StoreOK /\ HostOK
  BY Parts DEF Channels, Written, DeviceOK, DevOK, StoreOK
<1>2. script' = script /\ UNCHANGED <<host, faults>> /\ DeviceNext
  BY DEF Device
<1>3. ASSUME toDevice' \in Seq(Written), toHost' \in Seq(Characters), DevOK', StoreOK'
      PROVE  IInv'
  <2>1. HostOK'
    BY <1>1, <1>2 DEF HostOK, RetriesLeft
  <2>2. Written' = Written
    BY <1>2 DEF Written, Frames, Others, Requested
  <2>3. Channels'
    BY <1>3, <2>2 DEF Channels, Written
  <2>4. DeviceOK'
    BY <1>3 DEF DeviceOK, DevOK, StoreOK
  <2> QED
    BY <2>1, <2>3, <2>4, Parts, PTL
<1>4. ASSUME Kept PROVE StoreOK'
  BY <1>1, <1>2, <1>4 DEF Kept, StoreOK, RunningCodeUntouched, Data
<1>5. ASSUME dev' = dev, Kept PROVE DevOK'
  BY <1>1, <1>2, <1>5 DEF DevOK, DevType, Requested, RegionChosen, Bank, DeadlineOff, Kept
<1>6. ASSUME toDevice # <<>>
      PROVE  Head(toDevice) \in Written /\ Tail(toDevice) \in Seq(Written)
  BY <1>1, <1>6, HeadTailProperties
<1>7. CASE ReceiveFrame
  <2>1. toDevice # <<>> /\ toDevice' = Tail(toDevice) /\ Head(toDevice).kind = "frame"
    BY <1>7 DEF ReceiveFrame, Receives
  <2>2. Head(toDevice).block \in Requested
    BY <1>6, <2>1 DEF Written, Frames, Others
  <2>3. DevOK' /\ StoreOK' /\ toHost' \in Seq(Characters)
    BY <1>1, <1>2, <1>7, <2>2, ReceiveFrameKeeps
  <2> QED
    BY <1>3, <1>6, <2>1, <2>3
<1>8. CASE ReceiveOverrun \/ ReceiveShort
  <2>1. \E why \in Exits : Close(why)
    BY <1>8 DEF ReceiveOverrun, ReceiveShort, Exits
  <2>2. Kept /\ toHost' = toHost /\ toDevice # <<>> /\ toDevice' = Tail(toDevice)
    BY <1>8 DEF ReceiveOverrun, ReceiveShort, Receives
  <2>3. DevOK'
    BY <1>1, <1>2, <2>1, CloseKeeps
  <2> QED
    BY <1>1, <1>3, <1>4, <1>6, <2>2, <2>3
<1>9. CASE ReceiveWrongNumber
  <2>1. Cancel("cancel") /\ Kept /\ toDevice # <<>> /\ toDevice' = Tail(toDevice)
    BY <1>9 DEF ReceiveWrongNumber, Receives
  <2>2. DevOK' /\ toHost' \in Seq(Characters)
    BY <1>1, <1>2, <2>1, CloseKeeps, Replies, Codes DEF Cancel, Exits
  <2> QED
    BY <1>3, <1>4, <1>6, <2>1, <2>2
<1>10. CASE ReceiveBadCrc
  <2>1. Reply(<<"NAK">>) /\ Kept /\ dev' = dev /\ toDevice # <<>> /\ toDevice' = Tail(toDevice)
    BY <1>10 DEF ReceiveBadCrc, Receives
  <2>2. toHost' \in Seq(Characters)
    BY <1>1, <2>1, Replies, Codes
  <2> QED
    BY <1>3, <1>4, <1>5, <1>6, <2>1, <2>2
<1>11. CASE ReceiveEof
  <2>1. EndOfFile /\ dev.open /\ toDevice # <<>> /\ toDevice' = Tail(toDevice)
    BY <1>11 DEF ReceiveEof, Receives
  <2>2. DevOK' /\ StoreOK' /\ toHost' \in Seq(Characters)
    BY <1>1, <1>2, <2>1, EndOfFileKeeps
  <2> QED
    BY <1>3, <1>6, <2>1, <2>2
<1>12. CASE ReceiveStartless
  <2>1. toDevice # <<>> /\ dev.open
    BY <1>12 DEF ReceiveStartless, Receives
  <2>2. toDevice' = <<Simple("noise", "none")>> \o Tail(toDevice)
    BY <1>12 DEF ReceiveStartless
  <2>3. Simple("noise", "none") \in Written
    BY DEF Simple, Written, Others
  <2>4. toDevice' \in Seq(Written)
    BY <1>6, <2>1, <2>2, <2>3
  <2>5. CASE Cancel("cancel") /\ Kept
    BY <1>1, <1>2, <1>3, <1>4, <2>4, <2>5, CloseKeeps, Replies, Codes DEF Cancel, Exits
  <2>6. CASE (Close("timeout") \/ Close("error")) /\ Kept /\ UNCHANGED toHost
    BY <1>1, <1>2, <1>3, <1>4, <2>4, <2>6, CloseKeeps DEF Exits
  <2>7. CASE EndOfFile
    BY <1>1, <1>2, <1>3, <2>1, <2>4, <2>7, EndOfFileKeeps
  <2>8. CASE (Close("unknown") \/ UNCHANGED dev) /\ Kept /\ UNCHANGED toHost
    BY <1>1, <1>2, <1>3, <1>4, <1>5, <2>4, <2>8, CloseKeeps DEF Exits
  <2>9. dev.frame = 1 \/ dev.frame > 1
    BY <1>1 DEF DevOK, DevType
  <2> QED
    BY <1>12, <2>5, <2>6, <2>7, <2>8, <2>9 DEF ReceiveStartless
<1>13. CASE ReceiveNoise
  <2>1. toDevice # <<>> /\ dev.open /\ toDevice' = Tail(toDevice) /\ Kept
    BY <1>13 DEF ReceiveNoise
  <2>2. CASE (Close("unknown") \/ Close("timeout")) /\ UNCHANGED toHost
    BY <1>1, <1>2, <1>3, <1>4, <1>6, <2>1, <2>2, CloseKeeps DEF Exits
  <2>3. CASE UNCHANGED <<dev, toHost>>
    BY <1>1, <1>3, <1>4, <1>5, <1>6, <2>1, <2>3
  <2>4. CASE dev.frame = 1 /\ Continue(dev)
    <3>1. dev \in NextDev
      <4>1. 1 \in Nat \ {0} /\ TRUE \in BOOLEAN
        OBVIOUS
      <4> QED
        BY <1>1, <4>1, DevIsNext
    <3>2. dev.deadline => dev.staged = <<>> /\ message' = Former
      BY <1>1, <2>1 DEF DevOK, DeadlineOff, Kept
    <3>3. DevOK' /\ toHost' \in Seq(Characters)
      BY <1>1, <1>2, <2>4, <3>1, <3>2, ContinueKeeps
    <3> QED
      BY <1>3, <1>4, <1>6, <2>1, <3>3
  <2>5. CASE Cancel("cancel")
    BY <1>1, <1>2, <1>3, <1>4, <1>6, <2>1, <2>5, CloseKeeps, Replies, Codes DEF Cancel, Exits
  <2> QED
    BY <1>13, <2>2, <2>3, <2>4, <2>5 DEF ReceiveNoise
<1>14. CASE ReceiveCommand
  <2>1. toDevice # <<>> /\ toDevice' = Tail(toDevice) /\ Kept
    BY <1>14 DEF ReceiveCommand, Receives
  <2>2. CASE ValidateMode(Head(toDevice).mode)
    <3>1. DevOK' /\ toHost' \in Seq(Characters)
      BY <1>1, <1>2, <2>2, ValidateModeKeeps
    <3> QED
      BY <1>3, <1>4, <1>6, <2>1, <3>1
  <2>3. CASE Close("unknown") /\ UNCHANGED toHost
    BY <1>1, <1>2, <1>3, <1>4, <1>6, <2>1, <2>3, CloseKeeps DEF Exits
  <2>4. dev.frame = 1 \/ dev.frame > 1
    BY <1>1 DEF DevOK, DevType
  <2> QED
    BY <1>14, <2>2, <2>3, <2>4 DEF ReceiveCommand
<1>15. CASE StartTimeout
  <2>1. toDevice' = toDevice /\ Kept
    BY <1>15 DEF StartTimeout
  <2>2. CASE Reply(<<"C">>) /\ UNCHANGED dev
    BY <1>1, <1>3, <1>4, <1>5, <2>1, <2>2, Replies, Codes
  <2>3. CASE Close("timeout") /\ UNCHANGED toHost
    BY <1>1, <1>2, <1>3, <1>4, <2>1, <2>3, CloseKeeps DEF Exits
  <2> QED
    BY <1>15, <2>2, <2>3 DEF StartTimeout
<1>16. CASE Inactivity
  <2>1. Close("inactivity") /\ UNCHANGED <<flash, ownerPage>> /\ message' \in {message, Skip}
    BY <1>16 DEF Inactivity
  <2>2. DevOK'
    BY <1>1, <1>2, <2>1, CloseKeeps DEF Exits
  <2>3. StoreOK'
    <3>1. Skip \in Data
      BY <1>1 DEF Skip, Block, Data, StoreOK
    <3> QED
      BY <1>1, <1>2, <2>1, <3>1 DEF StoreOK, RunningCodeUntouched, Data
  <2>4. toDevice' \in Seq(Written)
    BY <1>1, <1>6, <1>16 DEF Inactivity
  <2>5. toHost' \in Seq(Characters)
    BY <1>1, <1>16, Replies, Codes DEF Inactivity
  <2> QED
    BY <1>3, <2>2, <2>3, <2>4, <2>5
<1>17. CASE Output
  <2>1. Reply(<<"text">>) /\ UNCHANGED <<toDevice, devVars>>
    BY <1>17 DEF Output
  <2>2. toHost' \in Seq(Characters)
    BY <1>1, <2>1, Replies, Codes
  <2> QED
    BY <1>1, <1>3, <1>4, <1>5, <2>1, <2>2 DEF devVars, Kept
<1> QED
  BY <1>2, <1>7, <1>8, <1>9, <1>10, <1>11, <1>12, <1>13, <1>14, <1>15, <1>16, <1>17
  DEF DeviceNext

-----------------------------------------------------------------------------
(* The steps of the host and of the line.                                  *)
LEMMA SentIsWritten ==
  ASSUME NEW h, h.block \in Nat, h.at \in 1 .. Len(script)
  PROVE  Frame(h.block, Block(h.at, h.block)) \in Written
<1>1. h.block % FrameModulus \in 0 .. FrameModulus - 1
  BY RescueAssumption
<1>2. Block(h.at, h.block) \in Requested
  BY DEF Block, Requested
<1> HIDE DEF Block
<1> QED
  BY <1>1, <1>2 DEF Frame, Written, Frames

(* What the steps of the host preserve of its own state.                   *)
HostStates ==
  [pc : {"idle", "mode", "start", "data", "eof", "failed", "refused"},
   at : 1 .. Len(script) + 1, block : Nat, errors : 0 .. MaxErrors,
   cancels : 0 .. 2, last : Characters \cup {"none"}]

GoodHost(h) ==
  /\ h \in HostStates
  /\ h.pc # "idle" => h.at <= Len(script)
  /\ h.pc # "failed" => h.cancels < 2 /\ h.errors < MaxErrors

LEMMA HostParts ==
  HostOK <=> script \in Scripts /\ GoodHost(host) /\ faults \in 0 .. MaxFaults
BY DEF HostOK, GoodHost, HostStates, RetriesLeft

(* A host that is not idle goes somewhere, and keeps its counters or       *)
(* resets them.                                                            *)
LEMMA Goes ==
  ASSUME GoodHost(host), host.pc # "idle", Len(script) \in Nat
  PROVE  /\ \A pc \in {"mode", "start", "data", "eof", "failed", "refused"} :
              host.pc # "failed" => GoodHost([host EXCEPT !.pc = pc])
         /\ host.pc # "failed" =>
              GoodHost([host EXCEPT !.pc = "data", !.block = @ + 1, !.cancels = 0])
         /\ \A c \in Characters : host.pc # "failed" =>
              GoodHost([host EXCEPT !.pc = "idle", !.at = @ + 1, !.last = c])
<1> USE HostAssumption
<1>1. /\ host \in HostStates /\ host.at <= Len(script)
      /\ host.pc # "failed" => host.cancels < 2 /\ host.errors < MaxErrors
  BY DEF GoodHost
<1>2. ASSUME NEW pc \in {"mode", "start", "data", "eof", "failed", "refused"}, host.pc # "failed"
      PROVE  GoodHost([host EXCEPT !.pc = pc])
  BY <1>1, <1>2 DEF GoodHost, HostStates
<1>3. ASSUME host.pc # "failed"
      PROVE  GoodHost([host EXCEPT !.pc = "data", !.block = @ + 1, !.cancels = 0])
  <2> DEFINE h == [host EXCEPT !.pc = "data", !.block = @ + 1, !.cancels = 0]
  <2>1. host.block + 1 \in Nat /\ 0 \in 0 .. 2
    BY <1>1 DEF HostStates
  <2>2. h \in HostStates
    BY <1>1, <2>1 DEF HostStates
  <2>3. h.at = host.at /\ h.cancels = 0 /\ h.errors = host.errors
    BY <1>1 DEF HostStates
  <2> HIDE DEF h
  <2>4. GoodHost(h)
    BY <1>1, <1>3, <2>2, <2>3 DEF GoodHost
  <2> QED
    BY <2>4 DEF h
<1>4. ASSUME NEW c \in Characters, host.pc # "failed"
      PROVE  GoodHost([host EXCEPT !.pc = "idle", !.at = @ + 1, !.last = c])
  <2> DEFINE h == [host EXCEPT !.pc = "idle", !.at = @ + 1, !.last = c]
  <2>1. host.at + 1 \in 1 .. Len(script) + 1
    BY <1>1 DEF HostStates
  <2>2. h \in HostStates
    BY <1>1, <2>1 DEF HostStates
  <2>3. h.pc = "idle" /\ h.cancels = host.cancels /\ h.errors = host.errors
    BY <1>1 DEF HostStates
  <2> HIDE DEF h
  <2>4. GoodHost(h)
    BY <1>1, <1>4, <2>2, <2>3 DEF GoodHost
  <2> QED
    BY <2>4 DEF h
<1> QED
  BY <1>2, <1>3, <1>4

LEMMA HostStepKeeps ==
  ASSUME IInv, HostNext
  PROVE  IInv'
<1> USE RescueAssumption, HostAssumption
<1>1. toDevice \in Seq(Written) /\ toHost \in Seq(Characters) /\ DeviceOK
  BY Parts DEF Channels, Written
<1>2. script \in Scripts /\ GoodHost(host) /\ faults \in 0 .. MaxFaults
  BY Parts, HostParts
<1>3. UNCHANGED <<script, devVars, faults>>
  BY DEF HostNext, SendMode, SkipMode, AwaitMode, ModeTimeout, AwaitStart, AwaitReply,
         AwaitFinish, HostKeeps
<1>4. Len(script) \in Nat
  BY <1>2, LenProperties
<1>5. ASSUME NEW h, GoodHost(h), host' = h,
             toDevice' \in Seq(Written), toHost' \in Seq(Characters)
      PROVE  IInv'
  <2>1. Channels'
    BY <1>3, <1>5 DEF Channels, Written, Frames, Others, Requested
  <2>2. DeviceOK'
    BY <1>1, <1>3 DEF DeviceOK, devVars, DevType, Requested, Data, RegionChosen, Bank,
                      DeadlineOff, RunningCodeUntouched
  <2>3. HostOK'
    BY <1>2, <1>3, <1>5 DEF HostOK, GoodHost, HostStates, RetriesLeft
  <2> QED
    BY <2>1, <2>2, <2>3, Parts, PTL
<1>6. ASSUME toHost # <<>>
      PROVE  Head(toHost) \in Characters /\ Tail(toHost) \in Seq(Characters)
  BY <1>1, <1>6, HeadTailProperties
<1>7. ASSUME NEW m \in Written, Write(m) PROVE toDevice' \in Seq(Written)
  BY <1>1, <1>7 DEF Write
<1>8. ASSUME NEW h, GoodHost(h), h.pc # "idle", SendBlock(h)
      PROVE  host' = h /\ toDevice' \in Seq(Written)
  <2>1. Frame(h.block, Block(h.at, h.block)) \in Written
    <3>1. h.block \in Nat /\ h.at \in 1 .. Len(script)
      BY <1>4, <1>8 DEF GoodHost, HostStates
    <3> QED
      BY <3>1, SentIsWritten
  <2> QED
    BY <1>7, <1>8, <2>1 DEF SendBlock
<1>9. ASSUME host.pc \in {"start", "data"}, SendNext(host)
      PROVE  \E h : GoodHost(h) /\ host' = h /\ toDevice' \in Seq(Written)
  <2>1. CASE SendBlock([host EXCEPT !.pc = "data", !.block = @ + 1, !.cancels = 0])
    <3> DEFINE h == [host EXCEPT !.pc = "data", !.block = @ + 1, !.cancels = 0]
    <3>1. GoodHost(h)
      BY <1>2, <1>4, <1>9, Goes
    <3>2. h.pc # "idle"
      BY <1>2 DEF GoodHost, HostStates
    <3> HIDE DEF h
    <3>3. SendBlock(h)
      BY <2>1 DEF h
    <3> QED
      BY <1>8, <3>1, <3>2, <3>3
  <2>2. CASE host' = [host EXCEPT !.pc = "eof"] /\ Write(Simple("eof", "none"))
    <3>1. Simple("eof", "none") \in Written
      BY DEF Simple, Written, Others
    <3>2. GoodHost([host EXCEPT !.pc = "eof"])
      BY <1>2, <1>4, <1>9, Goes
    <3> QED
      BY <1>7, <2>2, <3>1, <3>2
  <2> QED
    BY <1>9, <2>1, <2>2 DEF SendNext
<1>10. CASE SendMode
  <2>1. host.pc = "idle" /\ host.at <= Len(script) /\ Request.mode # "none"
    BY <1>10 DEF SendMode
  <2>2. Request.mode \in Commands
    <3>1. script \in Seq([mode : Commands \cup {"none"}, len : Nat, romExt : BOOLEAN,
                          type : {"none", "unlock", "activate"}])
      BY <1>2
    <3>2. host.at \in 1 .. Len(script)
      BY <1>2, <1>4, <2>1 DEF GoodHost, HostStates
    <3>3. Request \in [mode : Commands \cup {"none"}, len : Nat, romExt : BOOLEAN,
                       type : {"none", "unlock", "activate"}]
      BY <3>1, <3>2, ElementOfSeq DEF Request
    <3> QED
      BY <2>1, <3>3
  <2>3. Simple("command", Request.mode) \in Written
    BY <2>2 DEF Simple, Written, Others
  <2>4. toDevice' \in Seq(Written) /\ toHost' \in Seq(Characters)
    BY <1>1, <1>7, <1>10, <2>3 DEF SendMode
  <2> DEFINE h == [host EXCEPT !.pc = "mode", !.block = 0, !.errors = 0, !.cancels = 0]
  <2>5. GoodHost(h)
    <3>1. 0 \in Nat /\ 0 \in 0 .. 2 /\ 0 \in 0 .. MaxErrors /\ 0 < MaxErrors /\ 0 < 2
      OBVIOUS
    <3>2. h \in HostStates
      BY <1>2, <3>1 DEF GoodHost, HostStates
    <3>3. h.at = host.at /\ h.cancels = 0 /\ h.errors = 0
      BY <1>2 DEF GoodHost, HostStates
    <3> HIDE DEF h
    <3> QED
      BY <2>1, <3>1, <3>2, <3>3 DEF GoodHost
  <2>6. host' = h
    BY <1>10 DEF SendMode
  <2> HIDE DEF h
  <2> QED
    BY <1>5, <2>4, <2>5, <2>6
<1>11. CASE SkipMode
  <2> DEFINE h == [host EXCEPT !.pc = "start"]
  <2>1. host' = h /\ UNCHANGED <<toDevice, toHost>> /\ host.at <= Len(script) /\ host.pc = "idle"
    BY <1>11 DEF SkipMode
  <2>2. GoodHost(h)
    BY <1>2, <2>1 DEF GoodHost, HostStates
  <2> HIDE DEF h
  <2> QED
    BY <1>1, <1>5, <2>1, <2>2
<1>12. CASE ModeTimeout
  <2> DEFINE h == [host EXCEPT !.pc = "failed"]
  <2>1. host' = h /\ UNCHANGED <<toDevice, toHost>> /\ host.pc = "mode"
    BY <1>12 DEF ModeTimeout
  <2>2. GoodHost(h)
    BY <1>2, <1>4, <2>1, Goes
  <2> HIDE DEF h
  <2> QED
    BY <1>1, <1>5, <2>1, <2>2
<1>13. CASE AwaitMode
  <2>1. /\ toHost # <<>> /\ toHost' = Tail(toHost) /\ host.pc = "mode"
        /\ UNCHANGED toDevice
    BY <1>13 DEF AwaitMode, Reads
  <2>2. \/ host' = [host EXCEPT !.pc = "refused"]
        \/ host' = [host EXCEPT !.pc = "idle", !.at = @ + 1, !.last = "ok"]
        \/ host' = [host EXCEPT !.pc = "start"]
        \/ host' = host
    BY <1>13 DEF AwaitMode
  <2>3. \E h : GoodHost(h) /\ host' = h
    <3>1. "ok" \in Characters
      BY DEF Characters
    <3> QED
      BY <1>2, <1>4, <2>1, <2>2, <3>1, Goes
  <2> QED
    BY <1>1, <1>5, <1>6, <2>1, <2>3
<1>14. CASE AwaitStart
  <2>1. toHost # <<>> /\ toHost' = Tail(toHost) /\ host.pc = "start"
    BY <1>14 DEF AwaitStart, Reads
  <2>2. CASE SendNext(host)
    BY <1>5, <1>6, <1>9, <2>1, <2>2
  <2>3. CASE host' \in {[host EXCEPT !.pc = "failed"], host} /\ UNCHANGED toDevice
    <3>1. \E h : GoodHost(h) /\ host' = h
      BY <1>2, <1>4, <2>1, <2>3, Goes
    <3> QED
      BY <1>1, <1>5, <1>6, <2>1, <2>3, <3>1
  <2>4. CASE /\ host' = [host EXCEPT !.cancels = @ + 1] /\ ~(host.cancels >= 1)
             /\ UNCHANGED toDevice
    <3> DEFINE h == [host EXCEPT !.cancels = @ + 1]
    <3>1. host.cancels + 1 = 1 /\ 1 \in 0 .. 2
      BY <1>2, <2>4 DEF GoodHost, HostStates
    <3>2. h \in HostStates
      BY <1>2, <3>1 DEF GoodHost, HostStates
    <3>3. h.pc = host.pc /\ h.at = host.at /\ h.cancels = 1 /\ h.errors = host.errors
      BY <1>2, <3>1 DEF GoodHost, HostStates
    <3> HIDE DEF h
    <3>4. GoodHost(h)
      BY <1>2, <3>2, <3>3 DEF GoodHost
    <3>5. host' = h
      BY <2>4 DEF h
    <3> QED
      BY <1>1, <1>5, <1>6, <2>1, <2>4, <3>4, <3>5
  <2> QED
    BY <1>14, <2>2, <2>3, <2>4 DEF AwaitStart
<1>15. CASE AwaitReply
  <2> DEFINE h == IF Head(toHost) = "CAN" THEN [host EXCEPT !.cancels = @ + 1]
                  ELSE [host EXCEPT !.errors = @ + 1]
  <2>1. toHost # <<>> /\ toHost' = Tail(toHost) /\ host.pc = "data"
    BY <1>15 DEF AwaitReply, Reads
  <2>2. \/ SendNext(host)
        \/ host' = [h EXCEPT !.pc = "failed"] /\ UNCHANGED toDevice
        \/ h.cancels < 2 /\ h.errors < MaxErrors /\ SendBlock(h)
    BY <1>15 DEF AwaitReply
  <2>3. h \in HostStates /\ h.at = host.at /\ h.pc = "data" /\ host.at <= Len(script)
    <3>1. host \in HostStates /\ host.at <= Len(script)
      BY <1>2, <2>1 DEF GoodHost
    <3>2. host.cancels + 1 \in 0 .. 2 /\ host.errors + 1 \in 0 .. MaxErrors
      BY <1>2, <2>1 DEF GoodHost, HostStates
    <3> QED
      BY <2>1, <3>1, <3>2 DEF HostStates
  <2> HIDE DEF h
  <2>4. CASE SendNext(host)
    BY <1>5, <1>6, <1>9, <2>1, <2>4
  <2>5. CASE host' = [h EXCEPT !.pc = "failed"] /\ UNCHANGED toDevice
    <3>1. GoodHost([h EXCEPT !.pc = "failed"])
      BY <2>3 DEF GoodHost, HostStates
    <3> QED
      BY <1>1, <1>5, <1>6, <2>1, <2>5, <3>1
  <2>6. CASE h.cancels < 2 /\ h.errors < MaxErrors /\ SendBlock(h)
    <3>1. GoodHost(h)
      BY <2>3, <2>6 DEF GoodHost
    <3> QED
      BY <1>5, <1>6, <1>8, <2>1, <2>3, <2>6, <3>1
  <2> QED
    BY <2>2, <2>4, <2>5, <2>6
<1>16. CASE AwaitFinish
  <2>1. /\ toHost # <<>> /\ toHost' = Tail(toHost) /\ host.pc = "eof" /\ UNCHANGED toDevice
        /\ host' = [host EXCEPT !.pc = "idle", !.at = @ + 1, !.last = Head(toHost)]
    BY <1>16 DEF AwaitFinish, Reads
  <2>2. GoodHost([host EXCEPT !.pc = "idle", !.at = @ + 1, !.last = Head(toHost)])
    BY <1>2, <1>4, <1>6, <2>1, Goes
  <2> QED
    BY <1>1, <1>5, <1>6, <2>1, <2>2
<1> QED
  BY <1>10, <1>11, <1>12, <1>13, <1>14, <1>15, <1>16 DEF HostNext

LEMMA LineKeeps ==
  ASSUME IInv, Line
  PROVE  IInv'
<1> USE RescueAssumption, HostAssumption
<1>1. toDevice \in Seq(Written) /\ toHost \in Seq(Characters) /\ DeviceOK /\ HostOK
  BY Parts DEF Channels, Written
<1>2. UNCHANGED <<script, devVars, host>>
  BY DEF Line
<1>3. faults' \in 0 .. MaxFaults
  <2>1. PICK kind : Fault(kind)
    BY DEF Line, DamageFrame, DamageOther, DamageReply
  <2>2. faults < MaxFaults /\ faults' = faults + 1 /\ faults \in Nat /\ MaxFaults \in Nat
    BY <1>1, <2>1 DEF Fault, HostOK, HostAssumption
  <2> QED
    BY <2>2
<1>4. ASSUME toDevice' \in Seq(Written), toHost' \in Seq(Characters)
      PROVE  IInv'
  <2>1. Channels'
    BY <1>2, <1>4 DEF Channels, Written, Frames, Others, Requested
  <2>2. DeviceOK'
    BY <1>1, <1>2 DEF DeviceOK, devVars, DevType, Requested, Data, RegionChosen, Bank,
                      DeadlineOff, RunningCodeUntouched
  <2>3. HostOK'
    BY <1>1, <1>2, <1>3 DEF HostOK, RetriesLeft
  <2> QED
    BY <2>1, <2>2, <2>3, Parts, PTL
<1>5. ASSUME toDevice # <<>>
      PROVE  /\ Tail(toDevice) \in Seq(Written)
             /\ toDevice[1] \in Written /\ Head(toDevice) = toDevice[1]
             /\ \A m \in Written : [toDevice EXCEPT ![1] = m] \in Seq(Written)
  <2>1. 1 \in 1 .. Len(toDevice)
    BY <1>1, <1>5, EmptySeq
  <2> QED
    BY <1>1, <1>5, <2>1, HeadTailProperties, ExceptSeq, ElementOfSeq
<1>6. CASE DamageFrame
  <2>1. PICK kind \in {"payload", "number", "short", "start"} :
          /\ toDevice # <<>> /\ Head(toDevice).kind = "frame"
          /\ toDevice' = [toDevice EXCEPT ![1].damage = kind]
    BY <1>6 DEF DamageFrame
  <2> DEFINE m == [toDevice[1] EXCEPT !.damage = kind]
  <2>2. m \in Written
    <3>1. toDevice[1] \in Frames
      BY <1>5, <2>1 DEF Written, Others
    <3>2. m \in Frames
      BY <3>1 DEF Frames
    <3> QED
      BY <3>2 DEF Written
  <2>3. toDevice' = [toDevice EXCEPT ![1] = m]
    BY <2>1
  <2> HIDE DEF m
  <2> QED
    BY <1>1, <1>4, <1>5, <1>6, <2>1, <2>2, <2>3 DEF DamageFrame
<1>7. CASE DamageOther
  <2>1. toDevice # <<>> /\ Head(toDevice).kind \in {"eof", "command"} /\ UNCHANGED toHost
    BY <1>7 DEF DamageOther
  <2>2. toDevice[1] \in Others
    BY <1>5, <2>1 DEF Written, Frames
  <2>3. CASE toDevice' = Tail(toDevice)
    BY <1>1, <1>4, <1>5, <2>1, <2>3
  <2>4. CASE toDevice' = [toDevice EXCEPT ![1].kind = "byte"]
    <3>1. [toDevice[1] EXCEPT !.kind = "byte"] \in Written
      BY <2>2 DEF Others, Written
    <3> QED
      BY <1>1, <1>4, <1>5, <2>1, <2>4, <3>1
  <2>5. CASE toDevice' = [toDevice EXCEPT ![1].mode = "garbled"]
    <3>1. [toDevice[1] EXCEPT !.mode = "garbled"] \in Written
      BY <2>2 DEF Others, Written, Commands
    <3> QED
      BY <1>1, <1>4, <1>5, <2>1, <2>5, <3>1
  <2> QED
    BY <1>7, <2>3, <2>4, <2>5 DEF DamageOther
<1>8. CASE DamageReply
  <2>1. toHost # <<>> /\ UNCHANGED toDevice
    BY <1>8 DEF DamageReply
  <2>2. 1 \in 1 .. Len(toHost) /\ "text" \in Characters
    BY <1>1, <2>1, EmptySeq DEF Characters
  <2>3. toHost' \in Seq(Characters)
    <3>1. Tail(toHost) \in Seq(Characters)
      BY <1>1, <2>1, HeadTailProperties
    <3>2. [toHost EXCEPT ![1] = "text"] \in Seq(Characters)
      BY <1>1, <2>2, ExceptSeq
    <3> QED
      BY <1>8, <3>1, <3>2 DEF DamageReply
  <2> QED
    BY <1>1, <1>4, <2>1, <2>3
<1> QED
  BY <1>6, <1>7, <1>8 DEF Line

-----------------------------------------------------------------------------
(* The invariant holds in every behaviour.                                 *)
THEOREM InductiveInvariant == Spec => []IInv
<1>1. ASSUME IInv, [Next]_vars PROVE IInv'
  <2>1. CASE Device
    BY <1>1, <2>1, DeviceKeeps
  <2>2. CASE HostNext
    BY <1>1, <2>2, HostStepKeeps
  <2>3. CASE Line
    BY <1>1, <2>3, LineKeeps
  <2>4. CASE UNCHANGED vars
    <3>1. Channels'
      BY <1>1, <2>4, Parts DEF Channels, vars, Frames, Others, Requested
    <3>2. DeviceOK'
      BY <1>1, <2>4, Parts
      DEF DeviceOK, vars, DevType, Requested, Data, RegionChosen, Bank, DeadlineOff,
          RunningCodeUntouched
    <3>3. HostOK'
      BY <1>1, <2>4, Parts DEF HostOK, vars, RetriesLeft
    <3> QED
      BY <3>1, <3>2, <3>3, Parts, PTL
  <2> QED
    BY <1>1, <2>1, <2>2, <2>3, <2>4 DEF Next
<1> QED
  BY InitInv, <1>1, PTL DEF Spec

(* Every variable keeps its type: the write offset stays in the rescue     *)
(* region, and the page buffer holds at most two blocks of a request.      *)
THEOREM TypeCorrect == Spec => []TypeOK
<1>1. IInv => TypeOK
  BY DEF IInv
<1> QED
  BY <1>1, InductiveInvariant, PTL

(* Rescue never erases or programs the ROM_EXT it runs from, nor anything  *)
(* behind the rescue region.                                               *)
THEOREM RunningCodeSafe == Spec => []RunningCodeUntouched
<1>1. IInv => RunningCodeUntouched
  BY DEF IInv
<1> QED
  BY <1>1, InductiveInvariant, PTL

(* The request to skip rescue never replaces a request of the host.        *)
THEOREM SkipHarmless == Spec => SkipKeepsRequest
<1>1. ASSUME IInv, [Next]_vars, message \notin {Former, Skip}
      PROVE  message' # Skip
  <2>1. DevOK /\ toDevice \in Seq(Written)
    BY <1>1, Parts DEF Channels, Written, DeviceOK, DevOK
  <2>2. ASSUME NEW s, NEW d, s[1] \in Requested, Handle(s, d)
        PROVE  message' # Skip
    <3>1. s[1] # Skip
      BY <2>2 DEF Requested, Skip, Block
    <3> QED
      BY <1>1, <2>2, <3>1 DEF Handle, FirmwareBlock, OwnerBlock, BootSvcReq
  <2>3. ASSUME EndOfFile PROVE message' # Skip
    <3>1. CASE Len(dev.staged) = 1
      BY <2>1, <2>2, <2>3, <3>1, FirstRequested DEF EndOfFile
    <3>2. CASE Len(dev.staged) # 1
      BY <1>1, <2>3, <3>2 DEF EndOfFile, Kept
    <3> QED
      BY <3>1, <3>2
  <2>4. CASE ReceiveFrame
    <3>1. toDevice # <<>> /\ Head(toDevice).kind = "frame"
      BY <2>4 DEF ReceiveFrame, Receives
    <3>2. Head(toDevice).block \in Requested
      BY <2>1, <3>1, HeadTailProperties DEF Written, Frames, Others
    <3> QED
      BY <2>1, <2>2, <2>4, <3>2, FirstRequested DEF ReceiveFrame
  <2>5. CASE ReceiveEof \/ ReceiveStartless
    BY <1>1, <2>3, <2>5 DEF ReceiveEof, ReceiveStartless, Kept
  <2>6. CASE \/ ReceiveOverrun \/ ReceiveWrongNumber \/ ReceiveBadCrc \/ ReceiveShort
             \/ ReceiveNoise \/ ReceiveCommand \/ StartTimeout \/ Output
    BY <1>1, <2>6
    DEF ReceiveOverrun, ReceiveWrongNumber, ReceiveBadCrc, ReceiveShort, ReceiveNoise,
        ReceiveCommand, StartTimeout, Output, Kept, devVars
  <2>7. CASE Inactivity
    BY <1>1, <2>1, <2>7 DEF Inactivity, DevOK, DeadlineOff
  <2>8. CASE UNCHANGED message
    BY <1>1, <2>8
  <2>9. HostNext \/ Line \/ UNCHANGED vars => UNCHANGED message
    BY DEF HostNext, SendMode, SkipMode, AwaitMode, ModeTimeout, AwaitStart, AwaitReply,
           AwaitFinish, HostKeeps, Line, devVars, vars
  <2> QED
    BY <1>1, <2>4, <2>5, <2>6, <2>7, <2>8, <2>9 DEF Next, Device, DeviceNext
<1>2. IInv /\ [Next]_vars => [message \notin {Former, Skip} => message' # Skip]_vars
  BY <1>1
<1> QED
  BY <1>2, InductiveInvariant, PTL DEF Spec, SkipKeepsRequest
-----------------------------------------------------------------------------
(* Sequences, by their elements.                                           *)
LEMMA TailAt ==
  ASSUME NEW S, NEW s \in Seq(S), s # <<>>
  PROVE  /\ Len(s) \in Nat /\ Len(s) >= 1 /\ Head(s) = s[1] /\ Head(s) \in S
         /\ Tail(s) \in Seq(S) /\ Len(Tail(s)) = Len(s) - 1
         /\ \A i \in 1 .. Len(Tail(s)) : Tail(s)[i] = s[i + 1] /\ i + 1 \in 1 .. Len(s) /\ i \in Nat
<1>1. Len(s) \in Nat /\ Len(s) # 0
  BY EmptySeq, LenProperties
<1> QED
  BY <1>1, HeadTailProperties

LEMMA AddAt ==
  ASSUME NEW S, NEW s \in Seq(S), NEW x \in S
  PROVE  /\ Append(s, x) = s \o <<x>> /\ Append(s, x) \in Seq(S)
         /\ Len(s) \in Nat /\ Len(Append(s, x)) = Len(s) + 1
         /\ \A i \in 1 .. Len(s) : Append(s, x)[i] = s[i]
         /\ Append(s, x)[Len(s) + 1] = x
BY AppendProperties, LenProperties

LEMMA AddTwoAt ==
  ASSUME NEW S, NEW s \in Seq(S), NEW x \in S
  PROVE  /\ s \o <<x, x>> \in Seq(S)
         /\ Len(s) \in Nat /\ Len(s \o <<x, x>>) = Len(s) + 2
         /\ \A i \in 1 .. Len(s) : (s \o <<x, x>>)[i] = s[i]
         /\ \A i \in Len(s) + 1 .. Len(s) + 2 : (s \o <<x, x>>)[i] = x
<1>1. <<x, x>> \in Seq(S) /\ Len(<<x, x>>) = 2
  OBVIOUS
<1>2. Len(s) \in Nat
  BY LenProperties
<1>3. s \o <<x, x>> \in Seq(S) /\ Len(s \o <<x, x>>) = Len(s) + 2
  BY <1>1, ConcatProperties
<1>4. \A i \in 1 .. Len(s) + 2 : (s \o <<x, x>>)[i] = IF i <= Len(s) THEN s[i] ELSE <<x, x>>[i - Len(s)]
  BY <1>1, ConcatProperties
<1>5. ASSUME NEW i \in Len(s) + 1 .. Len(s) + 2 PROVE (s \o <<x, x>>)[i] = x
  <2>1. i - Len(s) \in 1 .. 2 /\ i \in 1 .. Len(s) + 2 /\ ~(i <= Len(s))
    BY <1>2
  <2>2. <<x, x>>[i - Len(s)] = x
    BY <2>1
  <2> QED
    BY <1>4, <2>1, <2>2
<1> QED
  BY <1>2, <1>3, <1>4, <1>5

(* Frame numbers tell a frame from the one before.                         *)
LEMMA Numbers ==
  ASSUME FrameModulus > 1, NEW n \in Nat \ {0}, NEW k \in {n - 1, n},
         k % FrameModulus = n % FrameModulus
  PROVE  k = n
<1>1. FrameModulus \in Nat \ {0, 1}
  BY RescueAssumption
<1>2. SUFFICES ASSUME k = n - 1 PROVE FALSE
  OBVIOUS
<1>3. \A x \in Nat : x = FrameModulus * (x \div FrameModulus) + (x % FrameModulus)
                     /\ x \div FrameModulus \in Nat
  BY <1>1
<1>4. k \in Nat
  BY <1>2
<1> DEFINE a == n \div FrameModulus
           b == k \div FrameModulus
<1>5. FrameModulus * a - FrameModulus * b = 1 /\ a \in Nat /\ b \in Nat
  BY <1>1, <1>2, <1>3, <1>4
<1> HIDE DEF a, b
<1>6. FrameModulus * (a - b) = 1
  BY <1>1, <1>5
<1>7. a - b \in Int /\ (a - b <= 0 \/ a - b >= 1)
  BY <1>5
<1>8. CASE a - b <= 0
  BY <1>1, <1>6, <1>7, <1>8
<1>9. CASE a - b >= 1
  BY <1>1, <1>6, <1>7, <1>9
<1> QED
  BY <1>7, <1>8, <1>9

-----------------------------------------------------------------------------
(* Blocks in flash.                                                        *)

(* Block n of r is in f, or was read and thrown away.                      *)
Holds(f, r, n) ==
  \/ Place(r, n) \in Pages /\ f[BankOf(r)][Place(r, n)][Half(n)] = Block(r, n)
  \/ Discarded(r, n)

Filled(f, s, p) == f[s][p] \notin {Old, Erased, Mixed}

Begins(f, s, p, r, n) ==
  /\ BankOf(r) = s
  /\ Place(r, n) = p /\ Half(n) = 1
  /\ f[s][p][1] = Block(r, n)
  /\ f[s][p][2] \in {Block(r, n + 1), Padding}
  /\ \A m \in 1 .. n - 1 : Holds(f, r, m)

WholePrefix(f) ==
  \A s \in Slots, p \in Pages :
    /\ f[s][p] # Mixed
    /\ Filled(f, s, p) =>
         \E r \in 1 .. Len(script) : \E n \in 1 .. script[r].len : Begins(f, s, p, r, n)

LEMMA PrefixIsWhole == PrefixOfOneImage <=> WholePrefix(flash)
BY DEF PrefixOfOneImage, WholePrefix, Programmed, Filled, Begins, Holds, InFlash

LEMMA ScriptFacts ==
  ASSUME script \in Scripts
  PROVE  /\ Len(script) \in Nat
         /\ \A r \in 1 .. Len(script) :
              /\ script[r].len \in Nat /\ script[r].romExt \in BOOLEAN
              /\ script[r].mode \in Commands \cup {"none"}
              /\ script[r].mode = "none" => r = 1
<1> DEFINE R == [mode : Commands \cup {"none"}, len : Nat, romExt : BOOLEAN,
                 type : {"none", "unlock", "activate"}]
<1>1. script \in Seq(R)
  BY HostAssumption
<1>2. \A r \in 1 .. Len(script) : script[r] \in R
  BY <1>1, ElementOfSeq
<1>3. Len(script) \in Nat
  BY <1>1, LenProperties
<1> QED
  BY <1>2, <1>3, HostAssumption

LEMMA Places ==
  ASSUME NEW r \in Nat, NEW n \in Nat \ {0}
  PROVE  /\ Base(r) \in {0, FlashStart} /\ Place(r, n) \in Nat /\ Half(n) \in {1, 2}
         /\ BankOf(r) \in Slots
         /\ \A m \in 1 .. n : Place(r, m) \in Nat /\ Place(r, m) <= Place(r, n) /\ Half(m) \in {1, 2}
<1> USE RescueAssumption
<1>1. Base(r) \in {0, FlashStart} /\ Base(r) \in Nat
  BY DEF Base
<1>2. ASSUME NEW m \in 1 .. n PROVE Place(r, m) \in Nat /\ Place(r, m) <= Place(r, n) /\ Half(m) \in {1, 2}
  <2>1. (m - 1) \div 2 \in Nat /\ (m - 1) \div 2 <= (n - 1) \div 2 /\ (m - 1) % 2 \in {0, 1}
    OBVIOUS
  <2> QED
    BY <1>1, <2>1 DEF Place, Half
<1>3. n \in 1 .. n
  OBVIOUS
<1>4. BankOf(r) \in Slots
  BY DEF BankOf, Slots
<1> QED
  BY <1>1, <1>2, <1>3, <1>4

(* Two blocks that share a page.                                           *)
LEMMA PairPlace ==
  ASSUME NEW r \in Nat, NEW k \in Nat
  PROVE  /\ Place(r, 2 * k + 1) = Base(r) + k /\ Half(2 * k + 1) = 1
         /\ Place(r, 2 * k + 2) = Base(r) + k /\ Half(2 * k + 2) = 2
<1>1. (2 * k) \div 2 = k /\ (2 * k) % 2 = 0 /\ (2 * k + 1) \div 2 = k /\ (2 * k + 1) % 2 = 1
  OBVIOUS
<1>2. 2 * k + 1 - 1 = 2 * k /\ 2 * k + 2 - 1 = 2 * k + 1
  OBVIOUS
<1> QED
  BY <1>1, <1>2 DEF Place, Half

(* Erasing the region from lo on, in bank b.                               *)
ErasedFrom(f, b, lo) ==
  [f EXCEPT ![b] = [p \in Pages |-> IF lo <= p /\ p < FlashLimit THEN Erased ELSE @[p]]]

FlashType == [Slots -> [Pages -> Data \X Data]]

LEMMA EraseAt ==
  ASSUME NEW f \in FlashType, NEW b \in Slots, NEW lo \in Nat, NEW s \in Slots, NEW p \in Pages
  PROVE  ErasedFrom(f, b, lo)[s][p] =
           IF s = b /\ lo <= p /\ p < FlashLimit THEN Erased ELSE f[s][p]
<1> DEFINE g == [q \in Pages |-> IF lo <= q /\ q < FlashLimit THEN Erased ELSE f[b][q]]
<1>1. ErasedFrom(f, b, lo) = [f EXCEPT ![b] = g]
  BY DEF ErasedFrom, FlashType
<1>2. g[p] = IF lo <= p /\ p < FlashLimit THEN Erased ELSE f[b][p]
  OBVIOUS
<1> HIDE DEF g
<1> QED
  BY <1>1, <1>2 DEF FlashType

LEMMA EraseKeepsPrefix ==
  ASSUME script \in Scripts, NEW f \in FlashType, NEW b \in Slots, NEW lo \in {0, FlashStart},
         \A s \in Slots, p \in Pages : p >= FlashLimit => f[s][p] = Old,
         WholePrefix(f)
  PROVE  WholePrefix(ErasedFrom(f, b, lo))
<1> USE RescueAssumption
<1> DEFINE g == ErasedFrom(f, b, lo)
<1>1. \A s \in Slots, p \in Pages :
        g[s][p] = IF s = b /\ lo <= p /\ p < FlashLimit THEN Erased ELSE f[s][p]
  BY EraseAt
<1> HIDE DEF g
<1>2. SUFFICES ASSUME NEW s \in Slots, NEW p \in Pages
               PROVE  /\ g[s][p] # Mixed
                      /\ Filled(g, s, p) =>
                           \E r \in 1 .. Len(script) : \E n \in 1 .. script[r].len : Begins(g, s, p, r, n)
  BY DEF WholePrefix, g
<1>3. g[s][p] # Mixed
  <2>1. Erased # Mixed
    BY DEF Erased, Mixed, Page, Blank, Spoiled, Block
  <2> QED
    BY <1>1, <2>1 DEF WholePrefix
<1>4. ASSUME Filled(g, s, p)
      PROVE  \E r \in 1 .. Len(script) : \E n \in 1 .. script[r].len : Begins(g, s, p, r, n)
  <2>1. g[s][p] = f[s][p] /\ Filled(f, s, p) /\ p < FlashLimit /\ (s = b => p < lo)
    BY <1>1, <1>4 DEF Filled, Pages
  <2>2. PICK r \in 1 .. Len(script) : \E n \in 1 .. script[r].len : Begins(f, s, p, r, n)
    BY <2>1 DEF WholePrefix
  <2> PICK n \in 1 .. script[r].len : Begins(f, s, p, r, n)
    BY <2>2
  <2>3. r \in Nat /\ n \in Nat \ {0}
    BY ScriptFacts
  <2>4. ASSUME NEW m \in 1 .. n - 1 PROVE Holds(g, r, m)
    <3>1. Holds(f, r, m) /\ BankOf(r) = s /\ Place(r, n) = p
      BY DEF Begins
    <3>2. Place(r, m) <= p /\ Place(r, m) \in Nat
      BY <2>3, <3>1, Places
    <3>3. ASSUME Place(r, m) \in Pages PROVE g[s][Place(r, m)] = f[s][Place(r, m)]
      BY <1>1, <2>1, <3>2, <3>3 DEF Pages
    <3> QED
      BY <3>1, <3>3 DEF Holds
  <2>5. Begins(g, s, p, r, n)
    BY <2>1, <2>4 DEF Begins
  <2> QED
    BY <2>5
<1> QED
  BY <1>3, <1>4

(* Programming page q, the next one of a transfer, with v, from block n on. *)
NextPage(f, r, n, q, v) ==
  /\ f \in FlashType /\ q \in Pages
  /\ r \in 1 .. Len(script) /\ n \in 1 .. script[r].len
  /\ Half(n) = 1 /\ Place(r, n) = q
  /\ f[BankOf(r)][q] = Erased
  /\ \A m \in 1 .. n - 1 : Holds(f, r, m)
  /\ v[1] = Block(r, n) /\ v[2] \in {Block(r, n + 1), Padding}

WithPage(f, b, q, v) == [f EXCEPT ![b][q] = v]

LEMMA ProgramKeepsPrefix ==
  ASSUME script \in Scripts, NEW f, NEW r, NEW n, NEW q, NEW v, NEW g,
         WholePrefix(f), NextPage(f, r, n, q, v), g = WithPage(f, BankOf(r), q, v)
  PROVE  /\ WholePrefix(g)
         /\ \A m \in Nat \ {0} : Holds(f, r, m) => Holds(g, r, m)
         /\ \A s \in Slots, p \in Pages : s # BankOf(r) \/ p # q => g[s][p] = f[s][p]
         /\ g[BankOf(r)][q] = v
<1> USE DEF NextPage
<1>0. r \in Nat \ {0} /\ n \in Nat \ {0} /\ BankOf(r) \in Slots
  <2>1. r \in Nat \ {0} /\ n \in Nat \ {0}
    BY ScriptFacts
  <2> QED
    BY <2>1 DEF BankOf, Slots
<1>1. g[BankOf(r)][q] = v
  BY <1>0 DEF FlashType, WithPage
<1>2. \A s \in Slots, p \in Pages : s # BankOf(r) \/ p # q => g[s][p] = f[s][p]
  BY <1>0 DEF FlashType, WithPage
<1>3. v \notin {Old, Erased, Mixed}
  <2>2. Block(r, n).req # 0 /\ Old[1].req = 0 /\ Erased[1].req = 0 /\ Mixed[1].req = 0
    BY <1>0 DEF Block, Old, Erased, Mixed, Page, Former, Blank, Spoiled
  <2> QED
    BY <2>2
<1>4. ASSUME NEW t \in Nat \ {0}, NEW m \in Nat \ {0}, Holds(f, t, m) PROVE Holds(g, t, m)
  <2>1. CASE Place(t, m) \in Pages /\ f[BankOf(t)][Place(t, m)][Half(m)] = Block(t, m)
    <3>1. Erased[1].req = 0 /\ Erased[2].req = 0 /\ Half(m) \in {1, 2} /\ BankOf(t) \in Slots
      BY Places DEF Erased, Page, Blank, Block
    <3>2. Block(t, m).req = t
      BY DEF Block
    <3>3. ~(BankOf(t) = BankOf(r) /\ Place(t, m) = q)
      BY <2>1, <3>1, <3>2
    <3> QED
      BY <1>2, <2>1, <3>1, <3>3 DEF Holds
  <2>2. CASE Discarded(t, m)
    BY <2>2 DEF Holds
  <2> QED
    BY <1>4, <2>1, <2>2 DEF Holds
<1>5. ASSUME NEW s \in Slots, NEW p \in Pages
      PROVE  /\ g[s][p] # Mixed
             /\ Filled(g, s, p) =>
                  \E t \in 1 .. Len(script) : \E m \in 1 .. script[t].len : Begins(g, s, p, t, m)
  <2>1. CASE s = BankOf(r) /\ p = q
    <3>1. ASSUME NEW m \in 1 .. n - 1 PROVE Holds(g, r, m)
      <4>1. Holds(f, r, m) /\ m \in Nat \ {0}
        BY <1>0
      <4> QED
        BY <1>0, <1>4, <4>1
    <3>2. Begins(g, s, p, r, n)
      BY <1>1, <1>3, <2>1, <3>1 DEF Begins
    <3> QED
      BY <1>1, <1>3, <2>1, <3>2
  <2>2. CASE ~(s = BankOf(r) /\ p = q)
    <3>1. g[s][p] = f[s][p]
      BY <1>2, <2>2
    <3>2. ASSUME Filled(f, s, p)
          PROVE  \E t \in 1 .. Len(script) : \E m \in 1 .. script[t].len : Begins(g, s, p, t, m)
      <4>1. PICK t \in 1 .. Len(script) : \E m \in 1 .. script[t].len : Begins(f, s, p, t, m)
        BY <3>2 DEF WholePrefix
      <4> PICK m \in 1 .. script[t].len : Begins(f, s, p, t, m)
        BY <4>1
      <4>2. t \in Nat \ {0} /\ m \in Nat
        BY ScriptFacts
      <4>3. ASSUME NEW k \in 1 .. m - 1 PROVE Holds(g, t, k)
        <5>1. Holds(f, t, k)
          BY DEF Begins
        <5>2. k \in Nat \ {0}
          BY <4>2
        <5> QED
          BY <1>4, <4>2, <5>1, <5>2
      <4> QED
        BY <3>1, <4>3 DEF Begins
    <3> QED
      BY <3>1, <3>2 DEF WholePrefix, Filled
  <2> QED
    BY <2>1, <2>2
<1> QED
  BY <1>0, <1>1, <1>2, <1>4, <1>5 DEF WholePrefix

-----------------------------------------------------------------------------
(* flash_firmware_block() on the next two blocks of an image: what it      *)
(* leaves in flash is a longer beginning, and the rest of the region is    *)
(* erased, unless the session ends.                                        *)
Closed == ~dev'.open /\ (toHost' = toHost \/ toHost' = toHost \o <<"CAN", "CAN">>)

PageDone(s, d, done, last) ==
  /\ Continue([d EXCEPT !.staged = <<>>, !.offset = Offset(s) + 1, !.begin = Begin(s)])
  /\ Offset(s) = Base(host.at) + done /\ Offset(s) \in Nat
  /\ Begin(s) = IF Request.romExt /\ Bank # RomExtSlot THEN 0 ELSE FlashStart
  /\ \A m \in 1 .. 2 * done + 1 : Holds(flash', host.at, m)
  /\ last = Block(host.at, 2 * done + 2) => Holds(flash', host.at, 2 * done + 2)
  /\ \A p \in Pages :
       Begin(s) <= p /\ Offset(s) + 1 <= p /\ p < FlashLimit => flash'[Bank][p] = Erased

LEMMA CloseIsClosed ==
  ASSUME dev \in DevType, NEW why
  PROVE  /\ Close(why) /\ toHost' = toHost => Closed
         /\ Cancel(why) => Closed
BY DEF Close, Cancel, Reply, Closed, DevType

LEMMA FirmwareStep ==
  ASSUME IInv, WholePrefix(flash), ImageInOrder, Transferring, dev.mode = ModeOf(host.at),
         ModeOf(host.at) \in FirmwareModes,
         NEW done \in Nat, done = PagesDone, 2 * done + 1 <= Request.len,
         NEW last \in {Block(host.at, 2 * done + 2), Padding},
         NEW s, s = <<Block(host.at, 2 * done + 1), last>>, NEW d, FirmwareBlock(s, d)
  PROVE  /\ WholePrefix(flash')
         /\ Closed \/ PageDone(s, d, done, last)
<1> USE RescueAssumption
<1> DEFINE r == host.at
           begin == Begin(s)
           offset == Offset(s)
<1>1. /\ flash \in FlashType /\ script \in Scripts /\ dev \in DevType
      /\ r \in 1 .. Len(script) /\ Len(script) \in Nat /\ r \in Nat \ {0}
      /\ Request.len \in Nat /\ Request.romExt \in BOOLEAN
      /\ \A t \in Slots, p \in Pages : p >= FlashLimit => flash[t][p] = Old
  <2>1. /\ flash \in FlashType /\ script \in Scripts /\ dev \in DevType
        /\ host.at \in 1 .. Len(script) + 1 /\ host.at <= Len(script)
        /\ \A t \in Slots, p \in Pages : p >= FlashLimit => flash[t][p] = Old
    BY DEF IInv, TypeOK, FlashType, DevType, Transferring, RunningCodeUntouched
  <2> QED
    BY <2>1, ScriptFacts DEF Request
<1>2. Bank = BankOf(r) /\ Bank \in Slots
  BY DEF Bank, BankOf, Slots
<1>3. /\ s[1] = Block(r, 2 * done + 1) /\ s[2] = last /\ Len(s) = 2
      /\ s[1].n = 2 * done + 1 /\ s[1].req = r
  BY DEF Block
<1>4. IsRomExt(s[1]) <=> done = 0 /\ Request.romExt
  BY <1>3 DEF IsRomExt, Request
<1>5. FirstBlock <=> done = 0
  <2>1. dev.offset # 0 => done > 0
    BY DEF ImageInOrder
  <2> QED
    BY <2>1 DEF FirstBlock, PagesDone
<1>6. RomExtUpdateAllowed <=> Bank # RomExtSlot
  BY DEF RomExtUpdateAllowed, Bank, FirmwareModes, Slots
<1>7. begin = IF Request.romExt /\ Bank # RomExtSlot THEN 0 ELSE FlashStart
  BY <1>4, <1>5, <1>6 DEF Begin, ImageInOrder, FirstBlock
<1>8. offset = Base(r) + done /\ offset \in Nat
  <2>1. Base(r) = IF Request.romExt THEN 0 ELSE FlashStart
    BY DEF Base, Request
  <2>2. CASE done = 0
    BY <1>4, <1>5, <2>1, <2>2 DEF Offset
  <2>3. CASE done # 0
    BY <1>1, <1>5, <2>1, <2>3 DEF Offset, PagesDone, FirstBlock, DevType
  <2> QED
    BY <2>2, <2>3
<1>9. FirstBlock => Prepared(begin) = ErasedFrom(flash, Bank, begin)
  BY DEF Prepared, ErasedFrom
<1>10. ~FirstBlock => Prepared(begin) = flash
  BY DEF Prepared
<1> DEFINE f == Prepared(begin)
<1>11. begin \in {0, FlashStart} /\ begin \in Nat
  BY <1>7
<1>12. f \in FlashType
  <2>1. StoreOK /\ (begin = 0 => Bank # RomExtSlot)
    BY <1>7, Parts DEF DeviceOK, StoreOK
  <2> QED
    BY <1>11, <2>1, PreparedKeeps DEF FlashType
<1> HIDE DEF begin, offset
<1>13. WholePrefix(f)
  BY <1>1, <1>2, <1>9, <1>10, <1>11, EraseKeepsPrefix
<1>14. \A m \in 1 .. 2 * done : Holds(f, r, m)
  <2>1. CASE done = 0
    BY <2>1
  <2>2. CASE done # 0
    BY <1>5, <1>10, <2>2 DEF ImageInOrder, Holds, InFlash, PagesDone, FirstBlock
  <2> QED
    BY <2>1, <2>2
<1>15. ASSUME NEW p \in Pages, begin <= p, offset <= p, p < FlashLimit
       PROVE  f[Bank][p] = Erased
  <2>1. CASE FirstBlock
    BY <1>1, <1>2, <1>9, <1>11, <1>15, <2>1, EraseAt
  <2>2. CASE ~FirstBlock
    <3>1. dev.begin = begin /\ dev.offset = offset
      BY <2>2 DEF Begin, Offset, begin, offset
    <3> QED
      BY <1>10, <1>15, <2>2, <3>1 DEF ImageInOrder, FirstBlock
  <2> QED
    BY <2>1, <2>2
<1> HIDE DEF f
<1> DEFINE next == [d EXCEPT !.staged = <<>>, !.offset = offset + 1, !.begin = begin]
<1>16. \/ offset < begin /\ flash' = f /\ Continue(next)
       \/ flash' = f /\ Cancel("too_big")
       \/ begin <= offset /\ offset < FlashLimit /\ flash' = Program(f, offset, s) /\ Continue(next)
       \/ flash' \in {flash, f} /\ Close("error") /\ toHost' = toHost
  BY DEF FirmwareBlock, begin, offset, f, next
<1> HIDE DEF next
<1>17. CASE offset < begin /\ flash' = f /\ Continue(next)
  <2>1. Request.romExt /\ Bank = RomExtSlot /\ begin = FlashStart
    BY <1>7, <1>8, <1>11, <1>17 DEF Base, Request
  <2>2. Discarded(r, 2 * done + 1) /\ Discarded(r, 2 * done + 2)
    BY <1>1, <1>2, <1>8, <1>17, <2>1, PairPlace DEF Discarded
  <2>3. \A m \in 1 .. 2 * done + 1 : Holds(flash', r, m)
    BY <1>14, <1>17, <2>2 DEF Holds
  <2>4. PageDone(s, d, done, last)
    BY <1>7, <1>8, <1>11, <1>15, <1>17, <2>2, <2>3 DEF PageDone, Holds, begin, offset, next, Pages
  <2> QED
    BY <1>13, <1>17, <2>4
<1>18. CASE flash' = f /\ Cancel("too_big")
  BY <1>1, <1>13, <1>18, CloseIsClosed
<1>19. CASE begin <= offset /\ offset < FlashLimit /\ flash' = Program(f, offset, s) /\ Continue(next)
  <2>1. offset \in Pages
    BY <1>8, <1>19 DEF Pages
  <2>2. f[Bank][offset] = Erased
    BY <1>8, <1>15, <1>19, <2>1
  <2>3. flash' = [f EXCEPT ![Bank][offset] = s]
    BY <1>19, <2>2 DEF Program
  <2>4. /\ Place(r, 2 * done + 1) = offset /\ Half(2 * done + 1) = 1
        /\ Place(r, 2 * done + 2) = offset /\ Half(2 * done + 2) = 2
    BY <1>1, <1>8, PairPlace
  <2>5. /\ 2 * done + 1 \in 1 .. script[r].len
        /\ \A m \in 1 .. 2 * done + 1 - 1 : Holds(f, r, m)
        /\ last \in {Block(r, 2 * done + 1 + 1), Padding}
    <3>1. script[r].len = Request.len
      BY DEF Request
    <3>2. 2 * done + 1 - 1 = 2 * done /\ 2 * done + 1 + 1 = 2 * done + 2
      OBVIOUS
    <3> QED
      BY <1>1, <1>14, <3>1, <3>2
  <2>6. /\ WholePrefix(flash')
        /\ \A m \in Nat \ {0} : Holds(f, r, m) => Holds(flash', r, m)
        /\ \A t \in Slots, p \in Pages : t # BankOf(r) \/ p # offset => flash'[t][p] = f[t][p]
        /\ flash'[BankOf(r)][offset] = s
    <3>1. NextPage(f, r, 2 * done + 1, offset, s)
      BY <1>1, <1>2, <1>3, <1>12, <2>1, <2>2, <2>4, <2>5 DEF NextPage
    <3>2. flash' = WithPage(f, BankOf(r), offset, s)
      BY <1>2, <2>3 DEF WithPage
    <3> QED
      BY <1>1, <1>13, <3>1, <3>2, ProgramKeepsPrefix
  <2>8. flash'[BankOf(r)][offset][1] = Block(r, 2 * done + 1)
        /\ flash'[BankOf(r)][offset][2] = last
    BY <1>3, <2>6
  <2>9. Holds(flash', r, 2 * done + 1)
        /\ (last = Block(r, 2 * done + 2) => Holds(flash', r, 2 * done + 2))
    BY <2>1, <2>4, <2>8 DEF Holds
  <2>10. ASSUME NEW m \in 1 .. 2 * done + 1 PROVE Holds(flash', r, m)
    <3>1. m = 2 * done + 1 \/ m \in 1 .. 2 * done
      OBVIOUS
    <3> QED
      BY <1>14, <2>6, <2>9, <3>1
  <2>11. ASSUME NEW p \in Pages, begin <= p, offset + 1 <= p, p < FlashLimit
         PROVE  flash'[Bank][p] = Erased
    BY <1>2, <1>8, <1>15, <2>6, <2>11 DEF Pages
  <2>12. PageDone(s, d, done, last)
    BY <1>7, <1>8, <1>19, <2>9, <2>10, <2>11 DEF PageDone, begin, offset, next
  <2> QED
    BY <2>6, <2>12
<1>20. CASE flash' \in {flash, f} /\ Close("error") /\ toHost' = toHost
  BY <1>1, <1>13, <1>20, CloseIsClosed
<1> QED
  BY <1>16, <1>17, <1>18, <1>19, <1>20

-----------------------------------------------------------------------------
(* The lines and the rest of the state, as far as the order is about them. *)
(* No frame loses its first byte, and frame numbers tell a frame from the  *)
(* one before.                                                             *)
FramesComplete == "start" \notin Faults /\ FrameModulus > 1

LEMMA LineTypes ==
  ASSUME IInv
  PROVE  /\ toDevice \in Seq(Written) /\ toHost \in Seq(Characters)
         /\ Len(toDevice) \in Nat /\ Len(toHost) \in Nat
         /\ dev \in DevType /\ dev.frame \in Nat \ {0} /\ dev.open \in BOOLEAN
         /\ host.at \in Nat \ {0} /\ host.block \in Nat
         /\ host.pc \in {"idle", "mode", "start", "data", "eof", "failed", "refused"}
         /\ script \in Scripts
         /\ \A i \in 1 .. Len(toDevice) :
              /\ toDevice[i].kind \in {"frame", "eof", "command", "byte", "noise"}
              /\ toDevice[i].kind = "frame" =>
                   /\ toDevice[i].block \in Requested /\ toDevice[i].block.n \in Nat
                   /\ toDevice[i].damage \in {"none", "payload", "number", "short", "start"}
              /\ toDevice[i].kind # "frame" => toDevice[i].damage = "none"
<1>1. toDevice \in Seq(Written) /\ toHost \in Seq(Characters)
  BY Parts DEF Channels, Written
<1>2. Len(toDevice) \in Nat /\ Len(toHost) \in Nat
  BY <1>1, LenProperties
<1>3. \A i \in 1 .. Len(toDevice) : toDevice[i] \in Frames \cup Others
  BY <1>1, ElementOfSeq DEF Written
<1>4. \A m \in Frames : /\ m.kind = "frame" /\ m.block \in Requested /\ m.block.n \in Nat
                        /\ m.damage \in {"none", "payload", "number", "short", "start"}
  BY DEF Frames, Requested
<1>5. \A m \in Others : m.kind \in {"eof", "command", "byte", "noise"} /\ m.damage = "none"
  BY DEF Others
<1>6. script \in Scripts /\ Len(script) \in Nat
  BY ScriptFacts DEF IInv, TypeOK
<1>7. dev \in DevType /\ dev.frame \in Nat \ {0} /\ dev.open \in BOOLEAN
  BY Parts DEF DeviceOK, DevType
<1>8. /\ host.at \in Nat \ {0} /\ host.block \in Nat
      /\ host.pc \in {"idle", "mode", "start", "data", "eof", "failed", "refused"}
  BY <1>6 DEF IInv, TypeOK
<1> QED
  BY <1>1, <1>2, <1>3, <1>4, <1>5, <1>6, <1>7, <1>8

LEMMA PrefixLater ==
  ASSUME script' = script, WholePrefix(flash')
  PROVE  PrefixOfOneImage'
BY PrefixIsWhole DEF PrefixOfOneImage, WholePrefix, Programmed, Filled, Begins, Holds, InFlash, BankOf, ModeOf,
   Place, Base, Discarded

LEMMA HoldsLater ==
  ASSUME script' = script, NEW r, NEW n, Holds(flash', r, n)
  PROVE  (InFlash(r, n) \/ Discarded(r, n))'
BY DEF Holds, InFlash, BankOf, ModeOf, Place, Base, Discarded

LEMMA PrefixStays ==
  ASSUME PrefixOfOneImage, script' = script, flash' = flash
  PROVE  PrefixOfOneImage'
BY PrefixIsWhole, PrefixLater

LEMMA SameHost ==
  ASSUME host' = host, script' = script
  PROVE  /\ Transferring' = Transferring /\ Request' = Request
         /\ ModeOf(host.at)' = ModeOf(host.at) /\ Base(host.at)' = Base(host.at)
BY DEF Transferring, Request, ModeOf, Base

(* What is taken from the line is the first thing on it.                   *)
LEMMA WholeFramesKept ==
  ASSUME IInv, WholeFrames, toDevice' = toDevice \/ (toDevice # <<>> /\ toDevice' = Tail(toDevice))
  PROVE  WholeFrames'
<1>1. CASE toDevice' = toDevice
  BY <1>1 DEF WholeFrames
<1>2. CASE toDevice # <<>> /\ toDevice' = Tail(toDevice)
  <2>1. toDevice \in Seq(Written)
    BY LineTypes
  <2>2. Len(toDevice) \in Nat
        /\ \A i \in 1 .. Len(toDevice') : toDevice'[i] = toDevice[i + 1] /\ i + 1 \in 1 .. Len(toDevice)
    BY <1>2, <2>1, TailAt
  <2>3. ASSUME NEW i \in 1 .. Len(toDevice')
        PROVE  toDevice'[i].kind # "noise" /\ toDevice'[i].damage # "start"
    <3>1. toDevice'[i] = toDevice[i + 1] /\ i + 1 \in 1 .. Len(toDevice)
      BY <2>2
    <3> QED
      BY <3>1 DEF WholeFrames
  <2> QED
    BY <2>3 DEF WholeFrames
<1> QED
  BY <1>1, <1>2

LEMMA LineTail ==
  ASSUME IInv, LineInOrder, toDevice # <<>>, toDevice' = Tail(toDevice), host' = host, script' = script,
         \/ dev'.frame = dev.frame
         \/ dev'.frame = dev.frame + 1 /\ toDevice[1].kind = "frame" /\ toDevice[1].block.n = dev.frame
         \/ toDevice[1].kind # "frame"
  PROVE  LineInOrder'
<1>1. toDevice \in Seq(Written) /\ Len(toDevice) \in Nat /\ dev.frame \in Nat
  BY LineTypes
<1>2. /\ Len(toDevice) >= 1 /\ Len(toDevice') = Len(toDevice) - 1
      /\ \A i \in 1 .. Len(toDevice') : toDevice'[i] = toDevice[i + 1] /\ i + 1 \in 1 .. Len(toDevice) /\ i \in Nat
  BY <1>1, TailAt
<1>3. 1 \in 1 .. Len(toDevice) /\ Len(toDevice') \in Nat
  BY <1>1, <1>2
<1>6. /\ Len(toDevice) = 1 => 1 .. Len(toDevice') = {}
      /\ \A i \in 1 .. Len(toDevice') : i + 1 = Len(toDevice) => i = Len(toDevice')
  <2> DEFINE l == Len(toDevice)
             k == Len(toDevice')
  <2>1. l \in Nat /\ k = l - 1
    BY <1>1, <1>2
  <2> HIDE DEF l, k
  <2>2. (l = 1 => 1 .. k = {}) /\ \A i \in 1 .. k : i + 1 = l => i = k
    BY <2>1
  <2> QED
    BY <2>2 DEF l, k
<1>4. CASE Transferring
  <2>1. CASE toDevice[1].kind # "frame"
    <3>1. 1 = Len(toDevice)
      BY <1>3, <1>4, <2>1 DEF LineInOrder
    <3>3. 1 .. Len(toDevice') = {}
      BY <1>6, <3>1
    <3> QED
      BY <1>4, <3>3, SameHost DEF LineInOrder, FramesInOrder
  <2>2. CASE toDevice[1].kind = "frame"
    <3>1. ASSUME NEW i \in 1 .. Len(toDevice'), toDevice'[i].kind = "frame"
          PROVE  /\ InFlight(toDevice[i])'
                 /\ \A j \in 1 .. i - 1 :
                      toDevice'[j].kind = "frame" /\ toDevice'[j].block.n <= toDevice'[i].block.n
      <4>0. toDevice'[i] = toDevice[i + 1] /\ i + 1 \in 1 .. Len(toDevice) /\ i \in Nat /\ i >= 1
        BY <1>2
      <4>1. InFlight(toDevice[i + 1])
            /\ \A j \in 1 .. i : toDevice[j].kind = "frame" /\ toDevice[j].block.n <= toDevice[i + 1].block.n
        <5>1. (i + 1) - 1 = i
          BY <4>0
        <5>2. toDevice[i + 1].kind = "frame"
          BY <3>1, <4>0
        <5> QED
          BY <1>4, <4>0, <5>1, <5>2 DEF LineInOrder, FramesInOrder
      <4>2. toDevice[i + 1].block.n \in {dev'.frame - 1, dev'.frame}
        <5>1. 1 \in 1 .. i
          BY <4>0
        <5>2. toDevice[1].block.n <= toDevice[i + 1].block.n
          BY <4>1, <5>1
        <5>3. toDevice[i + 1].block.n \in {dev.frame - 1, dev.frame}
          BY <4>1 DEF InFlight
        <5>4. toDevice[1].kind = "frame" /\ toDevice[1].block.n \in Nat
          BY <1>3, <2>2, LineTypes
        <5> DEFINE n == toDevice[i + 1].block.n
                   n1 == toDevice[1].block.n
        <5>5. dev'.frame = dev.frame \/ (dev'.frame = dev.frame + 1 /\ n1 = dev.frame)
          BY <2>2
        <5>6. n1 <= n /\ n \in {dev.frame - 1, dev.frame} /\ n1 \in Nat
          BY <5>2, <5>3, <5>4
        <5> HIDE DEF n, n1
        <5>7. n \in {dev'.frame - 1, dev'.frame}
          BY <1>1, <5>5, <5>6
        <5> QED
          BY <5>7 DEF n
      <4>3. InFlight(toDevice[i])'
        BY <4>0, <4>1, <4>2 DEF InFlight, Block
      <4>4. ASSUME NEW j \in 1 .. i - 1
            PROVE  toDevice'[j].kind = "frame" /\ toDevice'[j].block.n <= toDevice'[i].block.n
        <5>1. j \in 1 .. Len(toDevice') /\ j + 1 \in 1 .. i
          BY <1>3, <4>0
        <5>2. toDevice'[j] = toDevice[j + 1]
          BY <1>2, <5>1
        <5> QED
          BY <4>0, <4>1, <5>1, <5>2
      <4> QED
        BY <4>3, <4>4
    <3>2. ASSUME NEW i \in 1 .. Len(toDevice'), toDevice'[i].kind # "frame"
          PROVE  host'.pc = "eof" /\ i = Len(toDevice') /\ toDevice'[i].kind # "command"
      <4>1. toDevice'[i] = toDevice[i + 1] /\ i + 1 \in 1 .. Len(toDevice) /\ i \in Nat
        BY <1>2
      <4>2. host.pc = "eof" /\ i + 1 = Len(toDevice) /\ toDevice[i + 1].kind # "command"
        BY <1>4, <3>2, <4>1 DEF LineInOrder
      <4>3. i = Len(toDevice')
        BY <1>6, <4>1, <4>2
      <4> QED
        BY <4>1, <4>2, <4>3
    <3>3. FramesInOrder'
      BY <3>1 DEF FramesInOrder
    <3> QED
      BY <1>4, <3>2, <3>3, SameHost DEF LineInOrder
  <2> QED
    BY <2>1, <2>2
<1>5. CASE ~Transferring
  <2>1. ASSUME NEW i \in 1 .. Len(toDevice')
        PROVE  /\ toDevice'[i].kind # "frame"
               /\ toDevice'[i].kind = "command" =>
                    i = Len(toDevice') /\ host'.pc \in {"mode", "failed", "refused"}
    <3>1. toDevice'[i] = toDevice[i + 1] /\ i + 1 \in 1 .. Len(toDevice) /\ i \in Nat
      BY <1>2
    <3>2. /\ toDevice[i + 1].kind # "frame"
          /\ toDevice[i + 1].kind = "command" =>
               i + 1 = Len(toDevice) /\ host.pc \in {"mode", "failed", "refused"}
      BY <1>5, <3>1 DEF LineInOrder
    <3>3. i + 1 = Len(toDevice) => i = Len(toDevice')
      BY <1>6, <3>1
    <3> QED
      BY <3>1, <3>2, <3>3
  <2> QED
    BY <1>5, <2>1, SameHost DEF LineInOrder
<1> QED
  BY <1>4, <1>5

(* Answers that are neither ok nor ACK change no order.                    *)
LEMMA RepliesGrow ==
  ASSUME IInv, RepliesInOrder, host' = host, script' = script,
         Len(toHost') \in Nat, Len(toHost) <= Len(toHost'),
         \A i \in 1 .. Len(toHost) : toHost'[i] = toHost[i],
         \A i \in Len(toHost) + 1 .. Len(toHost') : toHost'[i] \notin {"ok", "ACK"}
  PROVE  RepliesInOrder' /\ (Silent("ok") => Silent("ok")') /\ (Silent("ACK") => Silent("ACK")')
<1>1. Len(toHost) \in Nat
  BY LineTypes
<1>2. \A i \in 1 .. Len(toHost') : i \in 1 .. Len(toHost) \/ i \in Len(toHost) + 1 .. Len(toHost')
  BY <1>1
<1>3. (Silent("ok") => Silent("ok")') /\ (Silent("ACK") => Silent("ACK")')
  BY <1>2 DEF Silent
<1>4. ASSUME host.pc = "mode", NEW i \in 1 .. Len(toHost'), NEW j \in 1 .. Len(toHost'),
             i < j, toHost'[i] = "ok"
      PROVE  toHost'[j] \notin {"ok", "ACK"}
  BY <1>2, <1>4 DEF RepliesInOrder
<1>5. ASSUME host.pc = "data", NEW i \in 1 .. Len(toHost'), NEW j \in 1 .. Len(toHost'),
             toHost'[i] = "ACK", toHost'[j] = "ACK"
      PROVE  i = j
  BY <1>2, <1>5 DEF RepliesInOrder
<1> QED
  BY <1>3, <1>4, <1>5, SameHost DEF RepliesInOrder

LEMMA RepliesSame ==
  ASSUME RepliesInOrder, host' = host, script' = script, toHost' = toHost
  PROVE  RepliesInOrder'
BY SameHost DEF RepliesInOrder, Silent

(* A session that ends.                                                    *)
LEMMA ClosedKeeps ==
  ASSUME IInv, OrderInv, Closed, WholePrefix(flash'), script' = script, host' = host,
         toDevice' = toDevice \/ (toDevice # <<>> /\ toDevice' = Tail(toDevice))
  PROVE  OrderInv'
<1>1. WholeFrames'
  BY WholeFramesKept DEF OrderInv
<1>2. PrefixOfOneImage'
  BY PrefixLater
<1>3. RepliesInOrder'
  <2>1. CASE toHost' = toHost
    BY <2>1, RepliesSame DEF OrderInv
  <2>2. CASE toHost' = toHost \o <<"CAN", "CAN">>
    <3>1. toHost \in Seq(Characters) /\ "CAN" \in Characters
      BY LineTypes DEF Characters
    <3>2. /\ Len(toHost) \in Nat /\ Len(toHost') = Len(toHost) + 2
          /\ \A i \in 1 .. Len(toHost) : toHost'[i] = toHost[i]
          /\ \A i \in Len(toHost) + 1 .. Len(toHost) + 2 : toHost'[i] = "CAN"
      BY <2>2, <3>1, AddTwoAt
    <3> QED
      BY <3>2, RepliesGrow DEF OrderInv
  <2> QED
    BY <2>1, <2>2 DEF Closed
<1> QED
  BY <1>1, <1>2, <1>3 DEF OrderInv, Closed

-----------------------------------------------------------------------------
LEMMA TailLine ==
  ASSUME IInv, toDevice # <<>>, toDevice' = Tail(toDevice)
  PROVE  /\ Len(toDevice) \in Nat /\ 1 \in 1 .. Len(toDevice) /\ Head(toDevice) = toDevice[1]
         /\ \A i \in 1 .. Len(toDevice') : toDevice'[i] = toDevice[i + 1] /\ i + 1 \in 1 .. Len(toDevice)
         /\ Len(toDevice) = 1 => toDevice' = <<>>
<1>1. toDevice \in Seq(Written) /\ Len(toDevice) \in Nat
  BY LineTypes
<1>2. /\ Len(toDevice) >= 1 /\ Len(toDevice') = Len(toDevice) - 1 /\ Head(toDevice) = toDevice[1]
      /\ toDevice' \in Seq(Written)
      /\ \A i \in 1 .. Len(toDevice') : toDevice'[i] = toDevice[i + 1] /\ i + 1 \in 1 .. Len(toDevice)
  BY <1>1, TailAt
<1>3. ASSUME Len(toDevice) = 1 PROVE toDevice' = <<>>
  <2> DEFINE k == Len(toDevice')
  <2>1. k = 1 - 1
    BY <1>2, <1>3
  <2> HIDE DEF k
  <2>2. k = 0
    BY <2>1
  <2> QED
    BY <1>2, <2>2, EmptySeq DEF k
<1> QED
  BY <1>1, <1>2, <1>3

LEMMA ReplyLine ==
  ASSUME IInv, NEW c \in Characters, toHost' = toHost \o <<c>>
  PROVE  /\ Len(toHost) \in Nat /\ Len(toHost') = Len(toHost) + 1 /\ Len(toHost') \in Nat
         /\ toHost'[Len(toHost')] = c
         /\ \A i \in 1 .. Len(toHost) : toHost'[i] = toHost[i]
         /\ \A i \in 1 .. Len(toHost') :
              \/ i \in 1 .. Len(toHost) /\ toHost'[i] = toHost[i] /\ i < Len(toHost')
              \/ i = Len(toHost') /\ toHost'[i] = c
<1>1. toHost \in Seq(Characters) /\ Len(toHost) \in Nat
  BY LineTypes
<1>2. /\ toHost' = Append(toHost, c) /\ Len(toHost') = Len(toHost) + 1
      /\ \A i \in 1 .. Len(toHost) : toHost'[i] = toHost[i]
      /\ toHost'[Len(toHost) + 1] = c
  BY <1>1, AddAt
<1> DEFINE l == Len(toHost)
           k == Len(toHost')
<1>3. l \in Nat /\ k = l + 1
  BY <1>1, <1>2
<1> HIDE DEF l, k
<1>4. k \in Nat /\ \A i \in 1 .. k : (i \in 1 .. l /\ i < k) \/ i = k
  BY <1>3
<1> QED
  BY <1>1, <1>2, <1>3, <1>4 DEF l, k

(* The frame that the device expects is the next block of the transfer,    *)
(* and the host waits for the answer to it.                                *)
LEMMA FrameExpected ==
  ASSUME IInv, OrderInv, FramesComplete, dev.open, toDevice # <<>>, Head(toDevice).kind = "frame",
         Expected(Head(toDevice))
  PROVE  /\ Transferring /\ host.pc \in {"data", "failed"}
         /\ Head(toDevice).block = Block(host.at, dev.frame)
         /\ toDevice[1].kind = "frame" /\ toDevice[1].block.n = dev.frame
         /\ dev.frame <= host.block
         /\ host.pc = "data" => host.block = dev.frame /\ Silent("ACK")
<1>1. dev.frame \in Nat \ {0} /\ host.block \in Nat
      /\ host.pc \in {"idle", "mode", "start", "data", "eof", "failed", "refused"}
  BY LineTypes
<1>2. toDevice \in Seq(Written)
  BY LineTypes
<1>3. 1 \in 1 .. Len(toDevice) /\ Head(toDevice) = toDevice[1]
  <2>1. Len(toDevice) \in Nat /\ Len(toDevice) >= 1 /\ Head(toDevice) = toDevice[1]
    BY <1>2, TailAt
  <2> QED
    BY <2>1
<1>4. Transferring /\ InFlight(toDevice[1])
  BY <1>3 DEF OrderInv, LineInOrder, FramesInOrder
<1> DEFINE n == toDevice[1].block.n
<1>5. /\ n \in {dev.frame - 1, dev.frame} /\ n % FrameModulus = dev.frame % FrameModulus
      /\ n <= host.block
  BY <1>1, <1>3, <1>4 DEF InFlight, Expected
<1>6. n = dev.frame
  BY <1>1, <1>5, Numbers DEF FramesComplete
<1>7. host.pc \in {"data", "eof", "failed"}
  BY <1>4 DEF Transferring
<1>8. host.pc # "eof"
  <2>1. ASSUME host.pc = "eof" PROVE FALSE
    <3>1. dev.frame # 1
      BY <1>3, <2>1 DEF OrderInv, TransferStage
    <3>2. dev.frame = host.block + 1
      BY <2>1, <3>1 DEF OrderInv, TransferStage
    <3> QED
      BY <1>1, <1>5, <1>6, <3>2
  <2> QED
    BY <2>1
<1>9. ASSUME host.pc = "data" PROVE host.block = dev.frame /\ Silent("ACK")
  <2>1. host.block \in {dev.frame - 1, dev.frame}
    BY <1>9 DEF OrderInv, TransferStage
  <2>2. host.block = dev.frame
    BY <1>1, <1>5, <1>6, <2>1
  <2>3. \A i \in 1 .. Len(toHost) : toHost[i] = "ACK" => host.block = dev.frame - 1
    BY <1>9 DEF OrderInv, TransferStage
  <2>4. dev.frame # dev.frame - 1
    BY <1>1
  <2> QED
    BY <2>2, <2>3, <2>4 DEF Silent
<1> QED
  BY <1>3, <1>4, <1>5, <1>6, <1>7, <1>8, <1>9 DEF InFlight

(* Nothing changes but the lines: something is taken from one, an answer   *)
(* that is neither ok nor ACK is put on the other.                         *)
LEMMA QuietKeeps ==
  ASSUME IInv, OrderInv, UNCHANGED <<script, dev, flash, host>>,
         toDevice' = toDevice \/ (toDevice # <<>> /\ toDevice' = Tail(toDevice)),
         \/ toHost' = toHost
         \/ /\ \E c \in Characters \ {"ok", "ACK"} : toHost' = toHost \o <<c>>
            /\ ~dev.open \/ dev.frame = 1 \/ host.pc # "eof"
            /\ host.pc = "data" /\ dev.open => Silent("ACK")
  PROVE  OrderInv'
<1>1. WholeFrames'
  BY WholeFramesKept DEF OrderInv
<1>2. PrefixOfOneImage'
  BY PrefixStays DEF OrderInv
<1>3. RepliesInOrder' /\ (Silent("ok") => Silent("ok")')
  <2>1. CASE toHost' = toHost
    BY <2>1, RepliesSame DEF OrderInv, Silent
  <2>2. CASE \E c \in Characters \ {"ok", "ACK"} : toHost' = toHost \o <<c>>
    <3> PICK c \in Characters \ {"ok", "ACK"} : toHost' = toHost \o <<c>>
      BY <2>2
    <3>1. /\ Len(toHost) \in Nat /\ Len(toHost') = Len(toHost) + 1 /\ Len(toHost') \in Nat
          /\ toHost'[Len(toHost')] = c
          /\ \A i \in 1 .. Len(toHost) : toHost'[i] = toHost[i]
      BY ReplyLine
    <3>2. Len(toHost) <= Len(toHost')
      BY <3>1
    <3>3. \A i \in Len(toHost) + 1 .. Len(toHost') : toHost'[i] \notin {"ok", "ACK"}
      <4>1. \A i \in Len(toHost) + 1 .. Len(toHost) + 1 : i = Len(toHost) + 1
        BY <3>1
      <4> QED
        BY <3>1, <4>1
    <3> QED
      BY <3>1, <3>2, <3>3, RepliesGrow DEF OrderInv
  <2> QED
    BY <2>1, <2>2
<1>4. SUFFICES ASSUME dev.open PROVE LineInOrder' /\ TransferStage' /\ StartStage' /\ ImageInOrder'
  BY <1>1, <1>2, <1>3 DEF OrderInv
<1>5. LineInOrder'
  <2>1. CASE toDevice' = toDevice
    BY <1>4, <2>1 DEF OrderInv, LineInOrder, FramesInOrder, Transferring, InFlight, Block
  <2>2. CASE toDevice # <<>> /\ toDevice' = Tail(toDevice)
    BY <1>4, <2>2, LineTail DEF OrderInv
  <2> QED
    BY <2>1, <2>2
<1>6. TransferStage'
  <2>0. Transferring' = Transferring /\ Request' = Request /\ ModeOf(host.at)' = ModeOf(host.at)
    BY SameHost
  <2>1. AtRest' = AtRest
    BY DEF AtRest
  <2>2. ASSUME host.pc = "data", NEW i \in 1 .. Len(toHost'), toHost'[i] = "ACK"
        PROVE  i = Len(toHost') /\ host.block = dev.frame - 1
    <3>1. CASE toHost' = toHost
      BY <1>4, <2>2, <3>1 DEF OrderInv, TransferStage
    <3>2. CASE toHost' # toHost
      <4>1. Silent("ACK") /\ \E c \in Characters \ {"ok", "ACK"} : toHost' = toHost \o <<c>>
        BY <1>4, <2>2, <3>2
      <4> PICK c \in Characters \ {"ok", "ACK"} : toHost' = toHost \o <<c>>
        BY <4>1
      <4>2. (i \in 1 .. Len(toHost) /\ toHost'[i] = toHost[i]) \/ toHost'[i] = c
        BY ReplyLine
      <4> QED
        BY <2>2, <4>1, <4>2 DEF Silent
    <3> QED
      BY <3>1, <3>2
  <2>3. ASSUME host.pc = "eof", dev.frame = 1, NEW i \in 1 .. Len(toDevice')
        PROVE  toDevice'[i].kind # "frame"
    <3>1. \A j \in 1 .. Len(toDevice) : toDevice[j].kind # "frame"
      BY <1>4, <2>3 DEF OrderInv, TransferStage
    <3>2. CASE toDevice' = toDevice
      BY <3>1, <3>2
    <3>3. CASE toDevice # <<>> /\ toDevice' = Tail(toDevice)
      BY <3>1, <3>3, TailLine
    <3> QED
      BY <3>2, <3>3
  <2>4. ASSUME host.pc = "eof", dev.frame # 1 PROVE dev.frame = host.block + 1 /\ toHost' = <<>>
    BY <1>4, <2>4 DEF OrderInv, TransferStage
  <2> QED
    BY <1>4, <2>0, <2>1, <2>2, <2>3, <2>4 DEF OrderInv, TransferStage
<1>7. StartStage'
  <2>1. CASE toDevice' = toDevice
    BY <1>3, <1>4, <2>1 DEF OrderInv, StartStage, Ready, ModeOf, Request
  <2>2. CASE toDevice # <<>> /\ toDevice' = Tail(toDevice)
    <3>1. \A i \in 1 .. Len(toDevice') : toDevice'[i] = toDevice[i + 1] /\ i + 1 \in 1 .. Len(toDevice)
      BY <2>2, TailLine
    <3>2. ~Ready /\ ~(host.pc = "idle" /\ host.at = 1) /\ host.pc # "start"
          /\ (host.pc = "mode" => Silent("ok"))
      BY <1>4, <2>2 DEF OrderInv, StartStage, Ready
    <3>3. ASSUME host.pc = "mode", NEW i \in 1 .. Len(toDevice'), toDevice'[i].kind = "command"
          PROVE  toDevice'[i].mode \in {Request.mode, "garbled"}
      <4>1. toDevice'[i] = toDevice[i + 1] /\ i + 1 \in 1 .. Len(toDevice)
        BY <3>1
      <4> QED
        BY <1>4, <3>3, <4>1 DEF OrderInv, StartStage
    <3> QED
      BY <1>3, <3>2, <3>3, SameHost DEF StartStage
  <2> QED
    BY <2>1, <2>2
<1>8. ImageInOrder'
  BY <1>4, SameHost DEF OrderInv, ImageInOrder, PagesDone, InFlash, Discarded, BankOf, ModeOf, Place, Base,
     Bank, Request, Block, Transferring
<1> QED
  BY <1>5, <1>6, <1>7, <1>8

(* A frame that is taken and acknowledged.                                 *)
LEMMA FrameAccepted ==
  ASSUME IInv, OrderInv, FramesComplete, dev.open, toDevice # <<>>, Head(toDevice).kind = "frame",
         Expected(Head(toDevice)), host' = host, script' = script,
         toDevice' = Tail(toDevice), toHost' = toHost \o <<"ACK">>,
         dev'.frame = dev.frame + 1, dev'.mode = dev.mode
  PROVE  WholeFrames' /\ RepliesInOrder' /\ LineInOrder' /\ TransferStage' /\ StartStage'
<1>1. /\ Transferring /\ host.pc \in {"data", "failed"}
      /\ toDevice[1].kind = "frame" /\ toDevice[1].block.n = dev.frame
      /\ dev.frame <= host.block
      /\ host.pc = "data" => host.block = dev.frame /\ Silent("ACK")
  BY FrameExpected
<1>2. dev.frame \in Nat \ {0} /\ host.block \in Nat
  BY LineTypes
<1>3. WholeFrames'
  BY WholeFramesKept DEF OrderInv
<1>4. LineInOrder'
  BY <1>1, LineTail DEF OrderInv
<1>5. ASSUME host.pc = "data", NEW i \in 1 .. Len(toHost'), toHost'[i] = "ACK"
      PROVE  i = Len(toHost')
  <2>1. "ACK" \in Characters
    BY DEF Characters
  <2>2. (i \in 1 .. Len(toHost) /\ toHost'[i] = toHost[i]) \/ i = Len(toHost')
    BY <2>1, ReplyLine
  <2> QED
    BY <1>1, <1>5, <2>2 DEF Silent
<1>6. ASSUME host.pc = "data"
      PROVE  /\ Silent("ok")' /\ host.block \in 1 .. Request.len
             /\ \A i, j \in 1 .. Len(toHost') : toHost'[i] = "ACK" /\ toHost'[j] = "ACK" => i = j
  <2>1. Silent("ok")'
    <3>1. ASSUME NEW i \in 1 .. Len(toHost') PROVE toHost'[i] # "ok"
      <4>1. "ACK" \in Characters
        BY DEF Characters
      <4>2. (i \in 1 .. Len(toHost) /\ toHost'[i] = toHost[i]) \/ toHost'[i] = "ACK"
        BY <4>1, ReplyLine
      <4> QED
        BY <1>6, <4>2 DEF OrderInv, RepliesInOrder, Silent
    <3> QED
      BY <3>1 DEF Silent
  <2> QED
    BY <1>5, <1>6, <2>1 DEF OrderInv, RepliesInOrder
<1>7. RepliesInOrder'
  BY <1>1, <1>6, SameHost DEF RepliesInOrder
<1>8. TransferStage'
  <2>1. Transferring' /\ Request' = Request /\ ModeOf(host.at)' = ModeOf(host.at)
    BY <1>1, SameHost
  <2>2. dev'.frame # 1 /\ dev'.frame <= host.block + 1
    BY <1>1, <1>2
  <2>3. host.pc = "data" => host.block = dev'.frame - 1
    BY <1>1, <1>2
  <2>4. dev'.mode = ModeOf(host.at) /\ host.block <= Request.len
    BY <1>1 DEF OrderInv, TransferStage
  <2> QED
    BY <1>1, <1>5, <2>1, <2>2, <2>3, <2>4 DEF TransferStage
<1>9. StartStage'
  BY <1>1 DEF StartStage
<1> QED
  BY <1>3, <1>4, <1>7, <1>8, <1>9

(* The staged blocks are those that come next in the image.                *)
LEMMA Staged ==
  ASSUME IInv, OrderInv, dev.open, Transferring, ModeOf(host.at) \in FirmwareModes,
         NEW b, Len(Append(dev.staged, b)) = 2
  PROVE  /\ PagesDone \in Nat /\ dev.frame = 2 * PagesDone + 2
         /\ Append(dev.staged, b) = <<Block(host.at, 2 * PagesDone + 1), b>>
<1>1. PagesDone \in Nat
  <2>1. dev.offset \in Nat /\ Base(host.at) \in Nat
    <3>1. dev.offset \in 0 .. FlashLimit
      BY LineTypes DEF DevType
    <3> QED
      BY <3>1, RescueAssumption DEF Base
  <2> QED
    BY <2>1 DEF PagesDone, OrderInv, ImageInOrder
<1>2. dev.frame \in Nat \ {0}
  BY LineTypes
<1>3. dev.staged = <<Block(host.at, dev.frame - 1)>>
  <2>1. dev.staged \in {<<>>, <<Block(host.at, dev.frame - 1)>>}
    BY DEF OrderInv, ImageInOrder
  <2>2. dev.staged # <<>>
    <3>1. Len(Append(<<>>, b)) = 1
      OBVIOUS
    <3> QED
      BY <3>1
  <2> QED
    BY <2>1, <2>2
<1>4. dev.frame - 1 = 2 * PagesDone + 1
  <2>1. Len(dev.staged) = 1
    BY <1>3
  <2>2. dev.frame - 1 = 2 * PagesDone + Len(dev.staged)
    BY DEF OrderInv, ImageInOrder
  <2> QED
    BY <2>1, <2>2
<1>5. dev.frame = 2 * PagesDone + 2
  BY <1>1, <1>2, <1>4
<1>6. Append(dev.staged, b) = <<Block(host.at, dev.frame - 1), b>>
  <2>1. ASSUME NEW x, NEW y PROVE Append(<<x>>, y) = <<x, y>>
    <3>1. <<x>> \in Seq({x, y}) /\ Len(<<x>>) = 1 /\ <<x>>[1] = x
      OBVIOUS
    <3> DEFINE s == Append(<<x>>, y)
               t == <<x, y>>
    <3>2. s \in Seq({x, y}) /\ Len(s) = 2 /\ s[1] = x /\ s[2] = y
      BY <3>1, AddAt
    <3>3. t \in Seq({x, y}) /\ Len(t) = 2 /\ t[1] = x /\ t[2] = y
      OBVIOUS
    <3> HIDE DEF s, t
    <3>4. \A i \in 1 .. Len(s) : s[i] = t[i]
      <4>1. \A i \in 1 .. 2 : i = 1 \/ i = 2
        OBVIOUS
      <4> QED
        BY <3>2, <3>3, <4>1
    <3>5. s = t
      BY <3>2, <3>3, <3>4, SeqEqual
    <3> QED
      BY <3>5 DEF s, t
  <2> QED
    BY <1>3, <2>1
<1> QED
  BY <1>1, <1>4, <1>5, <1>6

(* ImageInOrder of a device in state d that has programmed f.              *)
ImageAt(d, f) ==
  LET done == IF d.offset = 0 THEN 0 ELSE d.offset - Base(host.at)
  IN  /\ d.frame - 1 = 2 * done + Len(d.staged)
      /\ d.staged \in {<<>>, <<Block(host.at, d.frame - 1)>>}
      /\ d.offset # 0 =>
           /\ done > 0
           /\ d.begin = IF Request.romExt /\ Bank # RomExtSlot THEN 0 ELSE FlashStart
           /\ \A n \in 1 .. 2 * done : Holds(f, host.at, n)
           /\ \A p \in Pages :
                d.begin <= p /\ d.offset <= p /\ p < FlashLimit => f[Bank][p] = Erased

LEMMA ImageNow ==
  ASSUME ImageInOrder, Transferring, ModeOf(host.at) \in FirmwareModes
  PROVE  ImageAt(dev, flash)
BY DEF ImageInOrder, ImageAt, PagesDone, Holds, InFlash

LEMMA ImageNext ==
  ASSUME host' = host, script' = script, dev'.mode = dev.mode,
         Transferring /\ ModeOf(host.at) \in FirmwareModes => ImageAt(dev', flash')
  PROVE  ImageInOrder'
<1>1. Transferring' = Transferring /\ Request' = Request /\ ModeOf(host.at)' = ModeOf(host.at)
      /\ Base(host.at)' = Base(host.at)
  BY SameHost
<1>2. Bank' = Bank
  BY DEF Bank
<1>3. ASSUME NEW n, Holds(flash', host.at, n) PROVE (InFlash(host.at, n) \/ Discarded(host.at, n))'
  <2>1. Place(host.at, n)' = Place(host.at, n) /\ BankOf(host.at)' = BankOf(host.at)
        /\ Discarded(host.at, n)' = Discarded(host.at, n)
    BY <1>1 DEF Place, BankOf, Discarded
  <2> QED
    BY <1>3, <2>1 DEF Holds, InFlash, Block
<1>4. SUFFICES ASSUME Transferring, ModeOf(host.at) \in FirmwareModes, ImageAt(dev', flash')
               PROVE  ImageInOrder'
  BY <1>1 DEF ImageInOrder
<1>5. PagesDone' = IF dev'.offset = 0 THEN 0 ELSE dev'.offset - Base(host.at)
  BY <1>1 DEF PagesDone
<1>6. \A n \in 1 .. 2 * PagesDone' : dev'.offset # 0 => (InFlash(host.at, n) \/ Discarded(host.at, n))'
  BY <1>3, <1>4, <1>5 DEF ImageAt
<1> QED
  BY <1>1, <1>2, <1>4, <1>5, <1>6 DEF ImageInOrder, ImageAt, Block

(* A page that is done.                                                    *)
LEMMA PageInOrder ==
  ASSUME IInv, NEW s, NEW d, NEW done \in Nat, NEW last, PageDone(s, d, done, last),
         last = Block(host.at, 2 * done + 2), NEW x, x.staged = <<>>, x.offset = Offset(s) + 1,
         x.begin = Begin(s), x.frame = 2 * done + 3
  PROVE  ImageAt(x, flash')
<1>1. Base(host.at) \in Nat
  BY RescueAssumption DEF Base
<1>2. x.offset = Base(host.at) + done + 1 /\ x.offset # 0
  BY <1>1 DEF PageDone
<1>3. x.offset - Base(host.at) = done + 1
  BY <1>1, <1>2
<1>4. x.frame - 1 = 2 * (done + 1) + Len(<<>>)
  <2>1. Len(<<>>) = 0
    OBVIOUS
  <2> QED
    BY <2>1
<1>5. ASSUME NEW n \in 1 .. 2 * (done + 1) PROVE Holds(flash', host.at, n)
  <2>1. n \in 1 .. 2 * done + 1 \/ n = 2 * done + 2
    OBVIOUS
  <2> QED
    BY <2>1 DEF PageDone
<1> QED
  BY <1>2, <1>3, <1>4, <1>5 DEF ImageAt, PageDone

LEMMA ReceiveFrameInOrder ==
  ASSUME IInv, OrderInv, FramesComplete, ReceiveFrame, host' = host, script' = script
  PROVE  OrderInv'
<1> DEFINE m == Head(toDevice)
           s == Append(dev.staged, m.block)
           d == [dev EXCEPT !.frame = @ + 1, !.deadline = FALSE]
<1>1. /\ dev.open /\ toDevice # <<>> /\ m.kind = "frame" /\ Expected(m)
      /\ toDevice' = Tail(toDevice) /\ Handle(s, d)
  BY DEF ReceiveFrame, Receives
<1>2. /\ Transferring /\ host.pc \in {"data", "failed"}
      /\ m.block = Block(host.at, dev.frame) /\ dev.frame <= host.block
  BY <1>1, FrameExpected
<1>3. dev \in DevType /\ dev.frame \in Nat \ {0} /\ host.block \in Nat
  BY LineTypes
<1>4. dev.mode = ModeOf(host.at) /\ host.block <= Request.len /\ WholePrefix(flash) /\ ImageInOrder
  BY <1>1, <1>2, PrefixIsWhole DEF OrderInv, TransferStage
<1>5. /\ d.frame = dev.frame + 1 /\ d.frame # 1 /\ d.mode = dev.mode
      /\ d.staged = dev.staged /\ d.offset = dev.offset /\ d.begin = dev.begin
      /\ d \in DevType
  <2>1. dev.frame + 1 \in Nat \ {0} /\ dev.frame + 1 # 1
    BY <1>3
  <2>2. d \in DevType
    BY <1>3, <2>1 DEF DevType
  <2> QED
    BY <1>3, <2>1, <2>2 DEF DevType
<1>6. ASSUME Closed, WholePrefix(flash') PROVE OrderInv'
  BY <1>1, <1>6, ClosedKeeps
<1>7. ASSUME toHost' = toHost \o <<"ACK">>, dev'.frame = dev.frame + 1, dev'.mode = dev.mode,
             WholePrefix(flash'), ModeOf(host.at) \in FirmwareModes => ImageAt(dev', flash')
      PROVE  OrderInv'
  <2>1. WholeFrames' /\ RepliesInOrder' /\ LineInOrder' /\ TransferStage' /\ StartStage'
    BY <1>1, <1>7, FrameAccepted
  <2>2. ImageInOrder'
    BY <1>7, ImageNext
  <2>3. PrefixOfOneImage'
    BY <1>7, PrefixLater
  <2> QED
    BY <2>1, <2>2, <2>3 DEF OrderInv
<1> HIDE DEF d, s, m
<1>8. CASE Cancel("bad_mode") /\ UNCHANGED flash
  BY <1>3, <1>4, <1>6, <1>8, CloseIsClosed
<1>9. CASE FirmwareBlock(s, d)
  <2> DEFINE done == PagesDone
             last == Block(host.at, 2 * done + 2)
  <2>1. dev.mode \in FirmwareModes /\ Len(s) = 2
    BY <1>9 DEF FirmwareBlock
  <2>2. ModeOf(host.at) \in FirmwareModes
    BY <1>4, <2>1
  <2>3. /\ done \in Nat /\ dev.frame = 2 * done + 2
        /\ s = <<Block(host.at, 2 * done + 1), m.block>>
    BY <1>1, <1>2, <2>1, <2>2, Staged DEF s
  <2> HIDE DEF done
  <2>4. m.block = last
    BY <1>2, <2>3
  <2>5. Request.len \in Nat
    BY <1>2, LineTypes, ScriptFacts DEF Request, IInv, TypeOK, Transferring
  <2>6. 2 * done + 1 <= Request.len
    BY <1>2, <1>3, <1>4, <2>3, <2>5
  <2>7. s = <<Block(host.at, 2 * done + 1), last>> /\ last \in {Block(host.at, 2 * done + 2), Padding}
    BY <2>3, <2>4
  <2>8. WholePrefix(flash') /\ (Closed \/ PageDone(s, d, done, last))
    <3>1. done = PagesDone
      BY DEF done
    <3> HIDE DEF last
    <3> QED
      BY <1>2, <1>4, <1>9, <2>2, <2>3, <2>6, <2>7, <3>1, FirmwareStep DEF last
  <2>9. CASE PageDone(s, d, done, last)
    <3> DEFINE x == [d EXCEPT !.staged = <<>>, !.offset = Offset(s) + 1, !.begin = Begin(s)]
    <3>1. Continue(x)
      BY <2>9 DEF PageDone
    <3>2. /\ x.frame = dev.frame + 1 /\ x.mode = dev.mode /\ x.staged = <<>>
          /\ x.offset = Offset(s) + 1 /\ x.begin = Begin(s) /\ x.frame # 1
      BY <1>5 DEF DevType
    <3> HIDE DEF x
    <3>3. dev' = x /\ toHost' = toHost \o <<"ACK">>
      BY <3>1, <3>2 DEF Continue, Reply
    <3>4. x.frame = 2 * done + 3
      BY <2>3, <3>2
    <3>5. ImageAt(x, flash')
      BY <2>3, <2>9, <3>2, <3>4, PageInOrder
    <3> QED
      BY <1>7, <2>8, <3>2, <3>3, <3>5
  <2> QED
    BY <1>6, <2>8, <2>9
<1>10. ASSUME ModeOf(host.at) \notin FirmwareModes, flash' = flash, Continue([d EXCEPT !.staged = <<>>])
       PROVE  OrderInv'
  <2> DEFINE x == [d EXCEPT !.staged = <<>>]
  <2>1. x.frame = dev.frame + 1 /\ x.mode = dev.mode /\ x.frame # 1 /\ Continue(x)
    BY <1>5, <1>10 DEF DevType
  <2> HIDE DEF x
  <2>2. dev' = x /\ toHost' = toHost \o <<"ACK">>
    BY <2>1 DEF Continue, Reply
  <2> QED
    BY <1>4, <1>7, <1>10, <2>1, <2>2
<1>11. CASE OwnerBlock(s, d)
  <2>1. ModeOf(host.at) \notin FirmwareModes /\ flash' = flash
    BY <1>4, <1>11 DEF OwnerBlock, FirmwareModes
  <2>2. Continue([d EXCEPT !.staged = <<>>]) \/ (Close("error") /\ toHost' = toHost)
    BY <1>11 DEF OwnerBlock
  <2> QED
    BY <1>3, <1>4, <1>6, <1>10, <2>1, <2>2, CloseIsClosed
<1>12. CASE BootSvcReq(s, d)
  <2>1. ModeOf(host.at) \notin FirmwareModes /\ flash' = flash
    BY <1>4, <1>12 DEF BootSvcReq, FirmwareModes
  <2>2. Continue([d EXCEPT !.staged = <<>>]) \/ Cancel("bad_mode")
    BY <1>12 DEF BootSvcReq
  <2> QED
    BY <1>3, <1>4, <1>6, <1>10, <2>1, <2>2, CloseIsClosed
<1>13. CASE (dev.mode = "NoOp" \/ Len(s) < 2) /\ Continue([d EXCEPT !.staged = s]) /\ UNCHANGED flash
  <2> DEFINE x == [d EXCEPT !.staged = s]
  <2>1. /\ x.frame = dev.frame + 1 /\ x.mode = dev.mode /\ x.frame # 1 /\ Continue(x)
        /\ x.staged = s /\ x.offset = dev.offset /\ x.begin = dev.begin
    BY <1>5, <1>13 DEF DevType
  <2> HIDE DEF x
  <2>2. dev' = x /\ toHost' = toHost \o <<"ACK">>
    BY <2>1 DEF Continue, Reply
  <2>3. ASSUME ModeOf(host.at) \in FirmwareModes PROVE ImageAt(x, flash)
    <3>1. Len(s) < 2
      BY <1>4, <1>13, <2>3 DEF FirmwareModes
    <3>2. ImageAt(dev, flash)
      BY <1>2, <1>4, <2>3, ImageNow
    <3>3. dev.staged = <<>>
      <4>1. dev.staged \in {<<>>, <<Block(host.at, dev.frame - 1)>>}
        BY <3>2 DEF ImageAt
      <4>2. dev.staged \in Seq(Requested) /\ Len(s) = Len(dev.staged) + 1
        <5>1. m.block \in Requested /\ dev.staged \in Seq(Requested)
          <6>1. dev.staged \in Seq(Requested)
            BY <1>3 DEF DevType
          <6>2. m \in Written
            BY <1>1, LineTypes, HeadTailProperties DEF m
          <6>3. m \in Frames
            BY <1>1, <6>2 DEF Written, Frames, Others, m
          <6> QED
            BY <6>1, <6>3 DEF Frames
        <5> QED
          BY <5>1, AddAt DEF s
      <4>3. Len(dev.staged) \in Nat
        BY <4>2, LenProperties
      <4>4. Len(dev.staged) # 1
        <5> DEFINE l == Len(dev.staged)
        <5>1. Len(s) = l + 1 /\ l \in Nat
          BY <4>2, <4>3
        <5> HIDE DEF l
        <5>2. l # 1
          BY <3>1, <5>1
        <5> QED
          BY <5>2 DEF l
      <4> QED
        BY <4>1, <4>4
    <3>4. s = <<Block(host.at, dev.frame)>> /\ Len(s) = 1
      <4>1. \A b : Append(<<>>, b) = <<b>>
        OBVIOUS
      <4> QED
        BY <1>2, <3>3, <4>1 DEF s
    <3>5. dev.frame - 1 = 2 * (IF dev.offset = 0 THEN 0 ELSE dev.offset - Base(host.at)) + 0
      BY <3>2, <3>3 DEF ImageAt
    <3>6. x.frame - 1 = dev.frame
      BY <1>3, <2>1
    <3>7. dev.offset \in Int /\ Base(host.at) \in Int
      BY <1>3, RescueAssumption DEF DevType, Base
    <3>8. x.frame - 1 = 2 * (IF dev.offset = 0 THEN 0 ELSE dev.offset - Base(host.at)) + 1
      BY <1>3, <3>5, <3>6, <3>7
    <3> QED
      BY <2>1, <3>2, <3>4, <3>6, <3>8 DEF ImageAt
  <2> QED
    BY <1>4, <1>7, <1>13, <2>1, <2>2, <2>3
<1> QED
  BY <1>1, <1>8, <1>9, <1>11, <1>12, <1>13 DEF Handle

(* The end of a file, or of nothing, that is acknowledged.                 *)
LEMMA EofAccepted ==
  ASSUME IInv, OrderInv, dev.open, toDevice # <<>>, Head(toDevice).kind = "eof",
         host' = host, script' = script, toDevice' = Tail(toDevice), toHost' = toHost \o <<"ACK">>,
         dev'.mode = dev.mode, dev'.frame = 1, dev'.staged = <<>>, dev'.offset = 0,
         WholePrefix(flash')
  PROVE  OrderInv'
<1>0. dev.frame \in Nat \ {0} /\ host.block \in Nat /\ "ACK" \in Characters
      /\ host.pc \in {"idle", "mode", "start", "data", "eof", "failed", "refused"}
  BY LineTypes DEF Characters
<1>1. /\ 1 \in 1 .. Len(toDevice) /\ toDevice[1].kind = "eof"
      /\ \A i \in 1 .. Len(toDevice') : toDevice'[i] = toDevice[i + 1] /\ i + 1 \in 1 .. Len(toDevice)
      /\ Len(toDevice) = 1 => toDevice' = <<>>
  BY TailLine
<1>2. WholeFrames' /\ LineInOrder' /\ PrefixOfOneImage'
  BY <1>1, WholeFramesKept, LineTail, PrefixLater DEF OrderInv
<1>3. Transferring' = Transferring /\ Request' = Request /\ ModeOf(host.at)' = ModeOf(host.at)
  BY SameHost
<1>4. Transferring => host.pc = "eof" /\ toDevice' = <<>>
  BY <1>1 DEF OrderInv, LineInOrder
<1>5. /\ host.pc \notin {"start", "data"} /\ ~(host.pc = "idle" /\ host.at = 1)
      /\ host.pc = "mode" => Silent("ok")
  BY <1>4 DEF OrderInv, StartStage, Ready, Transferring
<1>6. Silent("ok") => Silent("ok")'
  <2>1. ASSUME Silent("ok"), NEW i \in 1 .. Len(toHost') PROVE toHost'[i] # "ok"
    <3>1. (i \in 1 .. Len(toHost) /\ toHost'[i] = toHost[i]) \/ toHost'[i] = "ACK"
      BY <1>0, ReplyLine
    <3> QED
      BY <2>1, <3>1 DEF Silent
  <2> QED
    BY <2>1 DEF Silent
<1>7. RepliesInOrder'
  <2>1. host.pc = "mode" => \A i \in 1 .. Len(toHost') : toHost'[i] # "ok"
    BY <1>5, <1>6 DEF Silent
  <2> QED
    BY <1>3, <1>5, <1>6, <2>1 DEF OrderInv, RepliesInOrder
<1>8. TransferStage'
  <2>1. AtRest'
    BY DEF AtRest
  <2>2. 1 <= host.block + 1
    BY <1>0
  <2>3. toDevice' = <<>> => \A i \in 1 .. Len(toDevice') : toDevice'[i].kind # "frame"
    <3>1. 1 .. Len(<<>>) = {}
      OBVIOUS
    <3> QED
      BY <3>1
  <2>4. Transferring => dev'.mode = ModeOf(host.at) /\ host.block <= Request.len
    BY DEF OrderInv, TransferStage
  <2>5. host.pc = "eof" => Transferring
    BY DEF Transferring
  <2> QED
    BY <1>3, <1>4, <1>5, <2>1, <2>2, <2>3, <2>4, <2>5 DEF TransferStage
<1>9. StartStage'
  <2>1. ASSUME host.pc = "mode", NEW i \in 1 .. Len(toDevice'), toDevice'[i].kind = "command"
        PROVE  toDevice'[i].mode \in {Request.mode, "garbled"}
    <3>1. toDevice'[i] = toDevice[i + 1] /\ i + 1 \in 1 .. Len(toDevice)
      BY <1>1
    <3> QED
      BY <2>1, <3>1 DEF OrderInv, StartStage
  <2> QED
    BY <1>3, <1>5, <1>6, <2>1 DEF StartStage
<1>10. ImageInOrder'
  <2>1. ImageAt(dev', flash')
    <3>1. dev'.frame - 1 = 2 * 0 + Len(<<>>)
      <4>1. Len(<<>>) = 0
        OBVIOUS
      <4> QED
        BY <4>1
    <3> QED
      BY <3>1 DEF ImageAt
  <2> QED
    BY <2>1, ImageNext
<1> QED
  BY <1>2, <1>7, <1>8, <1>9, <1>10 DEF OrderInv

(* Blocks are only staged in a transfer, and its end is reached when all   *)
(* frames have been taken.                                                 *)
LEMMA EofExpected ==
  ASSUME IInv, OrderInv, dev.open, toDevice # <<>>, Head(toDevice).kind = "eof", dev.staged # <<>>
  PROVE  /\ Transferring /\ host.pc = "eof" /\ dev.frame = host.block + 1
         /\ toHost = <<>> /\ host.block = Request.len /\ dev.mode = ModeOf(host.at)
<1>1. toDevice \in Seq(Written) /\ Len(toDevice) \in Nat
  BY LineTypes
<1>2. 1 \in 1 .. Len(toDevice) /\ toDevice[1].kind = "eof"
  <2>1. Len(toDevice) >= 1 /\ Head(toDevice) = toDevice[1]
    BY <1>1, TailAt
  <2> QED
    BY <1>1, <2>1
<1>3. Transferring /\ dev.frame # 1
  BY DEF OrderInv, TransferStage, AtRest
<1>4. host.pc = "eof"
  BY <1>2, <1>3 DEF OrderInv, LineInOrder
<1> QED
  BY <1>3, <1>4 DEF OrderInv, TransferStage, RepliesInOrder

LEMMA EndOfFileInOrder ==
  ASSUME IInv, OrderInv, dev.open, toDevice # <<>>, Head(toDevice).kind = "eof",
         host' = host, script' = script, toDevice' = Tail(toDevice), EndOfFile
  PROVE  OrderInv'
<1> DEFINE s == Append(dev.staged, Padding)
           d == [dev EXCEPT !.frame = 1]
<1>1. dev \in DevType /\ dev.frame \in Nat \ {0} /\ host.block \in Nat
  BY LineTypes
<1>2. d \in DevType /\ d.frame = 1 /\ d.mode = dev.mode
  <2>1. 1 \in Nat \ {0}
    OBVIOUS
  <2>2. d \in DevType
    BY <1>1, <2>1 DEF DevType
  <2> QED
    BY <1>1, <2>2 DEF DevType
<1>3. WholePrefix(flash)
  BY PrefixIsWhole DEF OrderInv
<1>4. ASSUME Closed, WholePrefix(flash') PROVE OrderInv'
  BY <1>4, ClosedKeeps
<1>5. ASSUME NEW x, "mode" \in DOMAIN x, x.frame = 1, x.mode = dev.mode, Continue(x), WholePrefix(flash'),
             {"frame", "staged", "offset"} \subseteq DOMAIN x
      PROVE  OrderInv'
  <2>1. dev' = Reset(x) /\ toHost' = toHost \o <<"ACK">>
    BY <1>5 DEF Continue, Reply
  <2>2. Reset(x).mode = dev.mode /\ Reset(x).frame = 1 /\ Reset(x).staged = <<>> /\ Reset(x).offset = 0
    BY <1>5 DEF Reset
  <2> QED
    BY <1>5, <2>1, <2>2, EofAccepted
<1> HIDE DEF d, s
<1>6. CASE Len(dev.staged) # 1
  <2>1. Continue(d) /\ flash' = flash
    BY <1>6 DEF EndOfFile, Kept, d
  <2>2. {"mode", "frame", "staged", "offset"} \subseteq DOMAIN d
    BY <1>2 DEF DevType
  <2> QED
    BY <1>2, <1>3, <1>5, <2>1, <2>2
<1>7. CASE Len(dev.staged) = 1
  <2>1. Handle(s, d)
    BY <1>7 DEF EndOfFile, s, d
  <2>2. dev.staged # <<>>
    <3>1. Len(<<>>) = 0
      OBVIOUS
    <3> QED
      BY <1>7, <3>1
  <2>3. /\ Transferring /\ host.pc = "eof" /\ dev.frame = host.block + 1
        /\ host.block = Request.len /\ dev.mode = ModeOf(host.at)
    BY <2>2, EofExpected
  <2>4. CASE Cancel("bad_mode") /\ UNCHANGED flash
    BY <1>1, <1>3, <1>4, <2>4, CloseIsClosed
  <2>5. CASE FirmwareBlock(s, d)
    <3> DEFINE done == PagesDone
               last == Padding
    <3>1. dev.mode \in FirmwareModes /\ Len(s) = 2
      BY <2>5 DEF FirmwareBlock
    <3>2. ModeOf(host.at) \in FirmwareModes
      BY <2>3, <3>1
    <3>3. /\ done \in Nat /\ dev.frame = 2 * done + 2
          /\ s = <<Block(host.at, 2 * done + 1), last>>
      BY <2>3, <3>1, <3>2, Staged DEF s
    <3>4. done = PagesDone /\ last \in {Block(host.at, 2 * done + 2), Padding}
      OBVIOUS
    <3> HIDE DEF done, last
    <3>5. 2 * done + 1 <= Request.len
      BY <1>1, <2>3, <3>3
    <3>6. ImageInOrder
      BY DEF OrderInv
    <3>7. WholePrefix(flash') /\ (Closed \/ PageDone(s, d, done, last))
      BY <1>3, <2>3, <2>5, <3>2, <3>3, <3>4, <3>5, <3>6, FirmwareStep
    <3>8. CASE PageDone(s, d, done, last)
      <4> DEFINE x == [d EXCEPT !.staged = <<>>, !.offset = Offset(s) + 1, !.begin = Begin(s)]
      <4>1. Continue(x)
        BY <3>8 DEF PageDone
      <4>2. x.frame = 1 /\ x.mode = dev.mode /\ {"mode", "frame", "staged", "offset"} \subseteq DOMAIN x
        BY <1>2 DEF DevType
      <4> HIDE DEF x
      <4> QED
        BY <1>5, <3>7, <4>1, <4>2
    <3> QED
      BY <1>4, <3>7, <3>8
  <2>6. ASSUME NEW t, flash' = flash, Continue([d EXCEPT !.staged = t]) PROVE OrderInv'
    <3> DEFINE x == [d EXCEPT !.staged = t]
    <3>1. Continue(x)
      BY <2>6
    <3>2. x.frame = 1 /\ x.mode = dev.mode /\ {"mode", "frame", "staged", "offset"} \subseteq DOMAIN x
      BY <1>2 DEF DevType
    <3> HIDE DEF x
    <3> QED
      BY <1>3, <1>5, <2>6, <3>1, <3>2
  <2>7. CASE OwnerBlock(s, d)
    <3>1. flash' = flash /\ (Continue([d EXCEPT !.staged = <<>>]) \/ (Close("error") /\ toHost' = toHost))
      BY <2>7 DEF OwnerBlock
    <3> QED
      BY <1>1, <1>3, <1>4, <2>6, <3>1, CloseIsClosed
  <2>8. CASE BootSvcReq(s, d)
    <3>1. flash' = flash /\ (Continue([d EXCEPT !.staged = <<>>]) \/ Cancel("bad_mode"))
      BY <2>8 DEF BootSvcReq
    <3> QED
      BY <1>1, <1>3, <1>4, <2>6, <3>1, CloseIsClosed
  <2>9. CASE Continue([d EXCEPT !.staged = s]) /\ UNCHANGED flash
    BY <2>6, <2>9
  <2> QED
    BY <2>1, <2>4, <2>5, <2>7, <2>8, <2>9 DEF Handle
<1> QED
  BY <1>6, <1>7

(* A command is the last thing on the line, and not in a transfer.         *)
LEMMA CommandInOrder ==
  ASSUME IInv, OrderInv, ReceiveCommand, host' = host, script' = script
  PROVE  OrderInv'
<1> DEFINE mode == Head(toDevice).mode
           d == [dev EXCEPT !.deadline = FALSE]
<1>1. /\ dev.open /\ toDevice # <<>> /\ Head(toDevice).kind = "command"
      /\ toDevice' = Tail(toDevice) /\ flash' = flash
  BY DEF ReceiveCommand, Receives, Kept
<1>2. /\ Len(toDevice) \in Nat /\ 1 \in 1 .. Len(toDevice) /\ Head(toDevice) = toDevice[1]
      /\ Len(toDevice) = 1 => toDevice' = <<>>
  BY <1>1, TailLine
<1>3. /\ ~Transferring /\ Len(toDevice) = 1 /\ host.pc \in {"mode", "failed", "refused"}
  BY <1>1, <1>2 DEF OrderInv, LineInOrder
<1>4. AtRest /\ dev.frame = 1 /\ dev \in DevType
  BY <1>1, <1>3, LineTypes DEF OrderInv, TransferStage, AtRest
<1>5. toDevice' = <<>> /\ \A i \in 1 .. Len(toDevice') : FALSE
  <2>1. 1 .. Len(<<>>) = {}
    OBVIOUS
  <2> QED
    BY <1>2, <1>3, <2>1
<1>6. ValidateMode(mode)
  BY <1>4 DEF ReceiveCommand
<1>7. ASSUME host.pc = "mode"
      PROVE  /\ Silent("ok") /\ Request.mode # "none" /\ host.block = 0
             /\ mode \in {Request.mode, "garbled"}
  BY <1>1, <1>2, <1>7 DEF OrderInv, StartStage, Ready, RepliesInOrder
<1>8. PICK c \in {"ok", "error"} :
        /\ toHost' = toHost \o <<c>>
        /\ dev'.frame = 1 /\ dev'.staged = <<>> /\ dev'.offset = 0
        /\ c = "ok" /\ dev'.open => dev'.mode = mode /\ mode # "garbled"
  <2>1. d \in DevType /\ d.frame = 1 /\ d.staged = <<>> /\ d.offset = 0
    BY <1>4 DEF DevType, AtRest
  <2> HIDE DEF d, mode
  <2>2. CASE /\ mode = "NoOp" \/ Accepted(mode)
             /\ dev' = [Reset(d) EXCEPT !.mode = mode]
             /\ Reply(<<"ok">>)
    <3>1. mode # "garbled"
      BY <2>2 DEF Accepted, Known, FirmwareModes
    <3> QED
      BY <2>1, <2>2, <3>1 DEF Reset, DevType, Reply
  <2>3. CASE /\ dev' = [Reset(d) EXCEPT !.mode = mode, !.open = FALSE, !.exit = "reboot"]
             /\ Reply(<<"ok">>)
    BY <2>1, <2>3 DEF Reset, DevType, Reply
  <2>4. CASE dev' \in {d, Reset(d)} /\ Reply(<<"error">>)
    BY <2>1, <2>4 DEF Reset, DevType, Reply
  <2> QED
    BY <1>6, <2>2, <2>3, <2>4 DEF ValidateMode, d, mode
<1> HIDE DEF mode
<1>9. Transferring' = Transferring /\ Request' = Request /\ ModeOf(host.at)' = ModeOf(host.at)
  BY SameHost
<1>10. c \in Characters
  BY DEF Characters
<1>11. WholeFrames' /\ PrefixOfOneImage'
  BY <1>1, WholeFramesKept, PrefixStays DEF OrderInv
<1>12. RepliesInOrder'
  <2>1. ASSUME host.pc = "mode", NEW i \in 1 .. Len(toHost'), NEW j \in 1 .. Len(toHost'),
               i < j, toHost'[i] = "ok"
        PROVE  FALSE
    <3>1. i \in 1 .. Len(toHost) \/ i = Len(toHost')
      BY <1>8, <1>10, ReplyLine
    <3>2. i # Len(toHost')
      <4>1. Len(toHost') \in Nat
        BY <1>8, <1>10, ReplyLine
      <4> DEFINE k == Len(toHost')
      <4>2. i < j /\ j \in 1 .. k /\ k \in Nat /\ i \in 1 .. k
        BY <2>1, <4>1
      <4> HIDE DEF k
      <4>3. i # k
        BY <4>2
      <4> QED
        BY <4>3 DEF k
    <3>3. i \in 1 .. Len(toHost) => toHost'[i] = toHost[i]
      BY <1>8, <1>10, ReplyLine
    <3> QED
      BY <1>7, <2>1, <3>1, <3>2, <3>3 DEF Silent
  <2> QED
    BY <1>3, <1>7, <1>9, <2>1 DEF RepliesInOrder
<1>13. LineInOrder'
  BY <1>3, <1>5, <1>9 DEF LineInOrder
<1>14. TransferStage'
  BY <1>3, <1>8, <1>9 DEF TransferStage, AtRest
<1>15. ASSUME dev'.open PROVE StartStage'
  <2>1. ASSUME host.pc = "mode", c = "error" PROVE Silent("ok")'
    <3>1. ASSUME NEW i \in 1 .. Len(toHost') PROVE toHost'[i] # "ok"
      <4>1. (i \in 1 .. Len(toHost) /\ toHost'[i] = toHost[i]) \/ toHost'[i] = c
        BY <1>8, <1>10, ReplyLine
      <4> QED
        BY <1>7, <2>1, <4>1 DEF Silent
    <3> QED
      BY <3>1 DEF Silent
  <2>2. ASSUME host.pc = "mode", c = "ok" PROVE Ready'
    <3>1. dev'.mode = Request.mode /\ Request.mode # "none"
      BY <1>7, <1>8, <1>15, <2>2
    <3>2. ModeOf(host.at) = Request.mode
      BY <3>1 DEF ModeOf, Request
    <3> QED
      BY <1>5, <1>9, <3>1, <3>2 DEF Ready
  <2> QED
    BY <1>3, <1>5, <2>1, <2>2 DEF StartStage
<1>16. ImageInOrder'
  BY <1>3, <1>9 DEF ImageInOrder
<1> QED
  BY <1>11, <1>12, <1>13, <1>14, <1>15, <1>16 DEF OrderInv

LEMMA DeviceInOrder ==
  ASSUME IInv, OrderInv, FramesComplete, Device
  PROVE  OrderInv'
<1>1. host' = host /\ script' = script /\ DeviceNext
  BY DEF Device
<1>2. WholePrefix(flash) /\ dev \in DevType /\ WholeFrames
  BY LineTypes, PrefixIsWhole DEF OrderInv
<1>3. ASSUME Closed, flash' = flash, toDevice' = toDevice \/ (toDevice # <<>> /\ toDevice' = Tail(toDevice))
      PROVE  OrderInv'
  BY <1>1, <1>2, <1>3, ClosedKeeps
<1>4. ASSUME toDevice # <<>>
      PROVE  Head(toDevice).kind # "noise" /\ Head(toDevice).damage # "start"
  <2>1. toDevice \in Seq(Written)
    BY LineTypes
  <2>2. Len(toDevice) \in Nat /\ Len(toDevice) >= 1 /\ Head(toDevice) = toDevice[1]
    BY <1>4, <2>1, TailAt
  <2>3. 1 \in 1 .. Len(toDevice)
    BY <2>2
  <2> QED
    BY <1>2, <2>2, <2>3 DEF WholeFrames
<1>5. CASE ReceiveFrame
  BY <1>1, <1>5, ReceiveFrameInOrder
<1>6. CASE ReceiveOverrun \/ ReceiveWrongNumber \/ ReceiveShort
  <2>1. /\ (Close("error") /\ toHost' = toHost) \/ Cancel("cancel") \/ (Close("timeout") /\ toHost' = toHost)
        /\ flash' = flash /\ toDevice # <<>> /\ toDevice' = Tail(toDevice)
    BY <1>6 DEF ReceiveOverrun, ReceiveWrongNumber, ReceiveShort, Receives, Kept
  <2> QED
    BY <1>2, <1>3, <2>1, CloseIsClosed
<1>7. CASE ReceiveBadCrc
  <2>1. /\ dev.open /\ toDevice # <<>> /\ Head(toDevice).kind = "frame" /\ Expected(Head(toDevice))
        /\ toDevice' = Tail(toDevice) /\ toHost' = toHost \o <<"NAK">>
        /\ flash' = flash /\ dev' = dev
    BY <1>7 DEF ReceiveBadCrc, Receives, Kept, Reply
  <2>2. host.pc # "eof" /\ (host.pc = "data" => Silent("ACK"))
    BY <2>1, FrameExpected
  <2>3. "NAK" \in Characters \ {"ok", "ACK"}
    BY DEF Characters
  <2> QED
    BY <1>1, <2>1, <2>2, <2>3, QuietKeeps
<1>8. CASE ReceiveEof
  BY <1>1, <1>8, EndOfFileInOrder DEF ReceiveEof, Receives
<1>9. CASE ReceiveStartless
  BY <1>4, <1>9 DEF ReceiveStartless, Receives
<1>10. CASE ReceiveNoise
  <2>1. /\ toDevice # <<>> /\ toDevice' = Tail(toDevice) /\ flash' = flash
        /\ (Close("unknown") /\ toHost' = toHost) \/ (dev' = dev /\ toHost' = toHost)
    BY <1>4, <1>10 DEF ReceiveNoise, Kept
  <2> QED
    BY <1>1, <1>2, <1>3, <2>1, CloseIsClosed, QuietKeeps
<1>11. CASE ReceiveCommand
  BY <1>1, <1>11, CommandInOrder
<1>12. CASE StartTimeout
  <2>1. CASE dev.frame = 1 /\ Reply(<<"C">>) /\ dev' = dev
    <3>1. toDevice' = toDevice /\ flash' = flash /\ dev.open
      BY <1>12 DEF StartTimeout, Kept
    <3>2. ASSUME host.pc = "data" PROVE Silent("ACK")
      <4>1. host.block >= 1 /\ host.block \in Nat
        BY <3>2, LineTypes DEF OrderInv, RepliesInOrder
      <4>2. host.block # dev.frame - 1
        BY <2>1, <4>1
      <4> QED
        BY <3>1, <3>2, <4>2 DEF OrderInv, TransferStage, Silent
    <3>3. "C" \in Characters \ {"ok", "ACK"}
      BY DEF Characters
    <3>4. toHost' = toHost \o <<"C">>
      BY <2>1 DEF Reply
    <3> QED
      BY <1>1, <2>1, <3>1, <3>2, <3>3, <3>4, QuietKeeps
  <2>2. CASE Close("timeout") /\ toHost' = toHost
    <3>1. toDevice' = toDevice /\ flash' = flash
      BY <1>12 DEF StartTimeout, Kept
    <3> QED
      BY <1>2, <1>3, <2>2, <3>1, CloseIsClosed
  <2> QED
    BY <1>12, <2>1, <2>2 DEF StartTimeout
<1>13. CASE Inactivity
  <2>1. /\ toDevice' = toDevice \/ (toDevice # <<>> /\ toDevice' = Tail(toDevice))
        /\ toHost' = toHost \/ Reply(<<"CAN", "CAN">>)
        /\ flash' = flash /\ Close("inactivity")
    BY <1>13 DEF Inactivity
  <2>2. Closed
    BY <1>2, <2>1 DEF Close, Reply, Closed, DevType
  <2> QED
    BY <1>3, <2>1, <2>2
<1>14. CASE Output
  <2>1. /\ ~dev.open /\ toHost' = toHost \o <<"text">> /\ toDevice' = toDevice
        /\ flash' = flash /\ dev' = dev
    BY <1>14 DEF Output, Reply, devVars
  <2>2. "text" \in Characters \ {"ok", "ACK"}
    BY DEF Characters
  <2> QED
    BY <1>1, <2>1, <2>2, QuietKeeps
<1> QED
  BY <1>1, <1>5, <1>6, <1>7, <1>8, <1>9, <1>10, <1>11, <1>12, <1>13, <1>14 DEF DeviceNext

-----------------------------------------------------------------------------
(* The steps of the host.                                                  *)
LEMMA HostTail ==
  ASSUME IInv, toHost # <<>>, toHost' = Tail(toHost)
  PROVE  /\ 1 \in 1 .. Len(toHost) /\ Head(toHost) = toHost[1]
         /\ \A i \in 1 .. Len(toHost') :
              /\ toHost'[i] = toHost[i + 1] /\ i + 1 \in 1 .. Len(toHost) /\ 1 < i + 1
              /\ i + 1 = Len(toHost) => i = Len(toHost')
         /\ \A i, j \in 1 .. Len(toHost') : (i < j => i + 1 < j + 1) /\ (i + 1 = j + 1 => i = j)
         /\ 1 = Len(toHost) => toHost' = <<>>
         /\ \A c : Silent(c) => Silent(c)'
<1>1. toHost \in Seq(Characters) /\ Len(toHost) \in Nat
  BY LineTypes
<1>2. /\ Len(toHost) >= 1 /\ Len(toHost') = Len(toHost) - 1 /\ Head(toHost) = toHost[1]
      /\ toHost' \in Seq(Characters)
      /\ \A i \in 1 .. Len(toHost') : toHost'[i] = toHost[i + 1] /\ i + 1 \in 1 .. Len(toHost)
  BY <1>1, TailAt
<1> DEFINE l == Len(toHost)
           k == Len(toHost')
<1>3. l \in Nat /\ l >= 1 /\ k = l - 1
  BY <1>1, <1>2
<1> HIDE DEF l, k
<1>4. /\ \A i \in 1 .. k : 1 < i + 1 /\ (i + 1 = l => i = k)
      /\ \A i, j \in 1 .. k : (i < j => i + 1 < j + 1) /\ (i + 1 = j + 1 => i = j)
      /\ 1 \in 1 .. l
      /\ 1 = l => k = 0
  BY <1>3
<1>5. 1 = l => toHost' = <<>>
  BY <1>2, <1>4, EmptySeq DEF k
<1>6. ASSUME NEW c, Silent(c) PROVE Silent(c)'
  BY <1>2, <1>6 DEF Silent
<1> QED
  BY <1>2, <1>4, <1>5, <1>6 DEF l, k

LEMMA LineGrows ==
  ASSUME IInv, NEW m, toDevice' = Append(toDevice, m)
  PROVE  /\ Len(toDevice') \in Nat /\ Len(toDevice') \in 1 .. Len(toDevice')
         /\ toDevice'[Len(toDevice')] = m
         /\ \A i \in 1 .. Len(toDevice) : toDevice'[i] = toDevice[i]
         /\ \A i \in 1 .. Len(toDevice') :
              \/ i \in 1 .. Len(toDevice) /\ toDevice'[i] = toDevice[i] /\ i < Len(toDevice')
              \/ i = Len(toDevice') /\ toDevice'[i] = m /\ \A j \in 1 .. i - 1 : j \in 1 .. Len(toDevice)
<1> DEFINE S == Written \cup {m}
<1>1. toDevice \in Seq(S) /\ Len(toDevice) \in Nat /\ m \in S
  <2>1. toDevice \in Seq(Written)
    BY LineTypes
  <2>2. \A i \in 1 .. Len(toDevice) : toDevice[i] \in S
    BY <2>1, ElementOfSeq
  <2> HIDE DEF S
  <2>3. toDevice \in Seq(S)
    BY <2>1, <2>2, LenProperties, IsASeq
  <2> QED
    BY <2>1, <2>3, LenProperties DEF S
<1> HIDE DEF S
<1>2. /\ Len(toDevice') = Len(toDevice) + 1
      /\ \A i \in 1 .. Len(toDevice) : toDevice'[i] = toDevice[i]
      /\ toDevice'[Len(toDevice) + 1] = m
  BY <1>1, AddAt
<1> DEFINE l == Len(toDevice)
           k == Len(toDevice')
<1>3. l \in Nat /\ k = l + 1
  BY <1>1, <1>2
<1> HIDE DEF l, k
<1>4. /\ k \in Nat /\ k \in 1 .. k
      /\ \A i \in 1 .. k : (i \in 1 .. l /\ i < k) \/ (i = k /\ \A j \in 1 .. i - 1 : j \in 1 .. l)
  BY <1>3
<1> QED
  BY <1>2, <1>3, <1>4 DEF l, k

(* The host: its record, and what an order is kept of when it moves.       *)
LEMMA HostTypes ==
  ASSUME IInv
  PROVE  /\ host \in [pc : {"idle", "mode", "start", "data", "eof", "failed", "refused"},
                      at : 1 .. Len(script) + 1, block : Nat, errors : 0 .. MaxErrors,
                      cancels : 0 .. 2, last : Characters \cup {"none"}]
         /\ host.pc # "idle" => host.at <= Len(script)
         /\ host.at \in Nat \ {0} /\ host.block \in Nat /\ Len(script) \in Nat
BY ScriptFacts DEF IInv, TypeOK

LEMMA HostOrder ==
  ASSUME IInv, OrderInv, UNCHANGED <<script, dev, flash>>, WholeFrames', RepliesInOrder',
         dev.open => LineInOrder' /\ TransferStage' /\ StartStage' /\ ImageInOrder'
  PROVE  OrderInv'
BY PrefixStays DEF OrderInv

(* A line that grows by something other than noise.                        *)
LEMMA WholeGrows ==
  ASSUME IInv, WholeFrames, NEW m, toDevice' = Append(toDevice, m),
         m.kind # "noise" /\ m.damage # "start"
  PROVE  WholeFrames'
BY LineGrows DEF WholeFrames

LEMMA SendModeInOrder ==
  ASSUME IInv, OrderInv, SendMode
  PROVE  OrderInv'
<1> DEFINE m == Simple("command", Request.mode)
<1>1. /\ host.pc = "idle" /\ Request.mode # "none" /\ toDevice' = Append(toDevice, m)
      /\ toHost' = toHost /\ UNCHANGED <<script, dev, flash>>
  BY DEF SendMode, Write, HostKeeps, devVars
<1>2. host'.pc = "mode" /\ host'.block = 0 /\ host'.at = host.at
  BY HostTypes DEF SendMode
<1>3. m.kind = "command" /\ m.damage = "none" /\ m.mode = Request.mode
  BY DEF Simple
<1> HIDE DEF m
<1>4. Request' = Request
  BY <1>1, <1>2 DEF Request
<1>5. ~Transferring /\ ~Transferring'
  BY <1>1, <1>2 DEF Transferring
<1>6. WholeFrames'
  BY <1>1, <1>3, WholeGrows DEF OrderInv
<1>7. RepliesInOrder'
  BY <1>1, <1>2, <1>4 DEF OrderInv, RepliesInOrder, Silent
<1>8. ASSUME dev.open PROVE LineInOrder' /\ TransferStage' /\ StartStage' /\ ImageInOrder'
  <2>1. \A i \in 1 .. Len(toDevice) : toDevice[i].kind \notin {"frame", "command"}
    BY <1>1, <1>5, <1>8 DEF OrderInv, LineInOrder
  <2>2. \A i \in 1 .. Len(toDevice') :
          /\ toDevice'[i].kind # "frame"
          /\ toDevice'[i].kind = "command" => i = Len(toDevice') /\ toDevice'[i].mode = Request.mode
    BY <1>1, <1>3, <2>1, LineGrows
  <2>3. LineInOrder'
    BY <1>2, <1>5, <2>2 DEF LineInOrder
  <2>4. TransferStage'
    BY <1>1, <1>2, <1>5, <1>8 DEF OrderInv, TransferStage, AtRest
  <2>5. StartStage'
    BY <1>1, <1>2, <1>4, <2>2 DEF OrderInv, RepliesInOrder, StartStage, Silent
  <2>6. ImageInOrder'
    BY <1>5 DEF ImageInOrder
  <2> QED
    BY <2>3, <2>4, <2>5, <2>6
<1> QED
  BY <1>1, <1>6, <1>7, <1>8, HostOrder

LEMMA SkipModeInOrder ==
  ASSUME IInv, OrderInv, SkipMode
  PROVE  OrderInv'
<1>1. /\ host.pc = "idle" /\ host.at <= Len(script) /\ Request.mode = "none" /\ toDevice' = toDevice
      /\ toHost' = toHost /\ UNCHANGED <<script, dev, flash>>
  BY DEF SkipMode, HostKeeps, devVars
<1>2. host'.pc = "start" /\ host'.block = host.block /\ host'.at = host.at
  BY HostTypes DEF SkipMode
<1>3. host.at = 1
  <2>1. host.at \in 1 .. Len(script)
    BY <1>1, HostTypes
  <2>2. script \in Scripts
    BY LineTypes
  <2> QED
    BY <1>1, <2>1, <2>2, ScriptFacts DEF Request
<1>4. ~Transferring /\ ~Transferring'
  BY <1>1, <1>2 DEF Transferring
<1>5. WholeFrames'
  BY <1>1 DEF OrderInv, WholeFrames
<1>6. RepliesInOrder'
  BY <1>1, <1>2, <1>3 DEF OrderInv, RepliesInOrder, Silent
<1>7. ASSUME dev.open PROVE LineInOrder' /\ TransferStage' /\ StartStage' /\ ImageInOrder'
  <2>1. toDevice = <<>> /\ dev.mode = DefaultMode
    BY <1>1, <1>3, <1>7 DEF OrderInv, StartStage
  <2>2. LineInOrder'
    <3>1. 1 .. Len(<<>>) = {}
      OBVIOUS
    <3> QED
      BY <1>1, <1>4, <2>1, <3>1 DEF LineInOrder
  <2>3. TransferStage'
    BY <1>1, <1>2, <1>4, <1>7 DEF OrderInv, TransferStage, AtRest
  <2>4. StartStage'
    <3>1. ModeOf(host.at)' = DefaultMode
      BY <1>1, <1>2 DEF ModeOf, Request
    <3>2. host'.at = host.at
      BY <1>2
    <3> QED
      BY <1>1, <1>2, <2>1, <3>1 DEF StartStage, Ready
  <2>5. ImageInOrder'
    BY <1>4 DEF ImageInOrder
  <2> QED
    BY <2>2, <2>3, <2>4, <2>5
<1> QED
  BY <1>1, <1>5, <1>6, <1>7, HostOrder

(* Steps from one place outside a transfer to another.                     *)
LEMMA StaysOut ==
  ASSUME IInv, OrderInv, dev.open, UNCHANGED <<script, dev, flash, toDevice>>,
         ~Transferring, host'.pc \in {"idle", "mode", "start", "failed", "refused"},
         host'.pc = "failed" => host'.block = 0,
         host'.pc \in {"mode", "failed", "refused"} \/ toDevice = <<>>
  PROVE  LineInOrder' /\ TransferStage' /\ ImageInOrder'
<1>1. ~Transferring'
  <2>1. ~(0 > 0)
    OBVIOUS
  <2> QED
    BY <2>1 DEF Transferring
<1>2. LineInOrder'
  <2>1. CASE toDevice = <<>>
    <3>1. 1 .. Len(<<>>) = {}
      OBVIOUS
    <3> QED
      BY <1>1, <2>1, <3>1 DEF LineInOrder
  <2>2. CASE host'.pc \in {"mode", "failed", "refused"}
    BY <1>1, <2>2 DEF OrderInv, LineInOrder
  <2> QED
    BY <2>1, <2>2
<1>3. TransferStage'
  BY <1>1 DEF OrderInv, TransferStage, AtRest
<1>4. ImageInOrder'
  BY <1>1 DEF ImageInOrder
<1> QED
  BY <1>2, <1>3, <1>4

LEMMA AwaitModeInOrder ==
  ASSUME IInv, OrderInv, AwaitMode
  PROVE  OrderInv'
<1>1. /\ host.pc = "mode" /\ toDevice' = toDevice
      /\ toHost # <<>> /\ toHost' = Tail(toHost) /\ UNCHANGED <<script, dev, flash>>
  BY DEF AwaitMode, Reads, HostKeeps, devVars
<1>2. ~Transferring /\ host.block = 0 /\ Request.mode # "none"
  BY <1>1 DEF Transferring, OrderInv, RepliesInOrder
<1>3. WholeFrames'
  BY <1>1 DEF OrderInv, WholeFrames
<1>4. /\ 1 \in 1 .. Len(toHost) /\ Head(toHost) = toHost[1]
      /\ \A i \in 1 .. Len(toHost') : toHost'[i] = toHost[i + 1] /\ i + 1 \in 1 .. Len(toHost) /\ 1 < i + 1
      /\ \A i, j \in 1 .. Len(toHost') : i < j => i + 1 < j + 1
      /\ \A c : Silent(c) => Silent(c)'
  BY <1>1, HostTail
<1>5. \A i, j \in 1 .. Len(toHost) : i < j /\ toHost[i] = "ok" => toHost[j] \notin {"ok", "ACK"}
  BY <1>1 DEF OrderInv, RepliesInOrder
<1>6. dev.open /\ ~Silent("ok") => Ready
  BY <1>1 DEF OrderInv, StartStage
<1>7. CASE Head(toHost) = "error"
  <2>1. host'.pc = "refused"
    BY <1>7, HostTypes DEF AwaitMode
  <2>2. RepliesInOrder' /\ StartStage'
    BY <2>1 DEF RepliesInOrder, StartStage
  <2> QED
    BY <1>1, <1>2, <1>3, <2>1, <2>2, StaysOut, HostOrder
<1>8. ASSUME Head(toHost) = "ok"
      PROVE  /\ Silent("ok")' /\ Silent("ACK")'
             /\ dev.open => Ready
  <2>1. \A i \in 1 .. Len(toHost') : toHost'[i] \notin {"ok", "ACK"}
    BY <1>4, <1>5, <1>8
  <2>2. ~Silent("ok")
    BY <1>4, <1>8 DEF Silent
  <2> QED
    BY <1>6, <2>1, <2>2 DEF Silent
<1>9. CASE Head(toHost) = "ok" /\ Request.mode = "Reboot"
  <2>1. host'.pc = "idle" /\ host'.at = host.at + 1
    BY <1>9, HostTypes DEF AwaitMode
  <2>2. host'.at # 1
    BY <2>1, HostTypes
  <2>3. RepliesInOrder' /\ StartStage'
    BY <1>8, <1>9, <2>1, <2>2 DEF RepliesInOrder, StartStage
  <2>4. dev.open => toDevice = <<>>
    BY <1>8, <1>9 DEF Ready
  <2> QED
    BY <1>1, <1>2, <1>3, <2>1, <2>3, <2>4, StaysOut, HostOrder
<1>10. CASE Head(toHost) = "ok" /\ Request.mode # "Reboot"
  <2>1. host'.pc = "start" /\ host'.at = host.at /\ host'.block = host.block
    BY <1>10, HostTypes DEF AwaitMode
  <2>2. RepliesInOrder'
    BY <1>2, <1>8, <1>10, <2>1 DEF RepliesInOrder
  <2>3. dev.open => Ready'
    <3>1. ModeOf(host.at)' = ModeOf(host.at)
      BY <1>1, <2>1 DEF ModeOf
    <3> QED
      BY <1>1, <1>8, <1>10, <3>1 DEF Ready
  <2>4. dev.open => StartStage'
    BY <2>1, <2>3 DEF StartStage
  <2>5. dev.open => toDevice = <<>>
    BY <1>8, <1>10 DEF Ready
  <2> QED
    BY <1>1, <1>2, <1>3, <2>1, <2>2, <2>4, <2>5, StaysOut, HostOrder
<1>11. CASE Head(toHost) \notin {"error", "ok"}
  <2>1. host' = host
    BY <1>11 DEF AwaitMode
  <2>2. Request' = Request /\ ModeOf(host.at)' = ModeOf(host.at)
    BY <1>1, <2>1, SameHost
  <2>3. RepliesInOrder'
    <3>1. ASSUME NEW i \in 1 .. Len(toHost'), NEW j \in 1 .. Len(toHost'), i < j, toHost'[i] = "ok"
          PROVE  toHost'[j] \notin {"ok", "ACK"}
      BY <1>4, <1>5, <3>1
    <3> QED
      BY <1>1, <1>2, <2>1, <2>2, <3>1 DEF RepliesInOrder
  <2>4. dev.open => StartStage'
    BY <1>1, <1>4, <2>1, <2>2 DEF OrderInv, StartStage, Ready
  <2> QED
    BY <1>1, <1>2, <1>3, <2>1, <2>3, <2>4, StaysOut, HostOrder
<1> QED
  BY <1>7, <1>9, <1>10, <1>11

LEMMA ModeTimeoutInOrder ==
  ASSUME IInv, OrderInv, ModeTimeout
  PROVE  OrderInv'
<1>1. /\ host.pc = "mode" /\ toDevice' = toDevice /\ toHost' = toHost /\ UNCHANGED <<script, dev, flash>>
  BY DEF ModeTimeout, HostKeeps, devVars
<1>2. host'.pc = "failed" /\ host'.block = host.block
  BY HostTypes DEF ModeTimeout
<1>3. ~Transferring /\ host.block = 0
  BY <1>1 DEF Transferring, OrderInv, RepliesInOrder
<1>4. WholeFrames' /\ RepliesInOrder' /\ StartStage'
  BY <1>1, <1>2 DEF OrderInv, WholeFrames, RepliesInOrder, StartStage
<1> QED
  BY <1>1, <1>2, <1>3, <1>4, StaysOut, HostOrder

LEMMA AwaitFinishInOrder ==
  ASSUME IInv, OrderInv, AwaitFinish
  PROVE  OrderInv'
<1>1. /\ host.pc = "eof" /\ toDevice' = toDevice
      /\ toHost # <<>> /\ toHost' = Tail(toHost) /\ UNCHANGED <<script, dev, flash>>
  BY DEF AwaitFinish, Reads, HostKeeps, devVars
<1>2. host'.pc = "idle" /\ host'.at = host.at + 1 /\ host'.at # 1
  <2>1. host'.pc = "idle" /\ host'.at = host.at + 1
    BY HostTypes DEF AwaitFinish
  <2> QED
    BY <2>1, HostTypes
<1>3. Transferring /\ ~Transferring'
  BY <1>1, <1>2 DEF Transferring
<1>4. WholeFrames'
  BY <1>1 DEF OrderInv, WholeFrames
<1>5. RepliesInOrder'
  <2>1. Silent("ok")'
    BY <1>1, HostTail DEF OrderInv, RepliesInOrder
  <2> QED
    BY <1>2, <2>1 DEF RepliesInOrder
<1>6. ASSUME dev.open PROVE LineInOrder' /\ TransferStage' /\ StartStage' /\ ImageInOrder'
  <2>1. AtRest /\ \A i \in 1 .. Len(toDevice) : toDevice[i].kind # "frame"
    BY <1>1, <1>6 DEF OrderInv, TransferStage
  <2>2. \A i \in 1 .. Len(toDevice) : toDevice[i].kind # "command"
    BY <1>3, <1>6, <2>1 DEF OrderInv, LineInOrder
  <2>3. LineInOrder'
    BY <1>1, <1>3, <2>1, <2>2 DEF LineInOrder
  <2>4. TransferStage'
    BY <1>1, <1>2, <1>3, <2>1 DEF TransferStage, AtRest
  <2>5. StartStage' /\ ImageInOrder'
    BY <1>2, <1>3 DEF StartStage, ImageInOrder
  <2> QED
    BY <2>3, <2>4, <2>5
<1> QED
  BY <1>1, <1>4, <1>5, <1>6, HostOrder

(* The image does not depend on where in a transfer the host is.           *)
LEMMA ImageStays ==
  ASSUME ImageInOrder, UNCHANGED <<script, dev, flash>>, host'.at = host.at, Transferring \/ AtRest
  PROVE  ImageInOrder'
<1>1. /\ Request' = Request /\ ModeOf(host.at)' = ModeOf(host.at) /\ Base(host.at)' = Base(host.at)
      /\ Bank' = Bank
  BY DEF Request, ModeOf, Base, Bank
<1>2. CASE Transferring
  BY <1>1, <1>2 DEF ImageInOrder, PagesDone, InFlash, Discarded, BankOf, Place, Block, ModeOf, Base
<1>3. CASE AtRest
  <2>1. dev.frame - 1 = 2 * 0 + Len(<<>>)
    <3>1. Len(<<>>) = 0
      OBVIOUS
    <3> QED
      BY <1>3, <3>1 DEF AtRest
  <2> QED
    BY <1>3, <2>1 DEF ImageInOrder, PagesDone, AtRest
<1> QED
  BY <1>2, <1>3

(* The frames before are those of the same transfer.                       *)
FramesBefore == toDevice = <<>> \/ (Transferring /\ host.pc = "data")

LEMMA BeforeInOrder ==
  ASSUME IInv, OrderInv, dev.open, FramesBefore
  PROVE  FramesInOrder /\ \A i \in 1 .. Len(toDevice) : toDevice[i].kind = "frame"
<1>1. CASE toDevice = <<>>
  <2>1. 1 .. Len(<<>>) = {}
    OBVIOUS
  <2> QED
    BY <1>1, <2>1 DEF FramesInOrder
<1>2. CASE Transferring /\ host.pc = "data"
  BY <1>2 DEF OrderInv, LineInOrder
<1> QED
  BY <1>1, <1>2 DEF FramesBefore

LEMMA BlockSent ==
  ASSUME IInv, OrderInv, dev.open, UNCHANGED <<script, dev, flash>>, FramesBefore,
         host'.pc = "data", host'.at = host.at, NEW n \in Nat \ {0}, host'.block = n,
         n \in {dev.frame - 1, dev.frame}, n <= Request.len, host.block <= n,
         toDevice' = Append(toDevice, Frame(n, Block(host.at, n))),
         dev.mode = ModeOf(host.at), Transferring \/ AtRest,
         \A i \in 1 .. Len(toHost') : toHost'[i] = "ACK" => i = Len(toHost') /\ n = dev.frame - 1
  PROVE  LineInOrder' /\ TransferStage' /\ StartStage' /\ ImageInOrder'
<1> DEFINE m == Frame(n, Block(host.at, n))
<1>0. dev.frame \in Nat \ {0} /\ host.block \in Nat
  BY LineTypes
<1>1. /\ m.kind = "frame" /\ m.block = Block(host.at, n) /\ m.block.n = n
      /\ m.num = n % FrameModulus
  BY DEF Frame, Block
<1> HIDE DEF m
<1>2. Transferring' /\ Request' = Request /\ ModeOf(host.at)' = ModeOf(host.at)
  BY DEF Transferring, Request, ModeOf
<1>3. FramesInOrder /\ \A i \in 1 .. Len(toDevice) : toDevice[i].kind = "frame"
  BY BeforeInOrder
<1>4. \A i \in 1 .. Len(toDevice') :
        \/ i \in 1 .. Len(toDevice) /\ toDevice'[i] = toDevice[i]
        \/ i = Len(toDevice') /\ toDevice'[i] = m /\ \A j \in 1 .. i - 1 : j \in 1 .. Len(toDevice)
  BY LineGrows DEF m
<1>5. \A i \in 1 .. Len(toDevice) : toDevice'[i] = toDevice[i]
  BY LineGrows
<1>6. \A i \in 1 .. Len(toDevice') : toDevice'[i].kind = "frame"
  BY <1>1, <1>3, <1>4
<1>7. ASSUME NEW i \in 1 .. Len(toDevice)
      PROVE  /\ InFlight(toDevice[i]) /\ toDevice[i].block.n \in Nat /\ toDevice[i].block.n <= n
             /\ toDevice[i].block.n >= 1
             /\ \A j \in 1 .. i - 1 : toDevice[j].block.n <= toDevice[i].block.n
  <2>1. InFlight(toDevice[i]) /\ \A j \in 1 .. i - 1 : toDevice[j].block.n <= toDevice[i].block.n
    BY <1>3 DEF FramesInOrder
  <2>2. toDevice[i].block.n \in 1 .. host.block
    BY <2>1 DEF InFlight
  <2> QED
    BY <1>0, <2>1, <2>2
<1>8. ASSUME NEW i \in 1 .. Len(toDevice')
      PROVE  /\ InFlight(toDevice[i])'
             /\ \A j \in 1 .. i - 1 : toDevice'[j].kind = "frame" /\ toDevice'[j].block.n <= toDevice'[i].block.n
  <2>1. CASE i \in 1 .. Len(toDevice) /\ toDevice'[i] = toDevice[i]
    <3>1. ASSUME NEW j \in 1 .. i - 1 PROVE j \in 1 .. Len(toDevice)
      <4>1. Len(toDevice) \in Nat
        BY LineTypes
      <4> QED
        BY <2>1, <4>1
    <3>2. toDevice[i].block.n \in 1 .. n
      BY <1>7, <2>1
    <3> QED
      BY <1>3, <1>5, <1>7, <2>1, <3>1, <3>2 DEF InFlight, Block
  <2>2. CASE i = Len(toDevice') /\ toDevice'[i] = m /\ \A j \in 1 .. i - 1 : j \in 1 .. Len(toDevice)
    <3>1. n \in 1 .. n
      OBVIOUS
    <3>2. InFlight(toDevice[i])'
      BY <1>1, <2>2, <3>1 DEF InFlight, Block
    <3> QED
      BY <1>1, <1>3, <1>5, <1>7, <2>2, <3>2
  <2> QED
    BY <1>4, <2>1, <2>2
<1>9. LineInOrder'
  BY <1>2, <1>6, <1>8 DEF LineInOrder, FramesInOrder
<1>10. TransferStage'
  <2>1. dev.frame <= n + 1
    BY <1>0
  <2>2. (dev.frame = 1 => AtRest) /\ AtRest' = AtRest
    BY DEF OrderInv, TransferStage, AtRest
  <2> QED
    BY <1>2, <2>1, <2>2 DEF TransferStage
<1>11. StartStage' /\ ImageInOrder'
  BY ImageStays DEF StartStage, OrderInv
<1> QED
  BY <1>9, <1>10, <1>11

LEMMA EofSent ==
  ASSUME IInv, OrderInv, dev.open, UNCHANGED <<script, dev, flash>>, FramesBefore,
         host'.pc = "eof", host'.at = host.at, host'.block = host.block, host.block = Request.len,
         toDevice' = Append(toDevice, Simple("eof", "none")),
         dev.mode = ModeOf(host.at),
         (AtRest /\ toDevice = <<>>) \/ (Transferring /\ dev.frame = host.block + 1 /\ dev.frame # 1 /\ toHost' = <<>>)
  PROVE  LineInOrder' /\ TransferStage' /\ StartStage' /\ ImageInOrder'
<1> DEFINE m == Simple("eof", "none")
<1>0. dev.frame \in Nat \ {0} /\ host.block \in Nat
  BY LineTypes
<1>1. m.kind = "eof"
  BY DEF Simple
<1> HIDE DEF m
<1>2. Transferring' /\ Request' = Request /\ ModeOf(host.at)' = ModeOf(host.at)
  BY DEF Transferring, Request, ModeOf
<1>3. FramesInOrder /\ \A i \in 1 .. Len(toDevice) : toDevice[i].kind = "frame"
  BY BeforeInOrder
<1>4. \A i \in 1 .. Len(toDevice') :
        \/ i \in 1 .. Len(toDevice) /\ toDevice'[i] = toDevice[i]
        \/ i = Len(toDevice') /\ toDevice'[i] = m
  BY LineGrows DEF m
<1>5. \A i \in 1 .. Len(toDevice) : toDevice'[i] = toDevice[i]
  BY LineGrows
<1>6. ASSUME NEW i \in 1 .. Len(toDevice'), toDevice'[i].kind = "frame"
      PROVE  /\ InFlight(toDevice[i])'
             /\ \A j \in 1 .. i - 1 : toDevice'[j].kind = "frame" /\ toDevice'[j].block.n <= toDevice'[i].block.n
  <2>1. i \in 1 .. Len(toDevice) /\ toDevice'[i] = toDevice[i]
    BY <1>1, <1>4, <1>6
  <2>2. ASSUME NEW j \in 1 .. i - 1 PROVE j \in 1 .. Len(toDevice)
    <3>1. Len(toDevice) \in Nat
      BY LineTypes
    <3> QED
      BY <2>1, <3>1
  <2>3. InFlight(toDevice[i]) /\ \A j \in 1 .. i - 1 : toDevice[j].kind = "frame" /\ toDevice[j].block.n <= toDevice[i].block.n
    BY <1>3, <2>1 DEF FramesInOrder
  <2> QED
    BY <1>5, <2>1, <2>2, <2>3 DEF InFlight, Block
<1>7. LineInOrder'
  BY <1>1, <1>2, <1>3, <1>4, <1>6 DEF LineInOrder, FramesInOrder
<1>8. TransferStage'
  <2>1. dev.frame <= host.block + 1
    BY <1>0 DEF AtRest
  <2>2. ASSUME AtRest, toDevice = <<>>, NEW i \in 1 .. Len(toDevice') PROVE toDevice'[i].kind # "frame"
    <3>1. 1 .. Len(<<>>) = {}
      OBVIOUS
    <3> QED
      BY <1>1, <1>4, <2>2, <3>1
  <2>3. host.block <= Request.len
    BY <1>0
  <2>4. (dev.frame = 1 => AtRest) /\ AtRest' = AtRest /\ (AtRest => dev.frame = 1)
    BY DEF OrderInv, TransferStage, AtRest
  <2> QED
    BY <1>2, <2>1, <2>2, <2>3, <2>4 DEF TransferStage
<1>9. StartStage' /\ ImageInOrder'
  BY ImageStays DEF StartStage, OrderInv
<1> QED
  BY <1>7, <1>8, <1>9

(* SendNext: the next block, or the end of the file.                       *)
LEMMA NextSent ==
  ASSUME IInv, host.pc \in {"start", "data"}, SendNext(host)
  PROVE  /\ host'.at = host.at
         /\ \/ /\ host.block < Request.len /\ host'.pc = "data" /\ host'.block = host.block + 1
               /\ toDevice' = Append(toDevice, Frame(host.block + 1, Block(host.at, host.block + 1)))
            \/ /\ ~(host.block < Request.len) /\ host'.pc = "eof" /\ host'.block = host.block
               /\ toDevice' = Append(toDevice, Simple("eof", "none"))
<1>1. CASE host.block < Request.len
  <2> DEFINE h == [host EXCEPT !.pc = "data", !.block = @ + 1, !.cancels = 0]
  <2>1. h.at = host.at /\ h.pc = "data" /\ h.block = host.block + 1
    BY HostTypes
  <2>2. SendBlock(h)
    BY <1>1 DEF SendNext
  <2> HIDE DEF h
  <2> QED
    BY <1>1, <2>1, <2>2 DEF SendBlock, Write
<1>2. CASE ~(host.block < Request.len)
  BY <1>2, HostTypes DEF SendNext, Write
<1> QED
  BY <1>1, <1>2

LEMMA FramesAreWhole ==
  ASSUME NEW n, NEW b
  PROVE  /\ Frame(n, b).kind # "noise" /\ Frame(n, b).damage # "start"
         /\ Simple("eof", "none").kind # "noise" /\ Simple("eof", "none").damage # "start"
BY DEF Frame, Simple

LEMMA AwaitStartInOrder ==
  ASSUME IInv, OrderInv, AwaitStart
  PROVE  OrderInv'
<1>1. /\ host.pc = "start" /\ toHost # <<>> /\ toHost' = Tail(toHost) /\ UNCHANGED <<script, dev, flash>>
  BY DEF AwaitStart, Reads, HostKeeps, devVars
<1>2. ~Transferring /\ host.block = 0 /\ Silent("ok") /\ Silent("ACK")
  BY <1>1 DEF Transferring, OrderInv, RepliesInOrder
<1>3. Silent("ok")' /\ Silent("ACK")'
  BY <1>1, <1>2, HostTail
<1>4. ASSUME dev.open
      PROVE  /\ toDevice = <<>> /\ dev.mode = ModeOf(host.at) /\ AtRest
             /\ FramesBefore
  BY <1>1, <1>2, <1>4 DEF OrderInv, StartStage, Ready, TransferStage, FramesBefore
<1>5. Request.len \in Nat
  BY <1>1, LineTypes, HostTypes, ScriptFacts DEF Request
<1>6. CASE SendNext(host)
  <2>1. CASE /\ host.block < Request.len /\ host'.pc = "data" /\ host'.block = host.block + 1
             /\ toDevice' = Append(toDevice, Frame(host.block + 1, Block(host.at, host.block + 1)))
    <3>1. host'.at = host.at /\ Request' = Request
      BY <1>1, <1>6, NextSent DEF Request
    <3>2. host'.block = 1 /\ 1 <= Request.len /\ host.block + 1 = 1
      BY <1>2, <1>5, <2>1
    <3>3. WholeFrames'
      BY <2>1, WholeGrows, FramesAreWhole DEF OrderInv
    <3>4. RepliesInOrder'
      <4>1. 1 \in 1 .. Request.len
        BY <1>5, <3>2
      <4> QED
        BY <1>3, <2>1, <3>1, <3>2, <4>1 DEF RepliesInOrder, Silent
    <3>5. ASSUME dev.open PROVE LineInOrder' /\ TransferStage' /\ StartStage' /\ ImageInOrder'
      <4>1. 1 \in Nat \ {0} /\ 1 \in {dev.frame - 1, dev.frame} /\ host.block <= 1
        BY <1>2, <1>4, <3>5 DEF AtRest
      <4>2. \A i \in 1 .. Len(toHost') : toHost'[i] # "ACK"
        BY <1>3 DEF Silent
      <4>3. toDevice' = Append(toDevice, Frame(1, Block(host.at, 1)))
        BY <2>1, <3>2
      <4> QED
        BY <1>1, <1>4, <2>1, <3>1, <3>2, <3>5, <4>1, <4>2, <4>3, BlockSent
    <3> QED
      BY <1>1, <3>3, <3>4, <3>5, HostOrder
  <2>2. CASE /\ ~(host.block < Request.len) /\ host'.pc = "eof" /\ host'.block = host.block
             /\ toDevice' = Append(toDevice, Simple("eof", "none"))
    <3>1. host'.at = host.at /\ Request' = Request
      BY <1>1, <1>6, NextSent DEF Request
    <3>2. host.block = Request.len
      BY <1>2, <1>5, <2>2
    <3>3. WholeFrames'
      BY <2>2, WholeGrows, FramesAreWhole DEF OrderInv
    <3>4. RepliesInOrder'
      BY <1>3, <2>2, <3>1, <3>2 DEF RepliesInOrder
    <3>5. ASSUME dev.open PROVE LineInOrder' /\ TransferStage' /\ StartStage' /\ ImageInOrder'
      BY <1>1, <1>4, <2>2, <3>1, <3>2, <3>5, EofSent
    <3> QED
      BY <1>1, <3>3, <3>4, <3>5, HostOrder
  <2> QED
    BY <1>1, <1>6, <2>1, <2>2, NextSent
<1>7. CASE toDevice' = toDevice /\ host' \in {[host EXCEPT !.pc = "failed"], host,
                                              [host EXCEPT !.cancels = @ + 1]}
  <2>1. /\ host'.pc \in {"start", "failed"} /\ host'.at = host.at /\ host'.block = 0
    BY <1>1, <1>2, <1>7, HostTypes
  <2>2. WholeFrames' /\ RepliesInOrder'
    BY <1>2, <1>3, <1>7, <2>1 DEF OrderInv, WholeFrames, RepliesInOrder
  <2>3. dev.open => StartStage'
    <3>1. ModeOf(host.at)' = ModeOf(host.at)
      BY <1>1, <2>1 DEF ModeOf
    <3> QED
      BY <1>1, <1>4, <1>7, <2>1, <3>1 DEF StartStage, Ready
  <2> QED
    BY <1>1, <1>2, <1>4, <1>7, <2>1, <2>2, <2>3, StaysOut, HostOrder
<1> QED
  BY <1>6, <1>7 DEF AwaitStart

LEMMA AwaitReplyInOrder ==
  ASSUME IInv, OrderInv, AwaitReply
  PROVE  OrderInv'
<1> DEFINE h == IF Head(toHost) = "CAN" THEN [host EXCEPT !.cancels = @ + 1]
                ELSE [host EXCEPT !.errors = @ + 1]
<1>1. /\ host.pc = "data" /\ toHost # <<>> /\ toHost' = Tail(toHost) /\ UNCHANGED <<script, dev, flash>>
  BY DEF AwaitReply, Reads, HostKeeps, devVars
<1>2. Transferring /\ FramesBefore
  BY <1>1 DEF Transferring, FramesBefore
<1>3. /\ host.block \in 1 .. Request.len /\ Silent("ok")
      /\ \A i, j \in 1 .. Len(toHost) : toHost[i] = "ACK" /\ toHost[j] = "ACK" => i = j
  BY <1>1 DEF OrderInv, RepliesInOrder
<1>4. /\ 1 \in 1 .. Len(toHost) /\ Head(toHost) = toHost[1]
      /\ \A i \in 1 .. Len(toHost') :
           /\ toHost'[i] = toHost[i + 1] /\ i + 1 \in 1 .. Len(toHost) /\ 1 < i + 1
           /\ i + 1 = Len(toHost) => i = Len(toHost')
      /\ \A i, j \in 1 .. Len(toHost') : i + 1 = j + 1 => i = j
      /\ 1 = Len(toHost) => toHost' = <<>>
      /\ Silent("ok")'
  BY <1>1, <1>3, HostTail
<1>5. \A i, j \in 1 .. Len(toHost') : toHost'[i] = "ACK" /\ toHost'[j] = "ACK" => i = j
  BY <1>3, <1>4
<1>6. ASSUME dev.open
      PROVE  /\ host.block \in {dev.frame - 1, dev.frame} /\ dev.mode = ModeOf(host.at)
             /\ \A i \in 1 .. Len(toHost) : toHost[i] = "ACK" => i = Len(toHost) /\ host.block = dev.frame - 1
  BY <1>1, <1>2, <1>6 DEF OrderInv, TransferStage
<1>7. Request.len \in Nat /\ host.block \in Nat /\ dev.frame \in Nat \ {0}
  <2>1. host.at \in 1 .. Len(script) /\ script \in Scripts
    BY <1>1, LineTypes, HostTypes
  <2> QED
    BY <2>1, LineTypes, ScriptFacts DEF Request
<1>8. CASE Head(toHost) = "ACK" /\ SendNext(host)
  <2>1. ASSUME dev.open PROVE toHost' = <<>> /\ host.block = dev.frame - 1
    BY <1>4, <1>6, <1>8, <2>1
  <2>2. CASE /\ host.block < Request.len /\ host'.pc = "data" /\ host'.block = host.block + 1
             /\ toDevice' = Append(toDevice, Frame(host.block + 1, Block(host.at, host.block + 1)))
    <3>1. host'.at = host.at /\ Request' = Request
      BY <1>1, <1>8, NextSent DEF Request
    <3>2. host.block + 1 \in 1 .. Request.len /\ host.block + 1 \in Nat \ {0} /\ host.block <= host.block + 1
          /\ host.block + 1 <= Request.len
      BY <1>7, <2>2
    <3>3. WholeFrames'
      BY <2>2, WholeGrows, FramesAreWhole DEF OrderInv
    <3>4. RepliesInOrder'
      BY <1>4, <1>5, <2>2, <3>1, <3>2 DEF RepliesInOrder
    <3>5. ASSUME dev.open PROVE LineInOrder' /\ TransferStage' /\ StartStage' /\ ImageInOrder'
      <4>1. host.block + 1 = dev.frame
        BY <1>7, <2>1, <3>5
      <4>2. \A i \in 1 .. Len(toHost') : FALSE
        <5>1. 1 .. Len(<<>>) = {}
          OBVIOUS
        <5> QED
          BY <2>1, <3>5, <5>1
      <4> QED
        BY <1>1, <1>2, <1>6, <2>2, <3>1, <3>2, <3>5, <4>1, <4>2, BlockSent
    <3> QED
      BY <1>1, <3>3, <3>4, <3>5, HostOrder
  <2>3. CASE /\ ~(host.block < Request.len) /\ host'.pc = "eof" /\ host'.block = host.block
             /\ toDevice' = Append(toDevice, Simple("eof", "none"))
    <3>1. host'.at = host.at /\ Request' = Request
      BY <1>1, <1>8, NextSent DEF Request
    <3>2. host.block = Request.len
      BY <1>3, <1>7, <2>3
    <3>3. WholeFrames'
      BY <2>3, WholeGrows, FramesAreWhole DEF OrderInv
    <3>4. RepliesInOrder'
      BY <1>4, <2>3, <3>1, <3>2 DEF RepliesInOrder
    <3>5. ASSUME dev.open PROVE LineInOrder' /\ TransferStage' /\ StartStage' /\ ImageInOrder'
      <4>1. dev.frame = host.block + 1 /\ dev.frame # 1
        BY <1>3, <1>7, <2>1, <3>5
      <4> QED
        BY <1>1, <1>2, <1>6, <2>1, <2>3, <3>1, <3>2, <3>5, <4>1, EofSent
    <3> QED
      BY <1>1, <3>3, <3>4, <3>5, HostOrder
  <2> QED
    BY <1>1, <1>8, <2>2, <2>3, NextSent
<1>9. h.at = host.at /\ h.block = host.block /\ h.pc = "data" /\ [h EXCEPT !.pc = "failed"].pc = "failed"
      /\ [h EXCEPT !.pc = "failed"].at = host.at /\ [h EXCEPT !.pc = "failed"].block = host.block
  BY <1>1, HostTypes
<1> HIDE DEF h
<1>10. CASE host' = [h EXCEPT !.pc = "failed"] /\ toDevice' = toDevice
  <2>1. host'.pc = "failed" /\ host'.at = host.at /\ host'.block = host.block
    BY <1>9, <1>10
  <2>2. WholeFrames' /\ RepliesInOrder' /\ StartStage'
    BY <1>10, <2>1 DEF OrderInv, WholeFrames, RepliesInOrder, StartStage
  <2>3. Transferring' /\ Request' = Request /\ ModeOf(host.at)' = ModeOf(host.at)
    <3>1. host.block > 0
      BY <1>3, <1>7
    <3> QED
      BY <1>1, <2>1, <3>1 DEF Transferring, Request, ModeOf
  <2>4. ASSUME dev.open PROVE LineInOrder' /\ TransferStage' /\ ImageInOrder'
    <3>1. FramesInOrder /\ \A i \in 1 .. Len(toDevice) : toDevice[i].kind = "frame"
      BY <1>2, <2>4, BeforeInOrder
    <3>2. LineInOrder'
      BY <1>1, <1>10, <2>1, <2>3, <3>1 DEF LineInOrder, FramesInOrder, InFlight, Block
    <3>3. TransferStage'
      BY <1>1, <1>2, <2>1, <2>3, <2>4 DEF OrderInv, TransferStage, AtRest
    <3>4. ImageInOrder'
      BY <1>1, <1>2, <2>1, <2>4, ImageStays DEF OrderInv
    <3> QED
      BY <3>2, <3>3, <3>4
  <2> QED
    BY <1>1, <2>2, <2>4, HostOrder
<1>11. CASE SendBlock(h)
  <2>1. /\ host'.pc = "data" /\ host'.at = host.at /\ host'.block = host.block
        /\ toDevice' = Append(toDevice, Frame(host.block, Block(host.at, host.block)))
    BY <1>9, <1>11 DEF SendBlock, Write
  <2>2. Request' = Request
    BY <1>1, <2>1 DEF Request
  <2>3. WholeFrames'
    BY <2>1, WholeGrows, FramesAreWhole DEF OrderInv
  <2>4. RepliesInOrder'
    BY <1>3, <1>4, <1>5, <2>1, <2>2 DEF RepliesInOrder
  <2>5. ASSUME dev.open PROVE LineInOrder' /\ TransferStage' /\ StartStage' /\ ImageInOrder'
    <3>1. host.block \in Nat \ {0} /\ host.block <= Request.len /\ host.block <= host.block
      BY <1>3, <1>7
    <3>2. \A i \in 1 .. Len(toHost') : toHost'[i] = "ACK" => i = Len(toHost') /\ host.block = dev.frame - 1
      BY <1>4, <1>6, <2>5
    <3> QED
      BY <1>1, <1>2, <1>6, <2>1, <2>5, <3>1, <3>2, BlockSent
  <2> QED
    BY <1>1, <2>3, <2>4, <2>5, HostOrder
<1> QED
  BY <1>8, <1>10, <1>11 DEF AwaitReply, h

-----------------------------------------------------------------------------
(* The faults of the line.                                                 *)
LEMMA DamageInOrder ==
  ASSUME IInv, OrderInv, UNCHANGED <<script, dev, flash, host, toHost>>, toDevice # <<>>,
         Len(toDevice') = Len(toDevice),
         \A i \in 1 .. Len(toDevice) :
           /\ toDevice'[i].kind = toDevice[i].kind
              \/ (toDevice[i].kind \in {"eof", "command"} /\ toDevice'[i].kind = "byte")
           /\ toDevice'[i].damage # "start"
           /\ toDevice'[i].block = toDevice[i].block /\ toDevice'[i].num = toDevice[i].num
           /\ toDevice'[i].mode \in {toDevice[i].mode, "garbled"}
  PROVE  OrderInv'
<1>1. /\ Transferring' = Transferring /\ Request' = Request /\ ModeOf(host.at)' = ModeOf(host.at)
      /\ Len(toDevice) \in Nat
  BY SameHost, LineTypes
<1>2. WholeFrames'
  BY DEF OrderInv, WholeFrames
<1>3. RepliesInOrder'
  BY RepliesSame DEF OrderInv
<1>4. \A i \in 1 .. Len(toDevice) : toDevice'[i].kind = "frame" <=> toDevice[i].kind = "frame"
  OBVIOUS
<1>5. \A i \in 1 .. Len(toDevice) : InFlight(toDevice[i]) => InFlight(toDevice[i])'
  BY DEF InFlight, Block
<1>6. ASSUME dev.open PROVE LineInOrder'
  <2>1. CASE Transferring
    <3>1. FramesInOrder'
      <4>1. ASSUME NEW i \in 1 .. Len(toDevice), toDevice[i].kind = "frame", NEW j \in 1 .. i - 1
            PROVE  j \in 1 .. Len(toDevice) /\ toDevice[j].kind = "frame" /\ toDevice[j].block.n <= toDevice[i].block.n
        <5>1. j \in 1 .. Len(toDevice)
          BY <1>1
        <5> QED
          BY <1>6, <2>1, <4>1, <5>1 DEF OrderInv, LineInOrder, FramesInOrder
      <4>2. ASSUME NEW i \in 1 .. Len(toDevice), toDevice[i].kind = "frame" PROVE InFlight(toDevice[i])
        BY <1>6, <2>1, <4>2 DEF OrderInv, LineInOrder, FramesInOrder
      <4> QED
        BY <1>4, <1>5, <4>1, <4>2 DEF FramesInOrder
    <3>2. \A i \in 1 .. Len(toDevice) : toDevice[i].kind = "frame"
             \/ (host.pc = "eof" /\ i = Len(toDevice) /\ toDevice[i].kind # "command")
      BY <1>6, <2>1 DEF OrderInv, LineInOrder
    <3> QED
      BY <1>1, <2>1, <3>1, <3>2 DEF LineInOrder
  <2>2. CASE ~Transferring
    BY <1>1, <1>6, <2>2 DEF OrderInv, LineInOrder
  <2> QED
    BY <2>1, <2>2
<1>7. ASSUME dev.open PROVE TransferStage'
  BY <1>1, <1>4, <1>7 DEF OrderInv, TransferStage, AtRest
<1>8. ASSUME dev.open PROVE StartStage'
  <2>1. ~Ready /\ ~(host.pc = "idle" /\ host.at = 1) /\ host.pc # "start"
        /\ (host.pc = "mode" => Silent("ok"))
    BY <1>8 DEF OrderInv, StartStage, Ready
  <2>2. host.pc = "mode" => \A i \in 1 .. Len(toDevice) :
          toDevice'[i].kind = "command" => toDevice'[i].mode \in {Request.mode, "garbled"}
    BY <1>8 DEF OrderInv, StartStage
  <2> QED
    BY <1>1, <2>1, <2>2 DEF StartStage, Silent
<1>9. ASSUME dev.open PROVE ImageInOrder'
  BY <1>1, <1>9, ImageNow, ImageNext DEF OrderInv
<1> QED
  BY <1>2, <1>3, <1>6, <1>7, <1>8, <1>9, HostOrder

(* An answer that is lost or garbled.                                      *)
LEMMA LostReplyInOrder ==
  ASSUME IInv, OrderInv, UNCHANGED <<script, dev, flash, host, toDevice>>, toHost # <<>>, NEW k \in {0, 1},
         \A i \in 1 .. Len(toHost') :
           /\ i + k \in 1 .. Len(toHost) /\ toHost'[i] \in {toHost[i + k], "text"}
           /\ i + k = Len(toHost) => i = Len(toHost')
  PROVE  OrderInv'
<1>1. /\ Transferring' = Transferring /\ Request' = Request /\ ModeOf(host.at)' = ModeOf(host.at)
  BY SameHost
<1>2. WholeFrames'
  BY DEF OrderInv, WholeFrames
<1>3. (Silent("ok") => Silent("ok")') /\ (Silent("ACK") => Silent("ACK")')
  BY DEF Silent
<1>4. ASSUME host.pc = "mode", NEW i \in 1 .. Len(toHost'), NEW j \in 1 .. Len(toHost'),
             i < j, toHost'[i] = "ok"
      PROVE  toHost'[j] \notin {"ok", "ACK"}
  <2>1. i + k < j + k
    BY <1>4
  <2> QED
    BY <1>4, <2>1 DEF OrderInv, RepliesInOrder
<1>5. ASSUME host.pc = "data", NEW i \in 1 .. Len(toHost'), NEW j \in 1 .. Len(toHost'),
             toHost'[i] = "ACK", toHost'[j] = "ACK"
      PROVE  i = j
  <2>1. i + k = j + k
    BY <1>5 DEF OrderInv, RepliesInOrder
  <2> QED
    BY <2>1
<1>6. RepliesInOrder'
  BY <1>1, <1>3, <1>4, <1>5 DEF OrderInv, RepliesInOrder
<1>7. ASSUME dev.open PROVE LineInOrder'
  BY <1>1, <1>7 DEF OrderInv, LineInOrder, FramesInOrder, InFlight, Block
<1>8. ASSUME dev.open PROVE TransferStage'
  <2>1. host.pc = "eof" => dev.frame = 1
    BY <1>8 DEF OrderInv, TransferStage
  <2>2. ASSUME host.pc = "data", NEW i \in 1 .. Len(toHost'), toHost'[i] = "ACK"
        PROVE  i = Len(toHost') /\ host.block = dev.frame - 1
    BY <1>8, <2>2 DEF OrderInv, TransferStage
  <2> QED
    BY <1>1, <1>8, <2>1, <2>2 DEF OrderInv, TransferStage, AtRest
<1>9. ASSUME dev.open PROVE StartStage'
  BY <1>1, <1>3, <1>9 DEF OrderInv, StartStage, Ready
<1>10. ASSUME dev.open PROVE ImageInOrder'
  BY <1>1, <1>10, ImageNow, ImageNext DEF OrderInv
<1> QED
  BY <1>2, <1>6, <1>7, <1>8, <1>9, <1>10, HostOrder

LEMMA LineFaultInOrder ==
  ASSUME IInv, OrderInv, FramesComplete, Line
  PROVE  OrderInv'
<1>1. UNCHANGED <<script, dev, flash, host>>
  BY DEF Line, devVars
<1>2. toDevice \in Seq(Written) /\ toHost \in Seq(Characters) /\ Len(toDevice) \in Nat /\ Len(toHost) \in Nat
  BY LineTypes
<1>3. \A i \in 1 .. Len(toDevice) :
        /\ DOMAIN toDevice[i] = {"kind", "num", "block", "damage", "mode"}
        /\ toDevice[i].damage # "start"
  <2>1. \A i \in 1 .. Len(toDevice) : toDevice[i] \in Frames \cup Others
    BY <1>2, ElementOfSeq DEF Written
  <2>2. \A m \in Frames \cup Others : DOMAIN m = {"kind", "num", "block", "damage", "mode"}
    BY DEF Frames, Others
  <2> QED
    BY <2>1, <2>2 DEF OrderInv, WholeFrames
<1>4. ASSUME toDevice # <<>> PROVE Head(toDevice) = toDevice[1] /\ 1 \in 1 .. Len(toDevice)
  <2>1. Len(toDevice) >= 1 /\ Head(toDevice) = toDevice[1]
    BY <1>2, <1>4, TailAt
  <2> QED
    BY <1>2, <2>1
<1>5. ASSUME NEW f \in {"damage", "kind", "mode"}, NEW v, toDevice # <<>>, UNCHANGED toHost,
             toDevice' = [toDevice EXCEPT ![1] = [@ EXCEPT ![f] = v]],
             f = "damage" => v # "start",
             f = "kind" => Head(toDevice).kind \in {"eof", "command"} /\ v = "byte",
             f = "mode" => v = "garbled"
      PROVE  OrderInv'
  <2>1. DOMAIN toDevice = 1 .. Len(toDevice) /\ DOMAIN toDevice' = 1 .. Len(toDevice)
    BY <1>2, <1>5, LenProperties
  <2>2. Len(toDevice') = Len(toDevice)
    <3>1. toDevice' \in Seq({toDevice'[i] : i \in 1 .. Len(toDevice)})
      <4>1. toDevice' = [i \in 1 .. Len(toDevice) |-> toDevice'[i]]
        BY <1>5, <2>1
      <4> QED
        BY <1>2, <4>1, IsASeq
    <3>2. Len(toDevice') \in Nat /\ DOMAIN toDevice' = 1 .. Len(toDevice')
      BY <3>1, LenProperties
    <3> DEFINE l == Len(toDevice)
               k == Len(toDevice')
    <3>3. 1 .. l = 1 .. k /\ l \in Nat /\ k \in Nat
      BY <1>2, <2>1, <3>2
    <3> HIDE DEF l, k
    <3>4. l = k
      BY <3>3
    <3> QED
      BY <3>4 DEF l, k
  <2>3. \A i \in 1 .. Len(toDevice) : i # 1 => toDevice'[i] = toDevice[i]
    BY <1>5, <2>1
  <2>4. toDevice'[1] = [toDevice[1] EXCEPT ![f] = v]
    BY <1>4, <1>5, <2>1
  <2>5. \A g \in {"kind", "num", "block", "damage", "mode"} :
          toDevice'[1][g] = IF g = f THEN v ELSE toDevice[1][g]
    BY <1>3, <1>4, <1>5, <2>4
  <2>6. /\ toDevice'[1].kind = toDevice[1].kind
           \/ (toDevice[1].kind \in {"eof", "command"} /\ toDevice'[1].kind = "byte")
        /\ toDevice'[1].damage # "start"
        /\ toDevice'[1].block = toDevice[1].block /\ toDevice'[1].num = toDevice[1].num
        /\ toDevice'[1].mode \in {toDevice[1].mode, "garbled"}
    BY <1>3, <1>4, <1>5, <2>5
  <2> QED
    BY <1>1, <1>3, <1>5, <2>2, <2>3, <2>6, DamageInOrder
<1>6. CASE DamageFrame
  <2>1. PICK kind \in {"payload", "number", "short", "start"} :
          /\ kind \in Faults /\ toDevice # <<>>
          /\ toDevice' = [toDevice EXCEPT ![1].damage = kind] /\ UNCHANGED toHost
    BY <1>6 DEF DamageFrame, Fault
  <2>2. kind # "start"
    BY <2>1 DEF FramesComplete
  <2> QED
    BY <1>5, <2>1, <2>2
<1>7. CASE DamageOther
  <2>1. /\ toDevice # <<>> /\ toHost' = toHost /\ Head(toDevice).kind \in {"eof", "command"}
        /\ \/ toDevice' = Tail(toDevice)
           \/ toDevice' = [toDevice EXCEPT ![1].kind = "byte"]
           \/ toDevice' = [toDevice EXCEPT ![1].mode = "garbled"]
    BY <1>7 DEF DamageOther
  <2>2. CASE toDevice' = Tail(toDevice)
    BY <1>1, <2>1, <2>2, QuietKeeps
  <2>3. CASE toDevice' = [toDevice EXCEPT ![1].kind = "byte"]
    BY <1>5, <2>1, <2>3
  <2>4. CASE toDevice' = [toDevice EXCEPT ![1].mode = "garbled"]
    BY <1>5, <2>1, <2>4
  <2> QED
    BY <2>1, <2>2, <2>3, <2>4
<1>8. CASE DamageReply
  <2>1. toHost # <<>> /\ toDevice' = toDevice
        /\ (toHost' = Tail(toHost) \/ toHost' = [toHost EXCEPT ![1] = "text"])
    BY <1>8 DEF DamageReply
  <2>2. CASE toHost' = Tail(toHost)
    <3>1. \A i \in 1 .. Len(toHost') : /\ toHost'[i] = toHost[i + 1] /\ i + 1 \in 1 .. Len(toHost)
                                       /\ i + 1 = Len(toHost) => i = Len(toHost')
      BY <2>1, <2>2, HostTail
    <3> QED
      BY <1>1, <2>1, <3>1, LostReplyInOrder
  <2>3. CASE toHost' = [toHost EXCEPT ![1] = "text"]
    <3>1. 1 \in 1 .. Len(toHost) /\ "text" \in Characters
      BY <1>2, <2>1, EmptySeq DEF Characters
    <3>2. /\ Len(toHost') = Len(toHost)
          /\ \A i \in 1 .. Len(toHost) : toHost'[i] = IF i = 1 THEN "text" ELSE toHost[i]
      BY <1>2, <2>3, <3>1, ExceptSeq
    <3>4. \A i \in 1 .. Len(toHost') : /\ i + 0 = i /\ i \in 1 .. Len(toHost) /\ toHost'[i] \in {toHost[i], "text"}
      BY <1>2, <3>2
    <3> QED
      BY <1>1, <2>1, <3>2, <3>4, LostReplyInOrder
  <2> QED
    BY <2>1, <2>2, <2>3
<1> QED
  BY <1>6, <1>7, <1>8 DEF Line

-----------------------------------------------------------------------------
LEMMA InitInOrder ==
  ASSUME Init
  PROVE  OrderInv
<1>1. /\ toDevice = <<>> /\ toHost = <<"C">> /\ script \in Scripts
      /\ dev.open /\ dev.frame = 1 /\ dev.staged = <<>> /\ dev.offset = 0 /\ dev.mode = DefaultMode
      /\ host.pc = "idle" /\ host.at = 1 /\ host.block = 0
      /\ \A s \in Slots, p \in Pages : flash[s][p] = Old
  BY DEF Init, DeviceInit, HostInit
<1>2. 1 .. Len(toDevice) = {} /\ \A i \in 1 .. Len(toHost) : toHost[i] = "C"
  <2>1. 1 .. Len(<<>>) = {} /\ \A i \in 1 .. Len(<<"C">>) : <<"C">>[i] = "C"
    OBVIOUS
  <2> QED
    BY <1>1, <2>1
<1>3. ~Transferring
  BY <1>1 DEF Transferring
<1>4. WholeFrames /\ RepliesInOrder
  BY <1>1, <1>2 DEF WholeFrames, RepliesInOrder, Silent
<1>5. LineInOrder /\ TransferStage /\ StartStage /\ ImageInOrder
  BY <1>1, <1>2, <1>3 DEF LineInOrder, TransferStage, StartStage, ImageInOrder, AtRest
<1>6. PrefixOfOneImage
  <2>1. Old # Mixed
    BY DEF Old, Mixed, Page, Former, Spoiled, Block
  <2> QED
    BY <1>1, <2>1 DEF PrefixOfOneImage, Programmed
<1> QED
  BY <1>4, <1>5, <1>6 DEF OrderInv

LEMMA StepInOrder ==
  ASSUME IInv, OrderInv, FramesComplete, [Next]_vars
  PROVE  OrderInv'
<1>1. CASE Device
  BY <1>1, DeviceInOrder
<1>2. CASE HostNext
  BY <1>2, SendModeInOrder, SkipModeInOrder, AwaitModeInOrder, ModeTimeoutInOrder, AwaitStartInOrder,
     AwaitReplyInOrder, AwaitFinishInOrder DEF HostNext
<1>3. CASE Line
  BY <1>3, LineFaultInOrder
<1>4. CASE UNCHANGED vars
  <2>1. UNCHANGED <<script, dev, flash, host, toDevice, toHost>>
    BY <1>4 DEF vars, devVars
  <2> QED
    BY <2>1, QuietKeeps
<1> QED
  BY <1>1, <1>2, <1>3, <1>4 DEF Next

(* Whatever else the line loses or damages, and however the host and the   *)
(* device take turns: the frames, the answers and the blocks in flash stay *)
(* in the order of the image.                                              *)
THEOREM OrderKept ==
  ASSUME FramesComplete
  PROVE  Spec => []OrderInv
<1>1. Init => OrderInv
  BY InitInOrder
<1>2. IInv /\ OrderInv /\ [Next]_vars => OrderInv'
  BY StepInOrder
<1> QED
  BY <1>1, <1>2, InductiveInvariant, PTL DEF Spec

(* As long as no frame loses its first byte, what serial rescue leaves in  *)
(* a bank is the beginning of one image (flash_firmware_block() behind     *)
(* xmodem_recv_frame()), for any scripts, images of any length, any        *)
(* geometry of the flash and any number of faults.                         *)
THEOREM ImageOfOneTransfer ==
  ASSUME FramesComplete
  PROVE  Spec => []PrefixOfOneImage
<1>1. OrderInv => PrefixOfOneImage
  BY DEF OrderInv
<1> QED
  BY <1>1, OrderKept, PTL

LEMMA AckedBlocks == IInv /\ OrderInv => AckedIsKept
<1> SUFFICES ASSUME IInv, OrderInv, host.pc = "data", dev.open, ModeOf(host.at) \in FirmwareModes,
                    NEW n \in 1 .. host.block - 1
             PROVE  \/ InFlash(host.at, n)
                    \/ Discarded(host.at, n)
                    \/ \E i \in 1 .. Len(dev.staged) : dev.staged[i] = Block(host.at, n)
  BY DEF AckedIsKept
<1>1. Transferring /\ host.block \in {dev.frame - 1, dev.frame} /\ dev.frame \in Nat \ {0}
  BY LineTypes DEF Transferring, OrderInv, TransferStage
<1>2. n \in Nat /\ n >= 1 /\ n <= dev.frame - 1
  BY <1>1
<1>3. ImageInOrder
  BY DEF OrderInv
<1> DEFINE done == PagesDone
<1>4. dev.frame - 1 = 2 * done + Len(dev.staged) /\ done \in Int
      /\ (dev.offset = 0 => done = 0)
  <2>1. dev.offset \in Int /\ Base(host.at) \in Int
    BY LineTypes, RescueAssumption DEF DevType, Base
  <2> QED
    BY <1>1, <1>3, <2>1 DEF ImageInOrder, PagesDone
<1>5. CASE dev.staged = <<>>
  <2>1. Len(<<>>) = 0
    OBVIOUS
  <2>2. n \in 1 .. 2 * done /\ done # 0
    BY <1>2, <1>4, <1>5, <2>1
  <2> QED
    BY <1>1, <1>3, <1>4, <2>2 DEF ImageInOrder
<1>6. CASE dev.staged = <<Block(host.at, dev.frame - 1)>>
  <2>1. Len(dev.staged) = 1 /\ dev.staged[1] = Block(host.at, dev.frame - 1)
    BY <1>6
  <2>2. CASE n = dev.frame - 1
    BY <2>1, <2>2
  <2>3. CASE n # dev.frame - 1
    <3>1. n \in 1 .. 2 * done /\ done # 0
      BY <1>1, <1>2, <1>4, <2>1, <2>3
    <3> QED
      BY <1>1, <1>3, <1>4, <3>1 DEF ImageInOrder
  <2> QED
    BY <2>2, <2>3
<1> QED
  BY <1>1, <1>3, <1>5, <1>6 DEF ImageInOrder

(* In a transfer, everything that the host has read an ACK for is in flash *)
(* or in the buffer of the device.                                         *)
THEOREM AckedBlocksKept ==
  ASSUME FramesComplete
  PROVE  Spec => []AckedIsKept
BY AckedBlocks, InductiveInvariant, OrderKept, PTL

-----------------------------------------------------------------------------
(* What is in place when a file has been acknowledged.  An owner block     *)
(* fills at most one page, and a boot service request is one block.        *)
FileSizes ==
  \A s \in Scripts : \A r \in 1 .. Len(s) :
    /\ s[r].mode = "OwnerBlock" => s[r].len \in 1 .. 2
    /\ s[r].mode = "BootSvcReq" => s[r].len = 1

(* Stored, in flash f with owner page o and message m.                     *)
StoredIn(f, o, m, r) ==
  /\ ModeOf(r) \in FirmwareModes => \A n \in 1 .. script[r].len : Holds(f, r, n)
  /\ ModeOf(r) = "OwnerBlock" => o[1] = Block(r, 1)
  /\ ModeOf(r) = "BootSvcReq" => m = Block(r, 1)

(* BlocksStored of an open device in state d.                              *)
TakenAt(d, f, o, m) ==
  /\ ModeOf(host.at) = "OwnerBlock" =>
       /\ d.frame = 2 => d.staged = <<Block(host.at, 1)>>
       /\ d.frame = 3 => (o[1] = Block(host.at, 1) /\ d.staged = <<>>)
  /\ ModeOf(host.at) = "BootSvcReq" /\ d.frame = 2 => m = Block(host.at, 1) /\ d.staged = <<>>
  /\ host.pc = "eof" /\ d.frame = 1 => StoredIn(f, o, m, host.at)

LEMMA StoredIsIn ==
  ASSUME NEW r
  PROVE  Stored(r) <=> StoredIn(flash, ownerPage, message, r)
<1>1. ModeOf(r) \in FirmwareModes => (Stored(r) <=> StoredIn(flash, ownerPage, message, r))
  BY DEF Stored, StoredIn, Holds, InFlash, FirmwareModes
<1>2. ModeOf(r) \notin FirmwareModes => (Stored(r) <=> StoredIn(flash, ownerPage, message, r))
  <2>1. CASE ModeOf(r) = "OwnerBlock"
    BY <2>1 DEF Stored, StoredIn, FirmwareModes
  <2>2. CASE ModeOf(r) = "BootSvcReq"
    BY <2>2 DEF Stored, StoredIn, FirmwareModes
  <2>3. CASE ModeOf(r) \notin {"OwnerBlock", "BootSvcReq"}
    BY <2>3 DEF Stored, StoredIn, FirmwareModes
  <2> QED
    BY <2>1, <2>2, <2>3
<1> QED
  BY <1>1, <1>2

LEMMA StoredHere ==
  /\ Stored(host.at) <=> StoredIn(flash, ownerPage, message, host.at)
  /\ Stored(host.at - 1) <=> StoredIn(flash, ownerPage, message, host.at - 1)
BY StoredIsIn

LEMMA StoredNow ==
  ASSUME StoredInv
  PROVE  /\ dev.mode = "OwnerBlock" => OwnerUnlocked
         /\ dev.open /\ Transferring => TakenAt(dev, flash, ownerPage, message)
         /\ host.pc = "eof" /\ ~Silent("ACK") => StoredIn(flash, ownerPage, message, host.at)
         /\ host.pc = "idle" /\ host.last = "ACK" => StoredIn(flash, ownerPage, message, host.at - 1)
         /\ host.last # "none" => host.at > 1
BY StoredHere DEF StoredInv, BlocksStored, FileStored, AckedFileStored, TakenAt

LEMMA StoredNext ==
  ASSUME StoredInv, host' = host, script' = script,
         dev'.mode = "OwnerBlock" => OwnerUnlocked,
         dev'.open /\ Transferring => TakenAt(dev', flash', ownerPage', message'),
         host.pc = "eof" /\ ~Silent("ACK")' => StoredIn(flash', ownerPage', message', host.at),
         host.pc = "idle" /\ host.last = "ACK" => StoredIn(flash', ownerPage', message', host.at - 1)
  PROVE  StoredInv'
<1>1. /\ Transferring' = Transferring /\ ModeOf(host.at)' = ModeOf(host.at)
  BY SameHost
<1>2. ASSUME StoredIn(flash', ownerPage', message', host.at) PROVE Stored(host.at)'
  <2>1. StoredIn(flash, ownerPage, message, host.at)'
    BY <1>2 DEF StoredIn, Holds, ModeOf, Place, Base, Half, BankOf, Discarded, Block
  <2> QED
    BY <2>1, StoredHere, PTL
<1>3. ASSUME StoredIn(flash', ownerPage', message', host.at - 1) PROVE Stored(host.at - 1)'
  <2>1. StoredIn(flash, ownerPage, message, host.at - 1)'
    BY <1>3 DEF StoredIn, Holds, ModeOf, Place, Base, Half, BankOf, Discarded, Block
  <2> QED
    BY <2>1, StoredHere, PTL
<1> QED
  BY <1>1, <1>2, <1>3 DEF StoredInv, BlocksStored, FileStored, AckedFileStored, TakenAt, Block

LEMMA SizeFacts ==
  ASSUME IInv, FileSizes, host.at <= Len(script)
  PROVE  /\ Request.len \in Nat
         /\ ModeOf(host.at) = "OwnerBlock" => Request.len \in 1 .. 2
         /\ ModeOf(host.at) = "BootSvcReq" => Request.len = 1
<1>1. host.at \in 1 .. Len(script) /\ script \in Scripts
  BY LineTypes, HostTypes
<1> QED
  BY <1>1, ScriptFacts DEF FileSizes, ModeOf, Request, DefaultMode

(* Nothing new is stored or acknowledged.  A request to skip rescue is     *)
(* only put where nothing was.                                             *)
LEMMA StoredStays ==
  ASSUME IInv, StoredInv, host' = host, script' = script, flash' = flash, ownerPage' = ownerPage,
         dev'.mode = "OwnerBlock" => OwnerUnlocked,
         message' = message \/ (message = Former /\ ~dev'.open),
         dev'.open /\ Transferring => (dev' = dev /\ message' = message),
         dev'.open => dev.open,
         Silent("ACK") => Silent("ACK")'
  PROVE  StoredInv'
<1>1. \A r \in Nat \ {0} : StoredIn(flash, ownerPage, message, r) => StoredIn(flash, ownerPage, message', r)
  <2>1. \A r \in Nat \ {0} : Former # Block(r, 1)
    BY DEF Former, Block
  <2> QED
    BY <2>1 DEF StoredIn
<1>2. host.at \in Nat \ {0} /\ (host.at > 1 => host.at - 1 \in Nat \ {0})
  BY HostTypes
<1>3. host.last = "ACK" => host.at - 1 \in Nat \ {0}
  BY <1>2, StoredNow
<1> QED
  BY <1>1, <1>2, <1>3, StoredNow, StoredNext

(* A frame that is taken, by the handlers other than that for firmware.    *)
LEMMA ReceiveFrameStored ==
  ASSUME IInv, OrderInv, StoredInv, FramesComplete, FileSizes, ReceiveFrame, host' = host, script' = script
  PROVE  StoredInv'
<1> DEFINE m == Head(toDevice)
           s == Append(dev.staged, m.block)
           d == [dev EXCEPT !.frame = @ + 1, !.deadline = FALSE]
<1>1. /\ dev.open /\ toDevice # <<>> /\ m.kind = "frame" /\ Expected(m)
      /\ toDevice' = Tail(toDevice) /\ Handle(s, d)
  BY DEF ReceiveFrame, Receives
<1>2. /\ Transferring /\ host.pc \in {"data", "failed"}
      /\ m.block = Block(host.at, dev.frame) /\ dev.frame <= host.block
  BY <1>1, FrameExpected
<1>3. dev \in DevType /\ dev.frame \in Nat \ {0} /\ host.block \in Nat
  BY LineTypes
<1>4. dev.mode = ModeOf(host.at) /\ host.block <= Request.len /\ (dev.frame = 1 => dev.staged = <<>>)
  BY <1>1, <1>2 DEF OrderInv, TransferStage, AtRest
<1>5. /\ Request.len \in Nat
      /\ ModeOf(host.at) = "OwnerBlock" => Request.len \in 1 .. 2
      /\ ModeOf(host.at) = "BootSvcReq" => Request.len = 1
  BY <1>2, HostTypes, SizeFacts
<1>6. /\ ModeOf(host.at) = "OwnerBlock" => dev.frame \in {1, 2}
      /\ ModeOf(host.at) = "BootSvcReq" => dev.frame = 1
  BY <1>2, <1>3, <1>4, <1>5
<1>7. d \in DevType /\ d.frame = dev.frame + 1 /\ d.frame # 1 /\ d.mode = dev.mode
  <2>1. dev.frame + 1 \in Nat \ {0} /\ dev.frame + 1 # 1
    BY <1>3
  <2>2. d \in DevType
    BY <1>3, <2>1 DEF DevType
  <2> QED
    BY <1>3, <2>1, <2>2 DEF DevType
<1>8. /\ dev.mode = "OwnerBlock" => OwnerUnlocked
      /\ TakenAt(dev, flash, ownerPage, message)
  BY <1>1, <1>2, StoredNow
<1>9. ASSUME dev'.mode = dev.mode, dev'.open => TakenAt(dev', flash', ownerPage', message')
      PROVE  StoredInv'
  BY <1>2, <1>8, <1>9, StoredNext
<1>10. ASSUME dev.frame = 1 PROVE s = <<Block(host.at, 1)>> /\ Len(s) = 1
  <2>1. \A b : Append(<<>>, b) = <<b>>
    OBVIOUS
  <2>2. s = <<m.block>> /\ m.block = Block(host.at, 1)
    BY <1>2, <1>4, <1>10, <2>1
  <2> HIDE DEF s, m
  <2>3. s = <<Block(host.at, 1)>>
    BY <2>2
  <2>4. \A b : Len(<<b>>) = 1
    OBVIOUS
  <2> QED
    BY <2>3, <2>4
<1>11. ASSUME dev.frame = 2, ModeOf(host.at) = "OwnerBlock" PROVE s[1] = Block(host.at, 1) /\ Len(s) = 2
  <2>1. dev.staged = <<Block(host.at, 1)>>
    BY <1>8, <1>11 DEF TakenAt
  <2> DEFINE S == {Block(host.at, 1), m.block}
  <2>2. dev.staged \in Seq(S) /\ Len(dev.staged) = 1 /\ dev.staged[1] = Block(host.at, 1) /\ m.block \in S
    BY <2>1
  <2> HIDE DEF S, m
  <2>3. Len(s) = Len(dev.staged) + 1 /\ \A i \in 1 .. Len(dev.staged) : s[i] = dev.staged[i]
    <3>1. \A q \in Seq(S), x \in S :
            Len(Append(q, x)) = Len(q) + 1 /\ \A i \in 1 .. Len(q) : Append(q, x)[i] = q[i]
      BY AppendProperties
    <3> QED
      BY <2>2, <3>1
  <2> HIDE DEF s
  <2>4. 1 \in 1 .. 1 /\ 1 + 1 = 2
    OBVIOUS
  <2> QED
    BY <2>2, <2>3, <2>4
<1> HIDE DEF d, s, m
<1>12. ASSUME NEW why, Close(why) PROVE StoredInv'
  BY <1>3, <1>9, <1>12 DEF Close, DevType
<1>13. ASSUME NEW x, x.frame = dev.frame + 1, x.mode = dev.mode, Continue(x),
              TakenAt(x, flash', ownerPage', message')
       PROVE  StoredInv'
  <2>1. dev' = x
    BY <1>3, <1>13 DEF Continue
  <2> QED
    BY <1>9, <1>13, <2>1
<1>14. ASSUME NEW x, x.frame = dev.frame + 1, ModeOf(host.at) \notin {"OwnerBlock", "BootSvcReq"}
       PROVE  TakenAt(x, flash', ownerPage', message')
  BY <1>2, <1>14 DEF TakenAt
<1>15. CASE FirmwareBlock(s, d)
  <2> DEFINE x == [d EXCEPT !.staged = <<>>, !.offset = Offset(s) + 1, !.begin = Begin(s)]
  <2>1. Continue(x) \/ Cancel("too_big") \/ Close("error")
    BY <1>15 DEF FirmwareBlock
  <2>2. x.frame = dev.frame + 1 /\ x.mode = dev.mode
    BY <1>7 DEF DevType
  <2> HIDE DEF x
  <2>3. ModeOf(host.at) \notin {"OwnerBlock", "BootSvcReq"}
    BY <1>4, <1>15 DEF FirmwareBlock, FirmwareModes
  <2> QED
    BY <1>12, <1>13, <1>14, <2>1, <2>2, <2>3 DEF Cancel
<1>16. CASE OwnerBlock(s, d)
  <2> DEFINE x == [d EXCEPT !.staged = <<>>]
  <2>1. x.frame = dev.frame + 1 /\ x.mode = dev.mode /\ x.staged = <<>>
    BY <1>7 DEF DevType
  <2>2. dev.mode = "OwnerBlock" /\ OwnerUnlocked /\ Len(s) = 2
    BY <1>8, <1>16 DEF OwnerBlock
  <2>3. (ownerPage' = s /\ Continue(x)) \/ Close("error")
    BY <1>16, <2>2 DEF OwnerBlock
  <2> HIDE DEF x
  <2>4. dev.frame = 2
    BY <1>4, <1>6, <1>10, <2>2
  <2>5. ownerPage' = s => TakenAt(x, flash', ownerPage', message')
    BY <1>2, <1>4, <1>11, <2>1, <2>2, <2>4 DEF TakenAt
  <2> QED
    BY <1>12, <1>13, <2>1, <2>3, <2>5
<1>17. CASE BootSvcReq(s, d)
  <2> DEFINE x == [d EXCEPT !.staged = <<>>]
  <2>1. x.frame = dev.frame + 1 /\ x.mode = dev.mode /\ x.staged = <<>>
    BY <1>7 DEF DevType
  <2>2. dev.mode = "BootSvcReq" /\ ((message' = s[1] /\ Continue(x)) \/ Cancel("bad_mode"))
    BY <1>17 DEF BootSvcReq
  <2> HIDE DEF x
  <2>3. s[1] = Block(host.at, 1)
    BY <1>4, <1>6, <1>10, <2>2
  <2>4. message' = s[1] => TakenAt(x, flash', ownerPage', message')
    BY <1>2, <1>4, <2>1, <2>2, <2>3 DEF TakenAt
  <2> QED
    BY <1>12, <1>13, <2>1, <2>2, <2>4 DEF Cancel
<1>18. CASE /\ dev.mode # "BootSvcReq"
            /\ dev.mode = "NoOp" \/ Len(s) < 2
            /\ Continue([d EXCEPT !.staged = s])
  <2> DEFINE x == [d EXCEPT !.staged = s]
  <2>1. x.frame = dev.frame + 1 /\ x.mode = dev.mode /\ x.staged = s /\ Continue(x)
    BY <1>7, <1>18 DEF DevType
  <2> HIDE DEF x
  <2>2. CASE dev.mode = "OwnerBlock"
    <3>1. dev.frame = 1
      <4>1. ModeOf(host.at) = "OwnerBlock" /\ dev.frame \in {1, 2} /\ Len(s) < 2
        BY <1>4, <1>6, <1>18, <2>2
      <4>2. dev.frame # 2
        <5>1. ~(2 < 2)
          OBVIOUS
        <5> QED
          BY <1>11, <4>1, <5>1
      <4> QED
        BY <4>1, <4>2
    <3>2. TakenAt(x, flash', ownerPage', message')
      BY <1>2, <1>4, <1>10, <2>1, <2>2, <3>1 DEF TakenAt
    <3> QED
      BY <1>13, <2>1, <3>2
  <2>3. CASE dev.mode # "OwnerBlock"
    BY <1>4, <1>13, <1>14, <1>18, <2>1, <2>3
  <2> QED
    BY <2>2, <2>3
<1> QED
  BY <1>1, <1>12, <1>15, <1>16, <1>17, <1>18 DEF Handle, Cancel

(* The end of a file: all frames have been taken, the residue is handled.  *)
LEMMA EndOfFileStored ==
  ASSUME IInv, OrderInv, StoredInv, FileSizes, dev.open, toDevice # <<>>, Head(toDevice).kind = "eof",
         host' = host, script' = script, toDevice' = Tail(toDevice), EndOfFile
  PROVE  StoredInv'
<1> DEFINE s == Append(dev.staged, Padding)
           d == [dev EXCEPT !.frame = 1]
<1>1. dev \in DevType /\ dev.frame \in Nat \ {0} /\ host.block \in Nat
  BY LineTypes
<1>2. d \in DevType /\ d.frame = 1 /\ d.mode = dev.mode
  <2>1. 1 \in Nat \ {0}
    OBVIOUS
  <2>2. d \in DevType
    BY <1>1, <2>1 DEF DevType
  <2> QED
    BY <1>1, <2>2 DEF DevType
<1>3. /\ dev.mode = "OwnerBlock" => OwnerUnlocked
      /\ Transferring => TakenAt(dev, flash, ownerPage, message)
      /\ host.pc = "idle" /\ host.last = "ACK" => StoredIn(flash, ownerPage, message, host.at - 1)
  BY StoredNow
<1>4. ASSUME NEW x, x.frame = 1, x.mode = dev.mode, {"mode", "frame", "staged", "offset"} \subseteq DOMAIN x,
             Continue(x),
             host.pc = "eof" => StoredIn(flash', ownerPage', message', host.at),
             host.pc # "eof" => UNCHANGED <<flash, ownerPage, message>>
      PROVE  StoredInv'
  <2>1. dev' = Reset(x)
    BY <1>4 DEF Continue
  <2>2. Reset(x).mode = dev.mode /\ Reset(x).frame = 1
    BY <1>4 DEF Reset
  <2>3. TakenAt(dev', flash', ownerPage', message')
    BY <1>4, <2>1, <2>2 DEF TakenAt
  <2> QED
    BY <1>3, <1>4, <2>1, <2>2, <2>3, StoredNext
<1> HIDE DEF d, s
<1>5. CASE Len(dev.staged) # 1
  <2>1. Continue(d) /\ UNCHANGED <<flash, ownerPage, message>>
    BY <1>5 DEF EndOfFile, Kept, d
  <2>2. {"mode", "frame", "staged", "offset"} \subseteq DOMAIN d
    BY <1>2 DEF DevType
  <2>3. ASSUME host.pc = "eof" PROVE StoredIn(flash, ownerPage, message, host.at)
    <3>1. Transferring
      BY <2>3 DEF Transferring
    <3>2. CASE dev.frame = 1
      BY <1>3, <2>3, <3>1, <3>2 DEF TakenAt
    <3>3. CASE dev.frame # 1
      <4>1. dev.frame = host.block + 1 /\ host.block = Request.len
        BY <2>3, <3>3 DEF OrderInv, TransferStage, RepliesInOrder
      <4>2. /\ Request.len \in Nat
            /\ ModeOf(host.at) = "OwnerBlock" => Request.len \in 1 .. 2
            /\ ModeOf(host.at) = "BootSvcReq" => Request.len = 1
        BY <2>3, HostTypes, SizeFacts
      <4>3. ASSUME ModeOf(host.at) \in FirmwareModes, NEW n \in 1 .. Request.len
            PROVE  Holds(flash, host.at, n)
        <5>1. ImageAt(dev, flash)
          BY <3>1, <4>3, ImageNow DEF OrderInv
        <5>2. dev.staged = <<>>
          <6>1. Len(<<Block(host.at, dev.frame - 1)>>) = 1
            OBVIOUS
          <6> QED
            BY <1>5, <5>1, <6>1 DEF ImageAt
        <5> DEFINE done == IF dev.offset = 0 THEN 0 ELSE dev.offset - Base(host.at)
        <5>3. dev.frame - 1 = 2 * done + 0
          <6>1. Len(<<>>) = 0
            OBVIOUS
          <6> QED
            BY <5>1, <5>2, <6>1 DEF ImageAt
        <5>4. dev.offset = 0 => done = 0
          OBVIOUS
        <5>5. done \in Int
          BY <1>1, RescueAssumption DEF DevType, Base
        <5>6. dev.offset # 0 => \A k \in 1 .. 2 * done : Holds(flash, host.at, k)
          BY <5>1 DEF ImageAt
        <5> HIDE DEF done
        <5>7. n \in 1 .. 2 * done /\ done # 0
          BY <1>1, <4>1, <4>2, <5>3, <5>5
        <5> QED
          BY <5>4, <5>6, <5>7
      <4>4. ASSUME ModeOf(host.at) = "OwnerBlock" PROVE ownerPage[1] = Block(host.at, 1)
        <5>1. dev.frame = 2 \/ dev.frame = 3
          BY <1>1, <4>1, <4>2, <4>4
        <5>2. dev.frame # 2
          <6>1. Len(<<Block(host.at, 1)>>) = 1
            OBVIOUS
          <6> QED
            BY <1>3, <1>5, <3>1, <4>4, <6>1 DEF TakenAt
        <5> QED
          BY <1>3, <3>1, <4>4, <5>1, <5>2 DEF TakenAt
      <4>5. ASSUME ModeOf(host.at) = "BootSvcReq" PROVE message = Block(host.at, 1)
        <5>1. dev.frame = 2
          BY <1>1, <4>1, <4>2, <4>5
        <5> QED
          BY <1>3, <3>1, <4>5, <5>1 DEF TakenAt
      <4> QED
        BY <4>3, <4>4, <4>5 DEF StoredIn, Request
    <3> QED
      BY <3>2, <3>3
  <2> QED
    BY <1>2, <1>4, <2>1, <2>2, <2>3
<1>6. CASE Len(dev.staged) = 1
  <2>1. Handle(s, d)
    BY <1>6 DEF EndOfFile, s, d
  <2>2. dev.staged # <<>>
    <3>1. Len(<<>>) = 0
      OBVIOUS
    <3> QED
      BY <1>6, <3>1
  <2>3. /\ Transferring /\ host.pc = "eof" /\ dev.frame = host.block + 1 /\ toHost = <<>>
        /\ host.block = Request.len /\ dev.mode = ModeOf(host.at)
    BY <2>2, EofExpected
  <2>4. /\ Request.len \in Nat
        /\ ModeOf(host.at) = "OwnerBlock" => Request.len \in 1 .. 2
        /\ ModeOf(host.at) = "BootSvcReq" => Request.len = 1
    BY <2>3, HostTypes, SizeFacts
  <2>5. TakenAt(dev, flash, ownerPage, message)
    BY <1>3, <2>3
  <2>6. ModeOf(host.at) # "BootSvcReq"
    <3>1. ModeOf(host.at) = "BootSvcReq" => dev.frame = 2
      BY <1>1, <2>3, <2>4
    <3> QED
      BY <2>2, <2>5, <3>1 DEF TakenAt
  <2>7. ModeOf(host.at) = "OwnerBlock" => dev.staged = <<Block(host.at, 1)>>
    <3>1. ModeOf(host.at) = "OwnerBlock" => dev.frame = 2 \/ dev.frame = 3
      BY <1>1, <2>3, <2>4
    <3> QED
      BY <2>2, <2>5, <3>1 DEF TakenAt
  <2>8. ASSUME Closed, dev'.mode = dev.mode PROVE StoredInv'
    <3>1. Silent("ACK")'
      <4>1. toHost' = <<>> \/ toHost' = <<>> \o <<"CAN", "CAN">>
        BY <2>3, <2>8 DEF Closed
      <4>2. \A i \in 1 .. Len(<<>>) : FALSE
        OBVIOUS
      <4>3. \A i \in 1 .. Len(<<>> \o <<"CAN", "CAN">>) : (<<>> \o <<"CAN", "CAN">>)[i] # "ACK"
        <5>1. \A i \in 1 .. Len(<<"CAN", "CAN">>) : <<"CAN", "CAN">>[i] # "ACK"
          OBVIOUS
        <5>2. <<>> \o <<"CAN", "CAN">> = <<"CAN", "CAN">>
          OBVIOUS
        <5> QED
          BY <5>1, <5>2
      <4> QED
        BY <4>1, <4>2, <4>3 DEF Silent
    <3> QED
      BY <1>3, <2>3, <2>8, <3>1, StoredNext DEF Closed
  <2>9. ASSUME NEW why, Cancel(why) \/ (Close(why) /\ toHost' = toHost) PROVE StoredInv'
    <3>1. Closed /\ dev'.mode = dev.mode
      BY <1>1, <2>9, CloseIsClosed DEF Cancel, Close, DevType
    <3> QED
      BY <2>8, <3>1
  <2>10. CASE FirmwareBlock(s, d)
    <3> DEFINE done == PagesDone
               last == Padding
    <3>1. dev.mode \in FirmwareModes /\ Len(s) = 2
      BY <2>10 DEF FirmwareBlock
    <3>2. ModeOf(host.at) \in FirmwareModes
      BY <2>3, <3>1
    <3>3. /\ done \in Nat /\ dev.frame = 2 * done + 2
          /\ s = <<Block(host.at, 2 * done + 1), last>>
      BY <2>3, <3>1, <3>2, Staged DEF s
    <3>4. done = PagesDone /\ last \in {Block(host.at, 2 * done + 2), Padding}
      OBVIOUS
    <3> HIDE DEF done, last
    <3>5. 2 * done + 1 = Request.len
      BY <1>1, <2>3, <3>3
    <3>6. ImageInOrder /\ WholePrefix(flash) /\ 2 * done + 1 <= Request.len
      BY <3>3, <3>5, PrefixIsWhole DEF OrderInv
    <3>7. Closed \/ PageDone(s, d, done, last)
      BY <2>3, <2>10, <3>2, <3>3, <3>4, <3>6, FirmwareStep
    <3>8. CASE PageDone(s, d, done, last)
      <4> DEFINE x == [d EXCEPT !.staged = <<>>, !.offset = Offset(s) + 1, !.begin = Begin(s)]
      <4>1. Continue(x)
        BY <3>8 DEF PageDone
      <4>2. x.frame = 1 /\ x.mode = dev.mode /\ {"mode", "frame", "staged", "offset"} \subseteq DOMAIN x
        BY <1>2 DEF DevType
      <4> HIDE DEF x
      <4>3. StoredIn(flash', ownerPage', message', host.at)
        <5>1. script[host.at].len = 2 * done + 1
          BY <3>5 DEF Request
        <5>2. \A n \in 1 .. 2 * done + 1 : Holds(flash', host.at, n)
          BY <3>8 DEF PageDone
        <5>3. ModeOf(host.at) \notin {"OwnerBlock", "BootSvcReq"}
          BY <3>2 DEF FirmwareModes
        <5> QED
          BY <5>1, <5>2, <5>3 DEF StoredIn
      <4> QED
        BY <1>4, <2>3, <4>1, <4>2, <4>3
    <3>9. CASE Closed
      <4>1. dev'.mode = dev.mode
        <5>1. \/ \E why : Close(why)
              \/ Continue([d EXCEPT !.staged = <<>>, !.offset = Offset(s) + 1, !.begin = Begin(s)])
          BY <2>10 DEF FirmwareBlock, Cancel
        <5>2. CASE \E why : Close(why)
          BY <1>1, <5>2 DEF Close, DevType
        <5>3. CASE Continue([d EXCEPT !.staged = <<>>, !.offset = Offset(s) + 1, !.begin = Begin(s)])
          <6> DEFINE x == [d EXCEPT !.staged = <<>>, !.offset = Offset(s) + 1, !.begin = Begin(s)]
          <6>1. x.frame = 1 /\ x.mode = dev.mode /\ {"mode", "frame", "staged", "offset"} \subseteq DOMAIN x
            BY <1>2 DEF DevType
          <6>2. Continue(x)
            BY <5>3
          <6> HIDE DEF x
          <6>3. dev' = Reset(x)
            BY <6>1, <6>2 DEF Continue
          <6> QED
            BY <6>1, <6>3 DEF Reset
        <5> QED
          BY <5>1, <5>2, <5>3
      <4> QED
        BY <2>8, <3>9, <4>1
    <3> QED
      BY <3>7, <3>8, <3>9
  <2>11. ASSUME NEW t, StoredIn(flash', ownerPage', message', host.at), Continue([d EXCEPT !.staged = t])
         PROVE  StoredInv'
    <3> DEFINE x == [d EXCEPT !.staged = t]
    <3>1. Continue(x)
      BY <2>11
    <3>2. x.frame = 1 /\ x.mode = dev.mode /\ {"mode", "frame", "staged", "offset"} \subseteq DOMAIN x
      BY <1>2 DEF DevType
    <3> HIDE DEF x
    <3> QED
      BY <1>4, <2>3, <2>11, <3>1, <3>2
  <2>12. CASE OwnerBlock(s, d)
    <3>1. dev.mode = "OwnerBlock" /\ OwnerUnlocked
      BY <1>3, <2>12 DEF OwnerBlock
    <3>2. (ownerPage' = s /\ Continue([d EXCEPT !.staged = <<>>])) \/ (Close("error") /\ toHost' = toHost)
      BY <2>12, <3>1 DEF OwnerBlock
    <3>3. ASSUME ownerPage' = s PROVE StoredIn(flash', ownerPage', message', host.at)
      <4>1. s[1] = Block(host.at, 1)
        <5> DEFINE S == {Block(host.at, 1), Padding}
        <5>0. dev.staged = <<Block(host.at, 1)>>
          BY <2>3, <2>7, <3>1
        <5>1. dev.staged \in Seq(S) /\ Len(dev.staged) = 1 /\ dev.staged[1] = Block(host.at, 1) /\ Padding \in S
          BY <5>0
        <5> HIDE DEF S
        <5>2. \A q \in Seq(S), x \in S : \A i \in 1 .. Len(q) : Append(q, x)[i] = q[i]
          BY AppendProperties
        <5>3. 1 \in 1 .. 1
          OBVIOUS
        <5> QED
          BY <5>1, <5>2, <5>3 DEF s
      <4> QED
        BY <2>3, <3>1, <3>3, <4>1 DEF StoredIn, FirmwareModes
    <3> QED
      BY <2>9, <2>11, <3>2, <3>3
  <2>13. CASE BootSvcReq(s, d)
    BY <2>3, <2>6, <2>13 DEF BootSvcReq
  <2>14. CASE /\ dev.mode = "NoOp" \/ Len(s) < 2
              /\ Continue([d EXCEPT !.staged = s])
    <3>1. Len(s) = 2
      <4>1. dev.staged \in Seq(Requested \cup {Padding}) /\ Padding \in Requested \cup {Padding}
        <5>1. dev.staged \in Seq(Requested)
          BY <1>1 DEF DevType
        <5>2. \A i \in 1 .. Len(dev.staged) : dev.staged[i] \in Requested \cup {Padding}
          BY <5>1, ElementOfSeq
        <5> QED
          BY <5>1, <5>2, LenProperties, IsASeq
      <4>2. Len(s) = Len(dev.staged) + 1
        BY <4>1, AppendProperties DEF s
      <4> QED
        BY <1>6, <4>2
    <3>2. ModeOf(host.at) = "NoOp"
      <4>1. ~(2 < 2)
        OBVIOUS
      <4> QED
        BY <2>3, <2>14, <3>1, <4>1
    <3>3. StoredIn(flash', ownerPage', message', host.at)
      BY <3>2 DEF StoredIn, FirmwareModes
    <3> QED
      BY <2>11, <2>14, <3>3
  <2> QED
    BY <2>1, <2>9, <2>10, <2>12, <2>13, <2>14 DEF Handle
<1> QED
  BY <1>5, <1>6

LEMMA AnswerSilent ==
  ASSUME IInv, Silent("ACK"),
         \/ toHost' = toHost
         \/ toHost' = toHost \o <<"CAN", "CAN">>
         \/ \E c \in Characters \ {"ACK"} : toHost' = toHost \o <<c>>
  PROVE  Silent("ACK")'
<1>1. CASE toHost' = toHost
  BY <1>1 DEF Silent
<1>2. CASE toHost' = toHost \o <<"CAN", "CAN">>
  <2>1. toHost \in Seq(Characters) /\ "CAN" \in Characters /\ "CAN" # "ACK"
    BY LineTypes DEF Characters
  <2>2. /\ Len(toHost) \in Nat /\ Len(toHost') = Len(toHost) + 2
        /\ \A i \in 1 .. Len(toHost) : toHost'[i] = toHost[i]
        /\ \A i \in Len(toHost) + 1 .. Len(toHost) + 2 : toHost'[i] = "CAN"
    BY <1>2, <2>1, AddTwoAt
  <2>3. \A i \in 1 .. Len(toHost) + 2 : i \in 1 .. Len(toHost) \/ i \in Len(toHost) + 1 .. Len(toHost) + 2
    BY <2>2
  <2> QED
    BY <2>1, <2>2, <2>3 DEF Silent
<1>3. CASE \E c \in Characters \ {"ACK"} : toHost' = toHost \o <<c>>
  <2> PICK c \in Characters \ {"ACK"} : toHost' = toHost \o <<c>>
    BY <1>3
  <2>1. \A i \in 1 .. Len(toHost') : (i \in 1 .. Len(toHost) /\ toHost'[i] = toHost[i]) \/ toHost'[i] = c
    BY ReplyLine
  <2> QED
    BY <2>1 DEF Silent
<1> QED
  BY <1>1, <1>2, <1>3

LEMMA CommandStored ==
  ASSUME IInv, OrderInv, StoredInv, ReceiveCommand, host' = host, script' = script
  PROVE  StoredInv'
<1> DEFINE mode == Head(toDevice).mode
           d == [dev EXCEPT !.deadline = FALSE]
<1>1. /\ dev.open /\ toDevice # <<>> /\ Head(toDevice).kind = "command"
      /\ toDevice' = Tail(toDevice) /\ UNCHANGED <<flash, ownerPage, message>>
  BY DEF ReceiveCommand, Receives, Kept
<1>2. 1 \in 1 .. Len(toDevice) /\ Head(toDevice) = toDevice[1]
  BY <1>1, TailLine
<1>3. ~Transferring
  BY <1>1, <1>2 DEF OrderInv, LineInOrder
<1>4. AtRest /\ dev.frame = 1 /\ dev \in DevType /\ (dev.mode = "OwnerBlock" => OwnerUnlocked)
  BY <1>1, <1>3, LineTypes, StoredNow DEF OrderInv, TransferStage, AtRest
<1>5. ValidateMode(mode)
  BY <1>4 DEF ReceiveCommand
<1>6. PICK c \in {"ok", "error"} : /\ toHost' = toHost \o <<c>>
                                   /\ dev'.mode = "OwnerBlock" => OwnerUnlocked
  <2>1. d \in DevType /\ d.mode = dev.mode
    BY <1>4 DEF DevType
  <2> HIDE DEF d, mode
  <2>2. CASE /\ mode = "NoOp" \/ Accepted(mode)
             /\ dev' = [Reset(d) EXCEPT !.mode = mode]
             /\ Reply(<<"ok">>)
    BY <2>1, <2>2 DEF Reset, DevType, Reply, Accepted
  <2>3. CASE /\ mode = "Reboot"
             /\ dev' = [Reset(d) EXCEPT !.mode = mode, !.open = FALSE, !.exit = "reboot"]
             /\ Reply(<<"ok">>)
    BY <2>1, <2>3 DEF Reset, DevType, Reply
  <2>4. CASE dev' \in {d, Reset(d)} /\ Reply(<<"error">>)
    BY <1>4, <2>1, <2>4 DEF Reset, DevType, Reply
  <2> QED
    BY <1>5, <2>2, <2>3, <2>4 DEF ValidateMode, d, mode
<1>7. Silent("ACK") => Silent("ACK")'
  <2>1. c \in Characters \ {"ACK"}
    BY DEF Characters
  <2> QED
    BY <1>6, <2>1, AnswerSilent
<1> QED
  BY <1>1, <1>3, <1>6, <1>7, StoredStays

LEMMA DeviceStored ==
  ASSUME IInv, OrderInv, StoredInv, FramesComplete, FileSizes, Device
  PROVE  StoredInv'
<1>1. host' = host /\ script' = script /\ DeviceNext
  BY DEF Device
<1>2. dev \in DevType /\ WholeFrames /\ (dev.mode = "OwnerBlock" => OwnerUnlocked)
  BY LineTypes, StoredNow DEF OrderInv
<1>3. ASSUME NEW why, dev' = dev \/ (dev.open /\ Close(why)), UNCHANGED <<flash, ownerPage>>,
             message' = message \/ (message = Former /\ ~dev'.open),
             \/ toHost' = toHost
             \/ toHost' = toHost \o <<"CAN", "CAN">>
             \/ \E c \in Characters \ {"ACK"} : toHost' = toHost \o <<c>>
      PROVE  StoredInv'
  <2>1. dev' = dev \/ (~dev'.open /\ dev'.mode = dev.mode)
    BY <1>2, <1>3 DEF Close, DevType
  <2>2. Silent("ACK") => Silent("ACK")'
    BY <1>3, AnswerSilent
  <2>3. dev'.open => dev' = dev /\ message' = message
    BY <1>3, <2>1
  <2> QED
    BY <1>1, <1>2, <1>3, <2>1, <2>2, <2>3, StoredStays
<1>4. ASSUME toDevice # <<>>
      PROVE  Head(toDevice).kind # "noise" /\ Head(toDevice).damage # "start"
  <2>1. toDevice \in Seq(Written)
    BY LineTypes
  <2>2. Len(toDevice) \in Nat /\ Len(toDevice) >= 1 /\ Head(toDevice) = toDevice[1]
    BY <1>4, <2>1, TailAt
  <2>3. 1 \in 1 .. Len(toDevice)
    BY <2>2
  <2> QED
    BY <1>2, <2>2, <2>3 DEF WholeFrames
<1>5. {"NAK", "C", "text"} \subseteq Characters \ {"ACK"}
  BY DEF Characters
<1>6. CASE ReceiveFrame
  BY <1>1, <1>6, ReceiveFrameStored
<1>7. CASE ReceiveEof
  BY <1>1, <1>7, EndOfFileStored DEF ReceiveEof, Receives
<1>8. CASE ReceiveStartless
  BY <1>4, <1>8 DEF ReceiveStartless, Receives
<1>9. CASE ReceiveCommand
  BY <1>1, <1>9, CommandStored
<1>10. CASE ReceiveOverrun \/ ReceiveWrongNumber \/ ReceiveShort
  BY <1>3, <1>10 DEF ReceiveOverrun, ReceiveWrongNumber, ReceiveShort, Receives, Kept, Cancel, Reply
<1>11. CASE ReceiveBadCrc
  BY <1>3, <1>5, <1>11 DEF ReceiveBadCrc, Kept, Reply
<1>12. CASE ReceiveNoise
  BY <1>3, <1>4, <1>12 DEF ReceiveNoise, Kept
<1>13. CASE StartTimeout
  BY <1>3, <1>5, <1>13 DEF StartTimeout, Kept, Reply
<1>14. CASE Inactivity
  <2>1. /\ dev.open /\ Close("inactivity") /\ UNCHANGED <<flash, ownerPage>>
        /\ toHost' = toHost \/ toHost' = toHost \o <<"CAN", "CAN">>
        /\ dev.deadline
    BY <1>14 DEF Inactivity, Reply
  <2>2. message = Former /\ ~dev'.open
    BY <1>2, <2>1 DEF IInv, DeadlineOff, Close, DevType
  <2> QED
    BY <1>3, <2>1, <2>2
<1>15. CASE Output
  BY <1>3, <1>5, <1>15 DEF Output, Reply, devVars
<1> QED
  BY <1>1, <1>6, <1>7, <1>8, <1>9, <1>10, <1>11, <1>12, <1>13, <1>14, <1>15 DEF DeviceNext

(* The host takes a step that leaves the device alone, out of a transfer   *)
(* or outside one ...                                                      *)
LEMMA OutStored ==
  ASSUME StoredInv, UNCHANGED <<script, devVars>>, ~Transferring',
         host'.last # "none" => host'.at > 1,
         host'.pc = "idle" /\ host'.last = "ACK" => StoredIn(flash, ownerPage, message, host'.at - 1)
  PROVE  StoredInv'
<1>1. dev.mode = "OwnerBlock" => OwnerUnlocked
  BY StoredNow
<1>2. host'.pc # "eof"
  BY DEF Transferring
<1>3. ASSUME StoredIn(flash, ownerPage, message, host'.at - 1) PROVE Stored(host.at - 1)'
  <2>1. StoredIn(flash, ownerPage, message, host.at - 1)'
    BY <1>3 DEF StoredIn, Holds, ModeOf, Place, Base, Half, BankOf, Discarded, Block, devVars
  <2> QED
    BY <2>1, StoredHere, PTL
<1> QED
  BY <1>1, <1>2, <1>3 DEF StoredInv, BlocksStored, FileStored, AckedFileStored, devVars

(* ... or in one, in which the device has not yet answered the end of the  *)
(* file.                                                                   *)
LEMMA InStored ==
  ASSUME StoredInv, UNCHANGED <<script, devVars>>, host'.at = host.at, host'.last = host.last,
         host'.pc # "idle", dev.open => Transferring \/ dev.frame = 1,
         host'.pc = "eof" => Silent("ACK")',
         host'.pc = "eof" /\ dev.open /\ dev.frame = 1 => StoredIn(flash, ownerPage, message, host.at)
  PROVE  StoredInv'
<1>1. /\ dev.mode = "OwnerBlock" => OwnerUnlocked
      /\ dev.open /\ Transferring => TakenAt(dev, flash, ownerPage, message)
      /\ host.last # "none" => host.at > 1
  BY StoredNow
<1>2. ModeOf(host.at)' = ModeOf(host.at)
  BY DEF ModeOf
<1>3. ASSUME StoredIn(flash, ownerPage, message, host.at) PROVE Stored(host.at)'
  <2>1. StoredIn(flash, ownerPage, message, host.at)'
    BY <1>3 DEF StoredIn, Holds, ModeOf, Place, Base, Half, BankOf, Discarded, Block, devVars
  <2> QED
    BY <2>1, StoredHere, PTL
<1>4. BlocksStored'
  <2>1. dev.frame = 1 => dev.frame \notin {2, 3}
    OBVIOUS
  <2> QED
    BY <1>1, <1>2, <1>3, <2>1 DEF BlocksStored, TakenAt, Block, devVars
<1> QED
  BY <1>1, <1>4 DEF StoredInv, FileStored, AckedFileStored

LEMMA AwaitStartStored ==
  ASSUME IInv, OrderInv, StoredInv, FileSizes, AwaitStart
  PROVE  StoredInv'
<1>1. /\ host.pc = "start" /\ toHost # <<>> /\ toHost' = Tail(toHost) /\ UNCHANGED <<script, devVars>>
  BY DEF AwaitStart, Reads, HostKeeps
<1>2. ~Transferring /\ host.block = 0 /\ Silent("ACK") /\ host.at <= Len(script)
  BY <1>1, HostTypes DEF Transferring, OrderInv, RepliesInOrder
<1>3. Silent("ACK")'
  BY <1>1, <1>2, HostTail
<1>4. dev.open => dev.frame = 1
  BY <1>2 DEF OrderInv, TransferStage, AtRest
<1>5. CASE SendNext(host)
  <2>1. host'.at = host.at /\ host'.last = host.last /\ host'.pc \in {"data", "eof"}
        /\ (host'.pc = "eof" => ~(host.block < Request.len))
    BY <1>1, <1>5, NextSent, HostTypes DEF SendNext, SendBlock
  <2>2. ASSUME ~(host.block < Request.len) PROVE StoredIn(flash, ownerPage, message, host.at)
    <3>1. /\ Request.len = 0
          /\ ModeOf(host.at) # "OwnerBlock" /\ ModeOf(host.at) # "BootSvcReq"
      BY <1>2, <2>2, SizeFacts
    <3>2. 1 .. 0 = {}
      OBVIOUS
    <3> QED
      BY <3>1, <3>2 DEF StoredIn, Request
  <2> QED
    BY <1>1, <1>3, <1>4, <2>1, <2>2, InStored
<1>6. CASE host' \in {[host EXCEPT !.pc = "failed"], host, [host EXCEPT !.cancels = @ + 1]}
  <2>1. /\ host'.pc \in {"start", "failed"} /\ host'.at = host.at /\ host'.block = 0 /\ host'.last = host.last
    BY <1>1, <1>2, <1>6, HostTypes
  <2>2. ~(0 > 0)
    OBVIOUS
  <2>3. ~Transferring' /\ host'.pc # "idle"
    BY <2>1, <2>2 DEF Transferring
  <2> QED
    BY <1>1, <2>1, <2>3, OutStored, StoredNow
<1> QED
  BY <1>5, <1>6 DEF AwaitStart

(* The ACK for the last block is the only one: that for the end of the     *)
(* file is still to come.                                                  *)
LEMMA AwaitReplyStored ==
  ASSUME IInv, OrderInv, StoredInv, AwaitReply
  PROVE  StoredInv'
<1> DEFINE h == IF Head(toHost) = "CAN" THEN [host EXCEPT !.cancels = @ + 1]
                ELSE [host EXCEPT !.errors = @ + 1]
<1>1. /\ host.pc = "data" /\ toHost # <<>> /\ toHost' = Tail(toHost) /\ UNCHANGED <<script, devVars>>
  BY DEF AwaitReply, Reads, HostKeeps
<1>2. Transferring
  BY <1>1 DEF Transferring
<1>3. h.at = host.at /\ h.last = host.last /\ h.pc = "data"
      /\ [h EXCEPT !.pc = "failed"].at = host.at /\ [h EXCEPT !.pc = "failed"].last = host.last
      /\ [h EXCEPT !.pc = "failed"].pc = "failed"
  BY <1>1, HostTypes
<1> HIDE DEF h
<1>4. CASE host' = [h EXCEPT !.pc = "failed"] \/ SendBlock(h)
  BY <1>1, <1>2, <1>3, <1>4, InStored DEF SendBlock
<1>5. CASE Head(toHost) = "ACK" /\ SendNext(host)
  <2>1. host'.at = host.at /\ host'.last = host.last /\ host'.pc \in {"data", "eof"}
    BY <1>1, <1>5, NextSent, HostTypes DEF SendNext, SendBlock
  <2>2. /\ 1 \in 1 .. Len(toHost) /\ Head(toHost) = toHost[1]
        /\ \A i \in 1 .. Len(toHost') : toHost'[i] = toHost[i + 1] /\ i + 1 \in 1 .. Len(toHost) /\ 1 < i + 1
    BY <1>1, HostTail
  <2>3. Silent("ACK")'
    <3>1. \A i \in 1 .. Len(toHost') : 1 # i + 1
      OBVIOUS
    <3>2. \A i, j \in 1 .. Len(toHost) : toHost[i] = "ACK" /\ toHost[j] = "ACK" => i = j
      BY <1>1 DEF OrderInv, RepliesInOrder
    <3> QED
      BY <1>5, <2>2, <3>1, <3>2 DEF Silent
  <2>4. dev.open => dev.frame # 1
    <3>1. dev.open => host.block = dev.frame - 1
      BY <1>1, <1>5, <2>2 DEF OrderInv, TransferStage
    <3>2. host.block \in 1 .. Request.len
      BY <1>1 DEF OrderInv, RepliesInOrder
    <3>3. host.block # 1 - 1
      BY <3>2
    <3> QED
      BY <3>1, <3>3
  <2> QED
    BY <1>1, <1>2, <2>1, <2>3, <2>4, InStored
<1> QED
  BY <1>4, <1>5 DEF AwaitReply, h

LEMMA HostStored ==
  ASSUME IInv, OrderInv, StoredInv, FileSizes, HostNext
  PROVE  StoredInv'
<1>1. script' = script /\ UNCHANGED devVars
  BY DEF HostNext, SendMode, SkipMode, AwaitMode, ModeTimeout, AwaitStart, AwaitReply, AwaitFinish, HostKeeps
<1>2. host.last # "none" => host.at > 1
  BY StoredNow
<1>3. host.at \in Nat \ {0}
  BY HostTypes
<1>4. CASE SendMode \/ SkipMode
  <2>1. host'.pc \in {"mode", "start"} /\ host'.at = host.at /\ host'.last = host.last
    BY <1>4, HostTypes DEF SendMode, SkipMode
  <2>2. ~Transferring'
    BY <2>1 DEF Transferring
  <2> QED
    BY <1>1, <1>2, <2>1, <2>2, OutStored
<1>5. CASE AwaitMode
  <2>1. /\ host'.pc \in {"refused", "idle", "start", "mode"}
        /\ host'.pc = "idle" => host'.last = "ok" /\ host'.at = host.at + 1
        /\ host'.pc # "idle" => host'.last = host.last /\ host'.at = host.at
    BY <1>5, HostTypes DEF AwaitMode, Reads
  <2>2. ~Transferring'
    BY <2>1 DEF Transferring
  <2>3. host.at + 1 > 1
    BY <1>3
  <2> QED
    BY <1>1, <1>2, <2>1, <2>2, <2>3, OutStored
<1>6. CASE ModeTimeout
  <2>1. host'.pc = "failed" /\ host'.at = host.at /\ host'.last = host.last /\ host'.block = 0
    BY <1>6, HostTypes DEF ModeTimeout, OrderInv, RepliesInOrder
  <2>2. ~(0 > 0)
    OBVIOUS
  <2>3. ~Transferring'
    BY <2>1, <2>2 DEF Transferring
  <2> QED
    BY <1>1, <1>2, <2>1, <2>3, OutStored
<1>7. CASE AwaitStart
  BY <1>7, AwaitStartStored
<1>8. CASE AwaitReply
  BY <1>8, AwaitReplyStored
<1>9. CASE AwaitFinish
  <2>1. /\ host.pc = "eof" /\ toHost # <<>>
        /\ host'.pc = "idle" /\ host'.at = host.at + 1 /\ host'.last = Head(toHost)
    BY <1>9, HostTypes DEF AwaitFinish, Reads
  <2>2. 1 \in 1 .. Len(toHost) /\ Head(toHost) = toHost[1]
    BY <1>9, HostTail DEF AwaitFinish, Reads
  <2>3. Head(toHost) = "ACK" => StoredIn(flash, ownerPage, message, host.at)
    BY <2>1, <2>2, StoredNow DEF Silent
  <2>4. host'.at > 1 /\ host'.at - 1 = host.at
    BY <1>3, <2>1
  <2>5. ~Transferring'
    BY <2>1 DEF Transferring
  <2> QED
    BY <1>1, <2>1, <2>3, <2>4, <2>5, OutStored
<1> QED
  BY <1>4, <1>5, <1>6, <1>7, <1>8, <1>9 DEF HostNext

LEMMA LineStored ==
  ASSUME IInv, StoredInv, Line
  PROVE  StoredInv'
<1>1. UNCHANGED <<script, devVars, host>>
  BY DEF Line
<1>2. Silent("ACK") => Silent("ACK")'
  <2>1. CASE toHost' = toHost
    BY <2>1 DEF Silent
  <2>2. CASE toHost # <<>> /\ toHost' = Tail(toHost)
    BY <2>2, HostTail
  <2>3. CASE toHost # <<>> /\ toHost' = [toHost EXCEPT ![1] = "text"]
    <3>1. toHost \in Seq(Characters) /\ 1 \in 1 .. Len(toHost) /\ "text" \in Characters
      BY <2>3, LineTypes, EmptySeq DEF Characters
    <3>2. /\ Len(toHost') = Len(toHost)
          /\ \A i \in 1 .. Len(toHost) : toHost'[i] = IF i = 1 THEN "text" ELSE toHost[i]
      BY <2>3, <3>1, ExceptSeq
    <3> QED
      BY <3>2 DEF Silent
  <2> QED
    BY <2>1, <2>2, <2>3 DEF Line, DamageFrame, DamageOther, DamageReply
<1> QED
  BY <1>1, <1>2, StoredNow, StoredStays DEF devVars

(* Whatever is lost or damaged, a file whose end has been acknowledged is  *)
(* in place.                                                               *)
THEOREM StoredKept ==
  ASSUME FramesComplete, FileSizes
  PROVE  Spec => []StoredInv
<1>1. Init => StoredInv
  <2> SUFFICES ASSUME Init PROVE StoredInv
    OBVIOUS
  <2>1. dev.mode \in {"Firmware", "NoOp"} /\ host.pc = "idle" /\ host.last = "none"
    BY DEF Init, DeviceInit, HostInit, DefaultMode
  <2> QED
    BY <2>1 DEF StoredInv, BlocksStored, FileStored, AckedFileStored, Transferring
<1>2. IInv /\ OrderInv /\ StoredInv /\ [Next]_vars => StoredInv'
  <2> SUFFICES ASSUME IInv, OrderInv, StoredInv, [Next]_vars PROVE StoredInv'
    OBVIOUS
  <2>1. CASE UNCHANGED vars
    BY <2>1, StoredNow, StoredStays DEF vars, devVars, Silent
  <2> QED
    BY <2>1, DeviceStored, HostStored, LineStored DEF Next
<1> QED
  BY <1>1, <1>2, InductiveInvariant, OrderKept, PTL DEF Spec

(* When the host has read the acknowledgement of the end of a file, all of *)
(* the file is where the command puts it (handle_recv_modes() at the end   *)
(* of a file, and send_finish()), for files that are not too short or too  *)
(* long for what they are sent to.                                         *)
THEOREM AckedFilesStored ==
  ASSUME FramesComplete, FileSizes
  PROVE  Spec => []AckedFileStored
<1>1. StoredInv => AckedFileStored
  BY DEF StoredInv
<1> QED
  BY <1>1, StoredKept, PTL
=============================================================================
