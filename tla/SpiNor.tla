------------------------------- MODULE SpiNor -------------------------------
(***************************************************************************)
(* What a host may expect of bootstrap (rom/doc/bootstrap.md): a SPI NOR   *)
(* flash with a write enable latch and a busy bit, whose first erase       *)
(* erases all of it and which does nothing else before.  A byte is the set *)
(* of its programmed bits: erasing empties it, programming only adds.      *)
(***************************************************************************)
EXTENDS Integers

CONSTANTS
  Bytes,      (* Addresses 0 .. Bytes - 1.                                 *)
  Sector,     (* What SECTOR_ERASE erases.                                 *)
  ProgPage,   (* PAGE_PROGRAM wraps at the end of such a page.             *)
  Commands    (* [op, addr, len] the host sends.                           *)

VARIABLES
  mem,     (* Contents, while no command is being worked on.               *)
  wel, busy,
  op,      (* The command being worked on.                                 *)
  open,    (* All was erased since bootstrap started.                      *)
  alive    (* Bootstrap answers.                                           *)

vars == <<mem, wel, busy, op, open, alive>>

Address == 0 .. Bytes - 1
Idle == [op |-> "none", addr |-> 0, len |-> 0]
Blank == [a \in Address |-> {}]
IsErase(c) == c.op \in {"ChipErase", "SectorErase"}

(* The i-th byte of a payload has bit i programmed; a payload fills one    *)
(* page at most, from addr to its end and on from its start.               *)
Programmed(m, c) ==
  LET start == c.addr - (c.addr % ProgPage)
      Offset(a) == (a - c.addr) % ProgPage
  IN  [a \in Address |-> IF a \in start .. start + ProgPage - 1 /\ Offset(a) < c.len
                         THEN m[a] \cup {Offset(a)} ELSE m[a]]
Erased(m, c) ==
  LET start == c.addr - (c.addr % Sector)
  IN  [a \in Address |-> IF a \in start .. start + Sector - 1 THEN {} ELSE m[a]]

Effect(m, c, erasedBefore) ==
  CASE IsErase(c) /\ (c.op = "ChipErase" \/ ~erasedBefore) -> Blank
    [] c.op = "SectorErase" /\ erasedBefore -> Erased(m, c)
    [] c.op = "Program" /\ erasedBefore -> Programmed(m, c)
    [] OTHER -> m

Init == /\ mem \in [Address -> {{}, {-1}}]
        /\ ~wel /\ ~busy /\ ~open /\ alive
        /\ op = Idle

Latch == alive /\ wel' \in BOOLEAN /\ UNCHANGED <<mem, busy, op, open, alive>>

Accept == /\ alive /\ ~busy
          /\ busy'
          /\ op' \in Commands
          /\ UNCHANGED <<mem, wel, open, alive>>

Finish == /\ alive /\ busy /\ wel
          /\ mem' = Effect(mem, op, open)
          /\ open' = (open \/ IsErase(op))
          /\ op' = Idle
          /\ ~wel' /\ ~busy'
          /\ UNCHANGED alive

(* A reset, or a command or an operation that fails: the chip shuts down.  *)
GiveUp == alive /\ busy /\ ~alive' /\ UNCHANGED <<mem, wel, busy, op, open>>

(* Bootstrap starts again: complete data stays, interrupted work may not.  *)
StartAgain == /\ alive' /\ ~wel' /\ ~busy' /\ ~open'
              /\ op' = Idle
              /\ ~busy => \A a \in Address : mem'[a] = {} <=> mem[a] = {}

Next == Latch \/ Accept \/ Finish \/ GiveUp \/ StartAgain
Spec == Init /\ [][Next]_vars
=============================================================================
