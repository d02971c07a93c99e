---------------------------- MODULE MCBootstrap -----------------------------
(* Model checking Bootstrap: two banks of one sector of two flash pages,   *)
(* flash words of two bytes.                                               *)
EXTENDS Bootstrap

C(op, addr, len) == [op |-> op, addr |-> addr, len |-> len]
MCCommands ==
  { C("ChipErase", 0, 0), C("SectorErase", 5, 0), C("SectorErase", 20, 0), C("Reset", 0, 0),
    C("Other", 0, 0), C("Program", 26, 7), C("Program", 3, 2), C("Program", 0, 9) }
=============================================================================
