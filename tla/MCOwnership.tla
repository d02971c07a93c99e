---------------------------- MODULE MCOwnership ----------------------------
(* Model checking Ownership: owner blocks of two owners, chosen so that    *)
(* every update mode and every kind of transfer occurs.                    *)
EXTENDS Ownership

CONSTANTS A, B

Block(owner, mode, version) ==
  [owner |-> owner, mode |-> mode, version |-> version, minsec |-> Keep, parse |-> "good"]

TransferBlocks ==
  {Block(A, "Open", 1), Block(B, "Open", 1), Block(B, "Self", 1)}

VersionBlocks ==
  {Block(A, "SelfVersion", 1), Block(A, "NewVersion", 2), Block(A, "Open", 3),
   [Block(A, "NewVersion", 2) EXCEPT !.parse = "bad"]}

MinSecBlocks ==
  {[Block(A, "SelfVersion", v) EXCEPT !.minsec = v] : v \in {1, 2}}

DuplicateBlocks ==
  {Block(A, "Open", 1), [Block(A, "Open", 1) EXCEPT !.parse = "dup"]}
=============================================================================
