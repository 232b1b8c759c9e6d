------------------------------- MODULE MCBuffers -------------------------------
(* Lengths around every multiple of three and four, every fixed size and   *)
(* the first and last sizes of the loop in format.                         *)
EXTENDS Buffers

MCLengths ==
    0..17 \cup (48..50) \cup (255..257) \cup (511..513)
        \cup {LimitSize \div 2, LimitSize \div 2 + 1}
        \cup (LimitSize - 1 .. LimitSize + 1)
=============================================================================
